----------------------------- MODULE LlamaServer -----------------------------
(***************************************************************************)
(* run_llama_server_case of adapters/llama_server.py: probes, a server     *)
(* started on a port that anyone may take first, a readiness loop, two     *)
(* requests that must not see each other, a shutdown by SIGTERM and then   *)
(* SIGKILL, a thread that collects the output, and the one sample that     *)
(* tells of it.                                                            *)
(*                                                                         *)
(* A request carries its sentinel, which is its number; of a reply only    *)
(* the sentinels it shows are kept.  A byte of output is counted.  An      *)
(* exception while the server runs shuts it down; one between the Popen    *)
(* and the try, or in the shutdown itself, does not.                       *)
(***************************************************************************)
EXTENDS Naturals, Sequences, FiniteSets

CONSTANTS StreamLimit,  \* STREAM_LIMIT_BYTES
          MaxBytes,     \* bound: bytes the server prints
          MaxTrouble    \* bound: failing calls, drifts, exceptions, others on the port

BoundsAssumption == StreamLimit \in Nat /\ MaxBytes \in Nat /\ MaxTrouble \in Nat

VARIABLES
  pc, raised,
  cut,        \* an exception came where nothing ends the server after it (history)
  intact,     \* binary and model are the ones the inputs name
  port,       \* who holds the port: nobody, our server, another process
  server,     \* none, starting, loading, serving; or how it ended
  written,    \* bytes the server has printed
  seen,       \* bytes the collector has read
  collector,  \* _StreamCollector: idle, running, stopping, done or failed
  capable,    \* the probes found the capabilities
  readiness,  \* none, or whether the server was ready; with its having bound the port
  requests,   \* RequestAttemptV1, each with who answered
  verdict,    \* primary_status
  shut,       \* what the shutdown did and met
  sample,     \* sample.json, or none
  trouble

vars == <<pc, raised, cut, intact, port, server, written, seen, collector, capable, readiness,
          requests, verdict, shut, sample, trouble>>

child == <<port, server, written>>
captured == <<seen, collector>>
tale  == <<capable, readiness, requests, verdict, shut, sample>>

OneMore == trouble < MaxTrouble /\ trouble' = trouble + 1

Alive == server \in {"starting", "loading", "serving"}

NoSample == [status |-> "none"]
NotShut == [term |-> FALSE, kill |-> FALSE, unexpected |-> FALSE, error |-> FALSE]

Init ==
  /\ pc = "probe" /\ raised = FALSE /\ cut = FALSE /\ intact = TRUE
  /\ port = "nobody" /\ server = "none" /\ written = 0
  /\ seen = 0 /\ collector = "idle"
  /\ capable = FALSE /\ readiness = [tried |-> FALSE, ready |-> FALSE, bound |-> FALSE]
  /\ requests = << >> /\ verdict = "success" /\ shut = NotShut /\ sample = NoSample
  /\ trouble = 0

-----------------------------------------------------------------------------
(* The server, the port and the files *)

Bind ==
  /\ server = "starting"
  /\ IF port = "nobody" THEN port' = "ours" /\ server' = "loading"
       ELSE server' = "failed" /\ UNCHANGED port
  /\ UNCHANGED <<pc, raised, cut, intact, written, captured, tale, trouble>>

Load ==
  /\ server = "loading" /\ server' = "serving"
  /\ UNCHANGED <<pc, raised, cut, intact, port, written, captured, tale, trouble>>

\* The server ends, of itself, or of SIGTERM, which it only handles once it serves.
ServerEnds ==
  /\ Alive
  /\ \/ server' \in {"failed", "exited"} /\ OneMore
     \/ shut.term /\ ~shut.error /\ server' = (IF server = "serving" THEN "exited" ELSE "failed") /\ UNCHANGED trouble
  /\ port' = IF port = "ours" THEN "nobody" ELSE port
  /\ UNCHANGED <<pc, raised, cut, intact, written, captured, tale>>

Output ==
  /\ Alive /\ written < MaxBytes /\ written' = written + 1
  /\ UNCHANGED <<pc, raised, cut, intact, port, server, captured, tale, trouble>>

AnotherBinds ==
  /\ port = "nobody" /\ OneMore /\ port' = "another"
  /\ UNCHANGED <<pc, raised, cut, intact, server, written, captured, tale>>

AnotherLeaves ==
  /\ port = "another" /\ port' = "nobody"
  /\ UNCHANGED <<pc, raised, cut, intact, server, written, captured, tale, trouble>>

Drift ==
  /\ intact /\ OneMore /\ intact' = FALSE
  /\ UNCHANGED <<pc, raised, cut, child, captured, tale>>

-----------------------------------------------------------------------------
(* The collector *)

Collect ==
  /\ collector = "running" /\ seen < written /\ seen' = written
  /\ UNCHANGED <<pc, raised, cut, intact, child, collector, tale, trouble>>

\* Mutant of Drained: told to stop, it leaves what is in the pipes.
DrainedNot == seen

\* Before it ends the collector reads what is in the pipes.
Drained == written

\* The end of both streams, or the stop event
CollectorEnds ==
  /\ \/ collector = "running" /\ server # "none" /\ ~Alive
     \/ collector = "stopping"
  /\ seen' = Drained /\ collector' = "done"
  /\ UNCHANGED <<pc, raised, cut, intact, child, tale, trouble>>

CollectorFails ==
  /\ collector \in {"running", "stopping"} /\ OneMore /\ collector' = "failed"
  /\ UNCHANGED <<pc, raised, cut, intact, child, seen, tale>>

-----------------------------------------------------------------------------
(* Before the server *)

Goto(l) == pc' = l

\* A sample is published last, after the inputs were verified once more.
Publish(s) ==
  IF intact THEN sample' = s /\ UNCHANGED raised ELSE raised' = TRUE /\ UNCHANGED sample

Sample(s) ==
  [status |-> s, capable |-> capable, readiness |-> readiness, requests |-> requests,
   lifecycle |-> shut, whole |-> seen = written, code |-> server]

\* --version and --help, each a process that may fail or print another grammar
Probe ==
  /\ pc = "probe" /\ capable' \in BOOLEAN
  /\ IF intact THEN Goto(IF capable' THEN "port" ELSE "incapable") /\ UNCHANGED raised
       ELSE Goto("end") /\ raised' = TRUE
  /\ UNCHANGED <<cut, intact, child, captured, readiness, requests, verdict, shut, sample, trouble>>

Incapable ==
  /\ pc = "incapable" /\ Publish(Sample("capability-failed")) /\ Goto("end")
  /\ UNCHANGED <<cut, intact, child, captured, capable, readiness, requests, verdict, shut, trouble>>

\* _port_available: the port is bound and given back.
PortCheck ==
  /\ pc = "port"
  /\ IF port = "nobody" THEN Goto("spawn") /\ UNCHANGED <<raised, sample>>
       ELSE Publish(Sample("port-unavailable")) /\ Goto("end")
  /\ UNCHANGED <<cut, intact, child, captured, capable, readiness, requests, verdict, shut, trouble>>

Spawn ==
  /\ pc = "spawn"
  /\ IF intact
       THEN server' = "starting" /\ collector' = "running" /\ Goto("ready") /\ UNCHANGED raised
       ELSE Goto("end") /\ raised' = TRUE /\ UNCHANGED <<server, collector>>
  /\ UNCHANGED <<cut, intact, port, written, seen, tale, trouble>>

SpawnFails ==
  /\ pc = "spawn" /\ OneMore /\ Publish(Sample("spawn-failed")) /\ Goto("end")
  /\ UNCHANGED <<cut, intact, child, captured, capable, readiness, requests, verdict, shut>>

-----------------------------------------------------------------------------
(* Readiness and requests *)

\* What /health answers: whoever holds the port, and the call may always fail.
Health ==
  {"transport"} \cup
  CASE port = "nobody" -> {}
    [] port = "ours" -> IF server = "serving" THEN {"ok", "bad"} ELSE {"loading", "bad"}
    [] OTHER -> {"ok", "loading", "bad"}

ReadinessEnds(ready) ==
  /\ readiness' = [tried |-> TRUE, ready |-> ready, bound |-> port = "ours"]
  /\ verdict' = IF ready THEN "success" ELSE "readiness-failed"
  /\ Goto(IF ready THEN "request" ELSE "shutdown")

\* One round of the loop: the server has exited, or is asked, or the deadline is over.
AwaitReady ==
  /\ pc = "ready"
  /\ IF ~Alive THEN ReadinessEnds(FALSE)
       ELSE \E h \in Health :
              CASE h = "ok" -> ReadinessEnds(TRUE)
                [] h = "bad" -> ReadinessEnds(FALSE)
                [] OTHER -> UNCHANGED <<pc, readiness, verdict>>
  /\ UNCHANGED <<raised, cut, intact, child, captured, capable, requests, shut, sample, trouble>>

ReadyDeadline ==
  /\ pc = "ready" /\ ReadinessEnds(FALSE)
  /\ UNCHANGED <<raised, cut, intact, child, captured, capable, requests, shut, sample, trouble>>

\* _attempt_from_http: the error of an exchange, or the sentinels in the prompt it shows
Replies ==
  {[error |-> "transport", shows |-> {}]} \cup
  IF port = "nobody" THEN {}
    ELSE [error : {"none"}, shows : SUBSET {1, 2}]
         \cup [error : {"http-status", "oversized", "shape"}, shows : {{}}]

StatusOf(error) ==
  CASE error = "none" -> "success"
    [] error \in {"transport", "http-status", "oversized"} -> "request-failed"
    [] OTHER -> "response-failed"

\* Mutant of MoreRequests: a request is repeated after a failure.
MoreRequestsOnError == Len(requests) < 2 \/ (verdict # "success" /\ Len(requests) < 3)

MoreRequests == Len(requests) < 2

\* Mutant of FirstFailure: the last attempt that fails gives the status.
LastFailure(error) == IF error = "none" THEN verdict ELSE StatusOf(error)

FirstFailure(error) == IF verdict = "success" THEN StatusOf(error) ELSE verdict

\* The first attempt that fails gives the status; the other request is made all the same.
Request ==
  /\ pc = "request" /\ MoreRequests
  /\ IF ~intact THEN raised' = TRUE /\ Goto("shutdown") /\ UNCHANGED <<requests, verdict>>
       ELSE \E r \in Replies :
              /\ requests' = Append(requests, [error |-> r.error, shows |-> r.shows,
                                              isolated |-> FALSE, from |-> port])
              /\ verdict' = FirstFailure(r.error)
              /\ UNCHANGED <<pc, raised>>
  /\ UNCHANGED <<cut, intact, child, captured, capable, readiness, shut, sample, trouble>>

\* A reply shows its own sentinel and not the other.
Isolated(i) == requests[i].shows = {i}

Isolate ==
  /\ pc = "request" /\ ~MoreRequests
  /\ IF \A i \in 1 .. 2 : requests[i].error = "none"
       THEN /\ requests' = [i \in 1 .. 2 |->
                              [requests[i] EXCEPT !.isolated = Isolated(i),
                                                  !.error = IF Isolated(i) THEN "none" ELSE "isolation"]]
            /\ verdict' = IF \A i \in 1 .. 2 : Isolated(i) THEN verdict ELSE "isolation-failed"
       ELSE UNCHANGED <<requests, verdict>>
  /\ Goto("shutdown")
  /\ UNCHANGED <<raised, cut, intact, child, captured, capable, readiness, shut, sample, trouble>>

\* Mutant of Raise: the exception passes the server by.
RaiseOutright ==
  /\ pc \in {"ready", "request"} /\ OneMore /\ raised' = TRUE /\ Goto("end")
  /\ UNCHANGED <<cut, intact, child, captured, tale>>

\* Evidence that cannot be written, or an interrupt, while the server runs
Raise ==
  /\ pc \in {"ready", "request"} /\ OneMore /\ raised' = TRUE /\ Goto("shutdown")
  /\ UNCHANGED <<cut, intact, child, captured, tale>>

\* The same before there is a server, or after it was shut down
RaiseOutside ==
  /\ pc \in {"probe", "incapable", "port", "spawn", "collect", "stopped", "tell"}
  /\ OneMore /\ raised' = TRUE /\ Goto("end")
  /\ UNCHANGED <<cut, intact, child, captured, tale>>

\* The server is there, its collector or the try around it not yet: nobody shuts it down.
CutBefore ==
  /\ pc = "spawn" /\ intact /\ OneMore
  /\ server' = "starting" /\ collector' \in {"idle", "running"}
  /\ cut' = TRUE /\ raised' = TRUE /\ Goto("end")
  /\ UNCHANGED <<intact, port, written, seen, tale>>

\* An interrupt in the shutdown, which is no OSError: what is left of it is skipped, SIGKILL
\* too, and the collector stopped.
CutShutdown ==
  /\ pc \in {"shutdown", "wait"} /\ OneMore
  /\ cut' = TRUE /\ raised' = TRUE /\ Goto("collect")
  /\ UNCHANGED <<intact, child, captured, tale>>

-----------------------------------------------------------------------------
(* Shutdown *)

\* The server is polled before it is signalled.  The signal itself may fail.
Shutdown ==
  /\ pc = "shutdown"
  /\ IF ~Alive
       THEN shut' = [shut EXCEPT !.unexpected = TRUE] /\ Goto("collect") /\ UNCHANGED trouble
       ELSE /\ \/ shut' = [shut EXCEPT !.term = TRUE] /\ UNCHANGED trouble
               \/ shut' = [shut EXCEPT !.term = TRUE, !.error = TRUE] /\ OneMore
            /\ Goto("wait")
  /\ UNCHANGED <<raised, cut, intact, child, captured, capable, readiness, requests, verdict, sample>>

\* A code that is not 0 is an end nobody asked for, unless SIGKILL did.
Reaped == shut' = [shut EXCEPT !.unexpected = @ \/ server = "failed"]

Wait ==
  /\ pc = "wait" /\ ~Alive /\ Reaped /\ Goto("collect")
  /\ UNCHANGED <<raised, cut, intact, child, captured, capable, readiness, requests, verdict, sample, trouble>>

\* The shutdown deadline: SIGKILL, by the group or by the process; or both fail, or the server
\* does not exit of it within a second deadline.
Kill ==
  /\ pc = "wait" /\ Goto("collect")
  /\ \/ /\ server' = (IF Alive THEN "killed" ELSE server)
        /\ port' = IF port = "ours" THEN "nobody" ELSE port
        /\ \/ shut' = [shut EXCEPT !.kill = TRUE] /\ UNCHANGED trouble
           \/ shut' = [shut EXCEPT !.kill = TRUE, !.error = TRUE] /\ OneMore
     \/ /\ Alive /\ UNCHANGED <<server, port>>
        /\ shut' = [shut EXCEPT !.kill = TRUE, !.error = TRUE] /\ OneMore
  /\ UNCHANGED <<raised, cut, intact, written, captured, capable, readiness, requests, verdict, sample>>

Stop ==
  /\ pc = "collect" /\ Goto("stopped")
  /\ collector' = IF collector = "running" THEN "stopping" ELSE collector
  /\ UNCHANGED <<raised, cut, intact, child, seen, tale, trouble>>

\* The collector is joined; the inputs are verified whatever has been raised before.
Joined ==
  /\ pc = "stopped" /\ collector \in {"done", "failed"}
  /\ raised' = (raised \/ ~intact) /\ Goto(IF raised' THEN "end" ELSE "tell")
  /\ UNCHANGED <<cut, intact, child, captured, tale, trouble>>

JoinDeadline ==
  /\ pc = "stopped" /\ collector = "stopping" /\ OneMore /\ raised' = TRUE /\ Goto("end")
  /\ UNCHANGED <<cut, intact, child, captured, tale>>

\* Mutant of Graceful: the code says it all.
GracefulByCode == server = "exited" /\ ~shut.error

\* Ended by the SIGTERM it was sent while alive, with code 0
Graceful == shut.term /\ ~shut.kill /\ ~shut.unexpected /\ ~shut.error /\ server = "exited"

\* Mutant of FinalStatus: a success stands, however the server was shut down.
FinalStatusKept == IF collector = "failed" \/ seen > StreamLimit THEN "capture-failed" ELSE verdict

\* An incomplete capture comes before everything; a bad shutdown only spoils a success.
FinalStatus ==
  IF collector = "failed" \/ seen > StreamLimit THEN "capture-failed"
    ELSE IF verdict = "success" /\ ~Graceful THEN "shutdown-failed"
    ELSE verdict

Tell ==
  /\ pc = "tell" /\ verdict' = FinalStatus /\ Publish(Sample(FinalStatus)) /\ Goto("end")
  /\ UNCHANGED <<cut, intact, child, captured, capable, readiness, requests, shut, trouble>>

Step == Probe \/ Incapable \/ PortCheck \/ Spawn \/ AwaitReady \/ Request \/ Isolate \/ Shutdown
        \/ Wait \/ Kill \/ Stop \/ Joined \/ Tell

Collector == Collect \/ CollectorEnds

World == Bind \/ Load \/ ServerEnds \/ Output \/ AnotherBinds \/ AnotherLeaves \/ Drift
         \/ SpawnFails \/ Raise \/ RaiseOutside \/ CutBefore \/ CutShutdown \/ JoinDeadline \/ CollectorFails

Done == pc = "end" /\ UNCHANGED vars

Next == Step \/ Collector \/ ReadyDeadline \/ World \/ Done

Spec == Init /\ [][Next]_vars

-----------------------------------------------------------------------------
(* Correctness *)

Ended == pc = "end"

\* Every variable keeps to its range, and the collector never reads what was not printed.
TypeOK ==
  /\ pc \in {"probe", "incapable", "port", "spawn", "ready", "request", "shutdown", "wait",
             "collect", "stopped", "tell", "end"}
  /\ raised \in BOOLEAN /\ cut \in BOOLEAN /\ intact \in BOOLEAN /\ capable \in BOOLEAN
  /\ port \in {"nobody", "ours", "another"}
  /\ port = "ours" => server \in {"loading", "serving"}
  /\ server \in {"none", "starting", "loading", "serving", "exited", "failed", "killed"}
  /\ written \in 0 .. MaxBytes /\ seen \in 0 .. written
  /\ collector \in {"idle", "running", "stopping", "done", "failed"}
  /\ readiness \in [tried : BOOLEAN, ready : BOOLEAN, bound : BOOLEAN]
  /\ Len(requests) <= 2 /\ trouble \in 0 .. MaxTrouble
  /\ shut \in [term : BOOLEAN, kill : BOOLEAN, unexpected : BOOLEAN, error : BOOLEAN]

\* A success whose server had bound its port when it was found ready is told by that
\* server alone: no reply of another process that took the port over passes for its own.
\* Each reply shows its sentinel and not the other.
SuccessIsOurs ==
  sample.status = "success" =>
    \A i \in 1 .. 2 : /\ readiness.bound => requests[i].from = "ours"
                      /\ requests[i].shows = {i}

\* A sample is one its own validator accepts, so that building it never raises.
SampleIsConsistent ==
  sample # NoSample =>
    /\ (sample.status = "capability-failed") = ~sample.capable
    /\ ~sample.capable => ~sample.readiness.tried /\ sample.requests = << >>
    /\ sample.status = "success" =>
         /\ sample.readiness.ready /\ Len(sample.requests) = 2
         /\ \A i \in 1 .. 2 : sample.requests[i].isolated
         /\ sample.lifecycle = [NotShut EXCEPT !.term = TRUE] /\ sample.code = "exited"

\* What the server printed is all in the sample's counts and digests, or the sample says
\* that the capture failed, or that even SIGKILL did not end the server.
CaptureIsWhole ==
  sample # NoSample =>
    \/ sample.whole \/ sample.status = "capture-failed"
    \/ sample.lifecycle.kill /\ sample.lifecycle.error

\* The status of a sample is the first thing that went wrong, but for the capture.
StatusIsFirstFailure ==
  LET failed == {i \in 1 .. Len(requests) : StatusOf(requests[i].error) # "success" /\ requests[i].error # "isolation"}
  IN sample.status \in {"success", "readiness-failed", "request-failed", "response-failed",
                        "isolation-failed", "shutdown-failed", "capture-failed"} =>
       /\ sample.status = "readiness-failed" => ~readiness.ready /\ requests = << >>
       /\ sample.status \in {"request-failed", "response-failed"} =>
            \E i \in failed : StatusOf(requests[i].error) = sample.status /\ \A j \in failed : i <= j
       /\ sample.status \in {"success", "isolation-failed", "shutdown-failed"} =>
            readiness.ready /\ failed = {}
       /\ sample.status # "capture-failed" => collector = "done" /\ seen <= StreamLimit

\* A server outlives its case only when an exception came before the try that ends it or in
\* the shutdown, or when SIGKILL failed, which a sample tells of.
ServerDoesNotOutlive ==
  Ended /\ Alive => cut \/ (shut.kill /\ shut.error /\ sample.status # "success")
=============================================================================

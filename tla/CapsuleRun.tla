----------------------------- MODULE CapsuleRun -----------------------------
(***************************************************************************)
(* run_capsule of capsule_runs.py and the protocol it drives,              *)
(* run_capsule_protocol of capsules.py: a leased build, a run, the lock of *)
(* the machine, then three children of one executable (describe,           *)
(* correctness, benchmark), each answering a request that quotes the       *)
(* answer before, each published as portable evidence before the next.     *)
(*                                                                         *)
(* Equal texts are equal bytes, so a digest is the text itself.  What a    *)
(* run_process may return is that of ProcessCapture, what can go wrong     *)
(* inside write_portable and the end of a run that of PortableEvidence and *)
(* RunEvidence.                                                            *)
(***************************************************************************)
EXTENDS Naturals, FiniteSets, SequencesExt

CONSTANTS Coordinates,  \* coordinates a scenario may have
          Prints,       \* what a child prints when it is no answer
          Overruns,     \* a child may exceed the limit of its output
          MaxTrouble    \* bound: calls that fail, swaps of the executable, noise on stderr

CapsuleAssumption ==
  /\ Coordinates # {} /\ IsFiniteSet(Coordinates) /\ Overruns \in BOOLEAN /\ MaxTrouble \in Nat
  /\ Prints \subseteq {"json", "text", "control", "binary", "ambient secret", "child secret"}

VARIABLES
  inputs,      \* texts of the snapshots of build and machine
  pc, n,       \* step of the run, and the operation it is at
  raised,      \* an exception is on its way out
  disturbed,   \* history: something other than a child went wrong
  leased, locked, scratch, run,
  exe,         \* executable at its path: is it the recorded one, and which file that is or was
  hashed,      \* the file whose identity the protocol keeps
  child,       \* what run_process returned, or none
  ran,         \* history: the operations whose child was another executable
  undone,      \* history: those of which the recorded one came back as the same file
  todo,        \* artifacts still to publish
  phases, answers,  \* phase results, and the responses accepted
  result,      \* protocol result, or none
  portable,    \* portable entries
  trouble

resources == <<leased, locked, scratch, run>>
protocol  == <<n, phases, answers, result>>
evidence  == <<todo, portable>>
files     == <<exe, hashed>>
strangers == <<ran, undone>>
vars == <<inputs, pc, raised, disturbed, resources, protocol, evidence, files, child, strangers, trouble>>

Operations == <<"describe", "correctness", "benchmark">>
Op == Operations[n]

-----------------------------------------------------------------------------
(* Texts *)

Text(is, op, coords, prior) == [is |-> is, op |-> op, coords |-> coords, prior |-> prior]
Plain(is) == Text(is, "", << >>, << >>)
Empty == Plain("")

Json(t) == t.is \in {"json", "response", "request", "process", "build", "machine", "result"}

\* Mutant of Secrets: the secrets of the environment of the child are not joined in.
SecretsAmbient == {"ambient secret"}

\* _combined_redaction: the secrets of the session and those of the environment of the child
Secrets == {"ambient secret", "child secret"}

\* _safe; a text that is not UTF-8 is safe when no secret is in it.
Safe(t) == t.is \notin Secrets

\* write_portable knows the secrets of the session only; it refuses what is not printable
\* and a second media type for the same bytes.
Refused(e) ==
  \/ e.text.is \in {"ambient secret", "control", "binary"}
  \/ \E p \in portable : p.path = e.path \/ (p.text = e.text /\ p.media # e.media)

Entry(dir, name, text) ==
  [path |-> <<dir, name>>, text |-> text,
   media |-> IF Json(text) THEN "application/json" ELSE "text/plain"]

Published(dir, name) == {p.text : p \in {q \in portable : q.path = <<dir, name>>}}

-----------------------------------------------------------------------------
(* Requests, responses and processes *)

Observed(c, passed) == [c |-> c, passed |-> passed]
Names(coords) == [i \in DOMAIN coords |-> coords[i].c]

Lists(k) == [1 .. k -> Coordinates]
Orders == {s \in UNION {Lists(k) : k \in 1 .. Cardinality(Coordinates)} : IsInjective(s)}

Scenario == answers[1].coords

\* Mutant of Request: each later request quotes the answer to describe.
RequestToDescribe ==
  IF n = 1 THEN Text("request", Op, << >>, << >>) ELSE Text("request", Op, Scenario, <<answers[1]>>)

\* _request: later requests carry the scenario and quote the answer before.
Request ==
  IF n = 1 THEN Text("request", Op, << >>, << >>) ELSE Text("request", Op, Scenario, <<answers[n - 1]>>)

\* Valid answers: describe has every coordinate once, the others may be of any coordinates.
Answers ==
  {Text("response", Op, cs, << >>) : cs \in
     IF n = 1 THEN {[i \in DOMAIN s |-> Observed(s[i], TRUE)] : s \in Orders}
       ELSE UNION {[1 .. k -> {Observed(c, p) : c \in Coordinates, p \in (IF n = 2 THEN BOOLEAN ELSE {TRUE})}] :
                     k \in 1 .. Cardinality(Coordinates)}}

Whole(text) == [text |-> text, complete |-> TRUE]
Missing == [text |-> Empty, complete |-> FALSE]

Outs == {Whole(t) : t \in {Empty} \cup {Plain(p) : p \in Prints} \cup Answers}

\* What a child may write to stderr: a print, or bytes that it read or wrote before.
Noise(out) == {Whole(t) : t \in {Plain(p) : p \in Prints} \cup {Request, out.text} \cup ToSet(answers)} \ {Whole(Empty)}

Result(outcome, code, out, err, spoolError) ==
  [outcome |-> outcome, code |-> code, out |-> out, err |-> err, spoolError |-> spoolError]

\* Results of run_process, each with what it costs of the bound.
Quiet == {[r |-> Result("exited", "0", out, Whole(Empty), FALSE), cost |-> 0] : out \in Outs}
Noisy == UNION {{[r |-> Result("exited", "0", out, err, FALSE), cost |-> 1] : err \in Noise(out)} : out \in Outs}
Broken ==
  {[r |-> Result(o, "1", out, Whole(Empty), FALSE), cost |-> 1] : o \in {"exited", "timed_out"}, out \in Outs}
  \cup {[r |-> Result("spawn_failed", "none", Whole(Empty), Whole(Empty), FALSE), cost |-> 1],
        [r |-> Result("exited", "0", Missing, Whole(Empty), TRUE), cost |-> 1]}
Overrun ==
  {[r |-> Result(o, "1", pair[1], pair[2], FALSE), cost |-> 1] :
     o \in {"capture_failed", "timed_out"}, pair \in {<<Missing, Whole(Empty)>>, <<Whole(Empty), Missing>>}}
Returned == Quiet \cup Noisy \cup Broken \cup IF Overruns THEN Overrun ELSE {}

\* _process_category
Category(r) ==
  IF r.outcome = "capture_failed" THEN "capture-failed"
  ELSE IF r.outcome = "spawn_failed" THEN "spawn-failed"
  ELSE IF r.outcome = "timed_out" THEN "timed-out"
  ELSE IF r.code # "0" THEN "nonzero-exit"
  ELSE IF ~r.out.complete \/ ~r.err.complete THEN "incomplete-capture"
  ELSE "none"

\* The phase result of _execute_phase: what went wrong with the process comes before what it
\* printed, and a secret before the answer.
Failure(r) ==
  IF Category(r) # "none" THEN "process"
  ELSE IF ~Safe(r.out.text) \/ ~Safe(r.err.text) THEN "unsafe"
  ELSE IF r.out.text.is # "response" THEN "response"
  ELSE "none"

Phase(r) ==
  [op |-> Op, request |-> Request, outcome |-> r.outcome, code |-> r.code, category |-> Category(r),
   complete |-> r.out.complete /\ r.err.complete, failure |-> Failure(r),
   answer |-> IF Failure(r) = "none" THEN <<r.out.text>> ELSE << >>]

\* The artifacts of a phase, in the order they are published: stderr only when it is text
\* and not the bytes of a JSON artifact of this phase.
StdoutArtifact(r) ==
  IF ~Safe(r.out.text) THEN Entry(Op, "stdout-unavailable.txt", Plain("withheld"))
  ELSE IF ~r.out.complete \/ r.out.text.is = "binary" THEN Entry(Op, "stdout-unavailable.txt", Plain("unavailable"))
  ELSE IF Json(r.out.text) THEN Entry(Op, "stdout.json", r.out.text)
  ELSE Entry(Op, "stdout.txt", r.out.text)

JsonArtifacts(r) ==
  <<Entry(Op, "request.json", Request), Entry(Op, "process.json", Text("process", Op, << >>, << >>)), StdoutArtifact(r)>>

KeepsStderr(r) ==
  /\ r.err.complete /\ r.err.text # Empty /\ Safe(r.err.text) /\ r.err.text.is # "binary"
  /\ \A e \in ToSet(JsonArtifacts(r)) : e.text = r.err.text => e.media = "text/plain"

Artifacts(r) ==
  JsonArtifacts(r) \o
  IF KeepsStderr(r) THEN <<[path |-> <<Op, "stderr.txt">>, text |-> r.err.text, media |-> "text/plain"]>> ELSE << >>

-----------------------------------------------------------------------------
(* The protocol result *)

Passed == <<"protocol", "passed">>

\* Mutant of Reason: that a coordinate failed comes before that one is not covered.
ReasonFailedFirst ==
  IF Last(phases).failure # "none" THEN <<Op, Last(phases).failure>>
  ELSE IF n = 2 /\ \E o \in ToSet(answers[2].coords) : ~o.passed THEN <<Op, "failed">>
  ELSE IF n > 1 /\ Names(Last(answers).coords) # Names(Scenario) THEN <<Op, "incomplete">>
  ELSE Passed

\* The first thing that went wrong: the phase, then the coverage, then the coordinates.
Reason ==
  IF Last(phases).failure # "none" THEN <<Op, Last(phases).failure>>
  ELSE IF n > 1 /\ Names(Last(answers).coords) # Names(Scenario) THEN <<Op, "incomplete">>
  ELSE IF n = 2 /\ \E o \in ToSet(answers[2].coords) : ~o.passed THEN <<Op, "failed">>
  ELSE Passed

NoResult == [status |-> "none"]

\* _terminal: scenario, correctness and benchmark are those of the answers accepted.
Terminal ==
  [status |-> IF Reason = Passed THEN "passed" ELSE "failed", reason |-> Reason, phases |-> phases,
   payload |-> [i \in DOMAIN answers |-> answers[i].coords]]

\* CapsuleProcessV1._exact_category
ExactCategory(p) ==
  /\ (p.outcome = "spawn_failed") = (p.code = "none")
  /\ p.category = IF p.outcome = "exited" /\ p.code # "0" THEN "nonzero-exit"
                  ELSE IF p.outcome = "exited" /\ ~p.complete THEN "incomplete-capture"
                  ELSE IF p.outcome = "exited" THEN "none"
                  ELSE IF p.outcome = "spawn_failed" THEN "spawn-failed"
                  ELSE IF p.outcome = "timed_out" THEN "timed-out"
                  ELSE "capture-failed"

\* CapsulePhaseResultV1._accepted_digest
AcceptedDigest(p) ==
  /\ (p.failure = "none") = (p.answer # << >>)
  /\ (p.failure = "process") = (p.category # "none")

\* CapsuleProtocolResultV1._consistent
Consistent(r) ==
  LET last == Last(r.phases)
      Covered(i) == Len(r.payload) >= i /\ Names(r.payload[i]) = Names(r.payload[1])
      Correct == Covered(2) /\ \A o \in ToSet(r.payload[2]) : o.passed
  IN /\ Len(r.phases) \in 1 .. 3
     /\ \A i \in DOMAIN r.phases : /\ r.phases[i].op = Operations[i]
                                   /\ ExactCategory(r.phases[i]) /\ AcceptedDigest(r.phases[i])
     /\ \A p \in ToSet(Front(r.phases)) : p.failure = "none"
     /\ (r.status = "passed") = (r.reason = Passed)
     /\ IF last.failure # "none"
          THEN /\ r.reason = <<last.op, last.failure>> /\ Len(r.payload) = Len(r.phases) - 1
               /\ last.op = "benchmark" => Correct
          ELSE CASE r.reason = <<"correctness", "incomplete">> -> Len(r.phases) = 2 /\ Len(r.payload) = 2 /\ ~Covered(2)
                 [] r.reason = <<"correctness", "failed">> -> Len(r.phases) = 2 /\ Len(r.payload) = 2 /\ Covered(2) /\ ~Correct
                 [] r.reason = <<"benchmark", "incomplete">> -> Len(r.phases) = 3 /\ Len(r.payload) = 3 /\ Correct /\ ~Covered(3)
                 [] r.reason = Passed -> Len(r.phases) = 3 /\ Correct /\ Covered(3)
                 [] OTHER -> FALSE

ResultText(r) == Text("result", r.reason[2], << >>, answers)
EnclosingText(reason) == Text("enclosing", reason, << >>, answers)

-----------------------------------------------------------------------------
(* Steps *)

None == [outcome |-> "none"]

Init ==
  /\ inputs \in {Plain("build"), Plain("child secret")} \X {Plain("machine"), Plain("ambient secret")}
  /\ pc = "lease" /\ n = 1 /\ raised = FALSE /\ disturbed = FALSE
  /\ leased = FALSE /\ locked = FALSE /\ scratch = FALSE /\ run = "none"
  /\ exe = [good |-> TRUE, file |-> 0] /\ hashed = 0 /\ child = None /\ ran = {} /\ undone = {}
  /\ todo = << >> /\ phases = << >> /\ answers = << >> /\ result = NoResult /\ portable = {} /\ trouble = 0

At(p) == pc = p
Goto(p) == pc' = p
Kept == UNCHANGED <<raised, disturbed, trouble>>

\* Mutant of Unwound: the exception leaves the machine locked.
UnwoundLocked == IF scratch THEN "unscratch" ELSE IF run = "active" THEN "finish" ELSE IF leased THEN "release" ELSE "done"

\* Where an exception goes on: the context managers and finally blocks it is inside of.
Unwound ==
  IF scratch THEN "unscratch" ELSE IF locked THEN "unlock" ELSE IF run = "active" THEN "finish"
    ELSE IF leased THEN "release" ELSE "done"

Raise == raised' = TRUE /\ Goto(Unwound)
Refuse == Raise /\ UNCHANGED <<disturbed, trouble>>

\* A call that fails for a reason outside the run: OSError, RunError, BuildCacheError.
Fails ==
  /\ pc \in {"lease", "bind", "begin", "lock", "scratch", "preflight", "check", "start",
            "terminal", "authenticate", "verify", "publish"}
       \/ (At("write") /\ todo # << >>)
  /\ trouble < MaxTrouble /\ trouble' = trouble + 1 /\ disturbed' = TRUE /\ Raise
  /\ UNCHANGED <<inputs, resources, protocol, evidence, files, child, strangers>>

\* lease_build
Lease ==
  /\ At("lease") /\ leased' = TRUE /\ Goto("bind") /\ Kept
  /\ UNCHANGED <<inputs, locked, scratch, run, protocol, evidence, files, child, strangers>>

\* _bind_build against the requirement of the manifest, then lease.verify
Bind ==
  /\ At("bind")
  /\ \/ exe.good /\ Goto("begin") /\ Kept
     \/ Refuse
  /\ UNCHANGED <<inputs, resources, protocol, evidence, files, child, strangers>>

\* begin_run
Begin ==
  /\ At("begin") /\ run' = "active" /\ Goto("inputs") /\ Kept
  /\ UNCHANGED <<inputs, leased, locked, scratch, protocol, evidence, files, child, strangers>>

InputEntries == <<Entry("capsule", "build.json", inputs[1]), Entry("capsule", "machine.json", inputs[2])>>

\* Mutant of Preflight: each snapshot is looked at when its turn comes.
PreflightFirst == Safe(inputs[1])

\* _publish_inputs looks at both snapshots before it writes the first.
Preflight == \A t \in ToSet(inputs) : Safe(t)

\* _publish_inputs
Inputs ==
  /\ At("inputs")
  /\ \/ Preflight /\ todo' = InputEntries /\ Goto("write") /\ Kept
     \/ ~Preflight /\ Refuse /\ UNCHANGED todo
  /\ UNCHANGED <<inputs, resources, protocol, portable, files, child, strangers>>

\* write_portable of the next artifact; it may fail with the entry in place.
Write ==
  /\ At("write") /\ todo # << >>
  /\ LET e == Head(todo) IN
     \/ ~Refused(e) /\ portable' = portable \cup {e} /\ todo' = Tail(todo) /\ UNCHANGED pc /\ Kept
     \/ Refused(e) /\ Refuse /\ UNCHANGED evidence
     \/ /\ ~Refused(e) /\ trouble < MaxTrouble /\ trouble' = trouble + 1 /\ disturbed' = TRUE
        /\ portable' = portable \cup {e} /\ Raise /\ UNCHANGED todo
  /\ UNCHANGED <<inputs, resources, protocol, files, child, strangers>>

\* Mutant of Written: a phase is concluded while artifacts of it are still to be published.
WrittenEarly ==
  /\ At("write") /\ Goto(IF locked THEN "conclude" ELSE "lock") /\ Kept
  /\ UNCHANGED <<inputs, resources, protocol, evidence, files, child, strangers>>

\* All artifacts are published.
Written ==
  /\ At("write") /\ todo = << >> /\ Goto(IF locked THEN "conclude" ELSE "lock") /\ Kept
  /\ UNCHANGED <<inputs, resources, protocol, evidence, files, child, strangers>>

\* Mutant of AfterRefusal: the protocol goes on without the lock.
UnlockedRun == "scratch"

\* A lock that was refused: nothing is run, and the lease is verified again.
AfterRefusal == "verify"

\* exclusive_lock of the machine; whoever has it may be another process.
Lock ==
  /\ At("lock") /\ Kept
  /\ \/ locked' = TRUE /\ Goto("scratch")
     \/ UNCHANGED locked /\ Goto(AfterRefusal)
  /\ UNCHANGED <<inputs, leased, scratch, run, protocol, evidence, files, child, strangers>>

\* The temporary root, and reconstruct_environment, which may refuse the recorded build.
Scratch ==
  /\ At("scratch") /\ scratch' = TRUE
  /\ \/ Goto("preflight") /\ Kept
     \/ raised' = TRUE /\ Goto("unscratch") /\ UNCHANGED <<disturbed, trouble>>
  /\ UNCHANGED <<inputs, leased, locked, run, protocol, evidence, files, child, strangers>>

\* _preflight_evidence, and _hash_initial_executable
Hash ==
  /\ At("preflight")
  /\ \/ /\ exe.good /\ \A e \in portable : e.path[1] = "capsule"
        /\ hashed' = exe.file /\ Goto("check") /\ Kept
     \/ ~exe.good /\ Refuse /\ UNCHANGED hashed
  /\ UNCHANGED <<inputs, resources, protocol, evidence, exe, child, strangers>>

\* Mutant of Stable: the executable is known by its content.
StableContent == exe.good

\* require_stable_executable: the same file, with the same content
Stable == exe.good /\ exe.file = hashed

\* Before a child: the executable, and a request without a secret
Check ==
  /\ At("check")
  /\ \/ Stable /\ Safe(Request) /\ Goto("start") /\ Kept
     \/ ~(Stable /\ Safe(Request)) /\ Refuse
  /\ UNCHANGED <<inputs, resources, protocol, evidence, files, child, strangers>>

\* run_process, of whatever is at the path now
Start ==
  /\ At("start")
  /\ \E c \in Returned :
       /\ trouble + c.cost <= MaxTrouble /\ trouble' = trouble + c.cost /\ child' = c.r
       /\ disturbed' = (disturbed \/ c.r.spoolError)
  /\ ran' = IF exe.good THEN ran ELSE ran \cup {Op}
  /\ Goto("collect") /\ UNCHANGED <<inputs, raised, resources, protocol, evidence, files, undone>>

\* After the child: executable and streams, then the phase result and its artifacts
Collected ==
  /\ Stable /\ ~child.spoolError
  /\ child.outcome = "capture_failed" \/ (child.out.complete /\ child.err.complete)

\* _execute_phase after its child
Collect ==
  /\ At("collect")
  /\ \/ /\ Collected /\ \A e \in ToSet(Artifacts(child)) : Safe(e.text)
        /\ todo' = Artifacts(child) /\ phases' = Append(phases, Phase(child))
        /\ Goto("write") /\ Kept
     \/ ~Collected /\ Refuse /\ UNCHANGED <<todo, phases>>
  /\ UNCHANGED <<inputs, resources, n, answers, result, portable, files, child, strangers>>

\* The answer is accepted; a phase that went well leads to the next one.
Accept ==
  /\ At("conclude") /\ Len(answers) < n /\ Last(phases).answer # << >>
  /\ answers' = answers \o Last(phases).answer /\ UNCHANGED pc /\ Kept
  /\ UNCHANGED <<inputs, resources, n, phases, result, evidence, files, child, strangers>>

\* Mutant of Following: the operation is not advanced.
FollowingSame == n

\* The operation after this one
Following == n + 1

\* All that is to be known of this phase is known.
Judged == Len(answers) = n \/ Last(phases).failure # "none"

Conclude ==
  /\ At("conclude") /\ Judged /\ child' = None /\ Kept
  /\ IF Reason = Passed /\ n < 3 THEN n' = Following /\ Goto("check") /\ UNCHANGED result
       ELSE result' = Terminal /\ Goto("terminal") /\ UNCHANGED n
  /\ UNCHANGED <<inputs, resources, phases, answers, evidence, files, strangers>>

\* _publish_result of the protocol
PublishProtocol ==
  /\ At("terminal")
  /\ \/ /\ Stable /\ portable' = portable \cup {Entry("protocol", "result.json", ResultText(result))}
        /\ Goto("authenticate") /\ Kept
     \/ ~Stable /\ Refuse /\ UNCHANGED portable
  /\ UNCHANGED <<inputs, resources, protocol, todo, files, child, strangers>>

\* _authenticate_protocol_result: the entry is that of the result returned.
Authenticate ==
  /\ At("authenticate") /\ Published("protocol", "result.json") = {ResultText(result)}
  /\ Goto("unscratch") /\ Kept
  /\ UNCHANGED <<inputs, resources, protocol, evidence, files, child, strangers>>

\* The finally block; when rmtree fails the exception is this one.
Unscratch ==
  /\ At("unscratch")
  /\ \/ scratch' = FALSE /\ Goto(IF raised THEN "unlock" ELSE "verify") /\ Kept
     \/ /\ trouble < MaxTrouble /\ trouble' = trouble + 1 /\ disturbed' = TRUE /\ raised' = TRUE
        /\ Goto("unlock") /\ UNCHANGED scratch
  /\ UNCHANGED <<inputs, leased, locked, run, protocol, evidence, files, child, strangers>>

\* lease.verify reads the content of the build again.
Verify ==
  /\ At("verify")
  /\ \/ exe.good /\ Goto("publish") /\ Kept
     \/ ~exe.good /\ Refuse
  /\ UNCHANGED <<inputs, resources, protocol, evidence, files, child, strangers>>

\* _result: without a protocol result the lock was refused.
EnclosingReason == IF result = NoResult THEN "lock-unavailable" ELSE result.reason[2]

\* _publish_result of the run
PublishResult ==
  /\ At("publish") /\ portable' = portable \cup {Entry("capsule", "result.json", EnclosingText(EnclosingReason))}
  /\ Goto("unlock") /\ Kept
  /\ UNCHANGED <<inputs, resources, protocol, todo, files, child, strangers>>

Unlock ==
  /\ At("unlock") /\ locked' = FALSE /\ Goto("finish") /\ Kept
  /\ UNCHANGED <<inputs, leased, scratch, run, protocol, evidence, files, child, strangers>>

\* succeed, fail, or the exit of the session with an exception
Finish ==
  /\ At("finish") /\ Goto("release") /\ Kept
  /\ run' = IF raised \/ EnclosingReason # "passed" THEN "failure" ELSE "success"
  /\ UNCHANGED <<inputs, leased, locked, scratch, protocol, evidence, files, child, strangers>>

Release ==
  /\ At("release") /\ leased' = FALSE /\ Goto("done") /\ Kept
  /\ UNCHANGED <<inputs, locked, scratch, run, protocol, evidence, files, child, strangers>>

Step ==
  \/ Lease \/ Bind \/ Begin \/ Inputs \/ Write \/ Written \/ Lock \/ Scratch \/ Hash \/ Check \/ Start
  \/ Collect \/ Accept \/ Conclude \/ PublishProtocol \/ Authenticate \/ Unscratch \/ Verify
  \/ PublishResult \/ Unlock \/ Finish \/ Release

\* Whoever else may write to the cache puts another file at the path, or the recorded one
\* again: a copy is a new file, but one whose directory was moved away and back is the same,
\* down to its times of change.
Swap ==
  /\ ~At("done") /\ disturbed' = TRUE
  /\ \/ /\ exe.good /\ trouble < MaxTrouble /\ trouble' = trouble + 1
        /\ exe' = [exe EXCEPT !.good = FALSE] /\ UNCHANGED undone
     \/ /\ ~exe.good /\ UNCHANGED trouble
        /\ \/ exe' = [good |-> TRUE, file |-> exe.file + 1] /\ UNCHANGED undone
           \/ /\ exe' = [exe EXCEPT !.good = TRUE]
              /\ undone' = IF At("collect") /\ Op \in ran THEN undone \cup {Op} ELSE undone
  /\ UNCHANGED <<inputs, pc, raised, resources, protocol, evidence, hashed, child, ran>>

Next == Step \/ Fails \/ Swap

Spec == Init /\ [][Next]_vars

-----------------------------------------------------------------------------
(* Correctness *)

\* Every variable has a value of its kind, the coordinates included.
TypeOK ==
  /\ pc \in {"lease", "bind", "begin", "inputs", "write", "lock", "scratch", "preflight", "check", "start",
             "collect", "conclude", "terminal", "authenticate", "unscratch", "verify", "publish", "unlock",
             "finish", "release", "done"}
  /\ n \in 1 .. 3 /\ {raised, disturbed, leased, locked, scratch} \subseteq BOOLEAN
  /\ run \in {"none", "active", "success", "failure"} /\ exe.good \in BOOLEAN
  /\ exe.file \in 0 .. MaxTrouble /\ hashed <= exe.file
  /\ ran \cup undone \subseteq ToSet(Operations) /\ trouble <= MaxTrouble
  /\ Len(answers) <= Len(phases) /\ Len(phases) \in {n - 1, n}
  /\ \A e \in portable : e.media \in {"application/json", "text/plain"}

Answer(i) == Published(Operations[i], "stdout.json")

\* A run that succeeded has in its evidence what earned it: three children of the recorded
\* executable, but for a swap undone without a trace (see below), an answer to correctness in
\* which every coordinate of describe passed, an answer to benchmark of the same coordinates,
\* each to a request that quotes the one before.
SuccessIsEarned ==
  run = "success" =>
    /\ ran \subseteq undone
    /\ \E d \in Answer(1), c \in Answer(2), b \in Answer(3) :
         /\ Names(c.coords) = Names(d.coords) /\ Names(b.coords) = Names(d.coords)
         /\ \A o \in ToSet(c.coords) : o.passed
         /\ Published("correctness", "request.json") = {Text("request", "correctness", d.coords, <<d>>)}
         /\ Published("benchmark", "request.json") = {Text("request", "benchmark", d.coords, <<c>>)}
    /\ {t.op : t \in Published("protocol", "result.json") \cup Published("capsule", "result.json")} = {"passed"}

\* What the evidence says of a child it says of the recorded executable, even when the file
\* was swapped before the child and a copy put back while it ran.  Not so when the very file
\* came back before the check after the child: "Repeated path-identity checks narrow but do
\* not eliminate the small check-to-exec race" (executable_identity.py:8-10).
EvidenceIsOfTheExecutable ==
  \A op \in ran \ undone : Published(op, "process.json") = {} /\ Published("protocol", "result.json") = {}

\* A protocol result that was published is of the evidence beside it: the artifacts of its
\* phases are all there, and no artifact of a later phase.
ResultIsOfTheEvidence ==
  \A t \in Published("protocol", "result.json") :
    /\ t = ResultText(result)
    /\ \A i \in 1 .. 3 :
         LET op == Operations[i] IN
         IF i > Len(result.phases) THEN \A e \in portable : e.path[1] # op
           ELSE /\ Published(op, "request.json") = {result.phases[i].request}
                /\ Published(op, "process.json") # {}
                /\ ToSet(result.phases[i].answer) \subseteq Answer(i)
                /\ Cardinality({e \in portable : e.path[1] = op /\ e.path[2] \notin {"request.json", "process.json", "stderr.txt"}}) = 1

\* The models of the result never refuse what the protocol puts into them: the validator of
\* CapsuleProtocolResultV1 agrees with the order in which the protocol judges.
ResultIsConsistent == result # NoResult => Consistent(result)

\* No secret of the session or of the environment of the child is in the portable evidence,
\* and of the two input snapshots none is published when either has one.
NothingUnsafeIsPublished ==
  /\ \A e \in portable : e.text.is \notin {"ambient secret", "child secret"}
  /\ (\E t \in ToSet(inputs) : t.is \in {"ambient secret", "child secret"}) => portable = {}

\* A child runs only inside the lease, the run and the machine lock, and when both input
\* snapshots are published; what it says is published inside them too.
ChildIsGuarded ==
  child' # child \/ portable' # portable =>
    /\ leased /\ run = "active"
    /\ child' # None => locked /\ \A e \in ToSet(InputEntries) : e \in portable

\* The lock is given back before the run is finished and the lease after, whatever happened;
\* a run that is over holds nothing, except scratch files that could not be removed.
ReleaseIsOrdered ==
  /\ run = "active" /\ run' # "active" => ~locked /\ leased
  /\ leased /\ ~leased' => run # "active" /\ ~locked
  /\ pc' = "done" => ~leased' /\ ~locked' /\ run' # "active" /\ (scratch' => disturbed')
=============================================================================

--------------------------- MODULE ProcessCapture ---------------------------
(***************************************************************************)
(* run_process of process.py: one command run in a session of its own,     *)
(* with two threads that drain its output, a poll loop that watches for a  *)
(* capture error and the deadline, and spools that are published whole or  *)
(* not at all.                                                             *)
(*                                                                         *)
(* The command keeps its pipes open to its end, and may leave a helper     *)
(* behind that keeps them open longer, in the process group or out of it.  *)
(* A byte is counted and has no value: bytes are read in the order they    *)
(* were written, so equal counts are equal bytes and equal digests.  An    *)
(* exception in the poll loop is waited out by the finally; one outside    *)
(* it, or in the finally itself, cuts the call short wherever it is.       *)
(***************************************************************************)
EXTENDS Naturals, FiniteSets

CONSTANTS Limits,     \* the limits on all output that a caller asks for
          Keeps,      \* and on what is kept of it in memory
          MaxBytes,   \* bound: bytes written to a stream
          PipeBytes,  \* what a pipe holds
          MaxTrouble  \* bound: system calls that fail, and exceptions

BoundsAssumption ==
  /\ MaxBytes \in Nat /\ PipeBytes \in Nat \ {0} /\ MaxTrouble \in Nat
  /\ Limits \cup Keeps \subseteq Nat

Streams == {"out", "err"}

VARIABLES
  ask,      \* what the caller asks for
  pc,       \* the step of the caller's thread, and the stream it is about
  child,    \* none, running, exited, or killed by a signal
  helper,   \* what the child left behind: life, in the group or not, pipes
  termed,   \* the group was sent SIGTERM
  late,     \* the deadline has passed
  written,  \* bytes written to a stream
  pipe,     \* bytes written and not read yet
  drain,    \* the thread of a stream: idle, reading or done
  capture,  \* _Capture
  spool,    \* _Spool, with where its file is
  outcome,  \* ProcessOutcome
  raised,   \* an exception is on its way out
  cut,      \* it came where nothing cleans up after it (history)
  trouble

vars == <<ask, pc, child, helper, termed, late, written, pipe, drain, capture, spool,
          outcome, raised, cut, trouble>>

main     == <<pc, outcome, raised, cut>>
world    == <<child, helper, termed, late>>
captured == <<written, pipe, drain, capture>>

Goto(l, s) == pc' = <<l, s>>
At(l, s) == pc = <<l, s>>

\* So many calls fail; one that goes as ok says is one or none.
Costs(n) == trouble + n <= MaxTrouble /\ trouble' = trouble + n
Cost(ok) == IF ok THEN 0 ELSE 1
OneMore == Costs(1)

NoSpool == [file |-> "none", bytes |-> 0, error |-> "none"]

Init ==
  /\ ask \in [timeout : BOOLEAN, total : Limits, keep : Keeps, spools : SUBSET Streams]
  /\ pc = <<"open", "out">> /\ outcome = "none" /\ raised = FALSE /\ cut = FALSE
  /\ child = "none" /\ termed = FALSE /\ late = FALSE
  /\ helper = [life |-> "none", grouped |-> FALSE, pipes |-> {}]
  /\ written = [s \in Streams |-> 0] /\ pipe = [s \in Streams |-> 0]
  /\ drain = [s \in Streams |-> "idle"]
  /\ capture = [s \in Streams |-> [count |-> 0, kept |-> 0, truncated |-> FALSE, error |-> "none"]]
  /\ spool = [s \in Streams |-> NoSpool] /\ trouble = 0

-----------------------------------------------------------------------------
(* The child and what it leaves behind *)

\* Those who can write to a stream.
Writers(s) == {w \in {"child", "helper"} :
                 IF w = "child" THEN child = "running" ELSE helper.life = "running" /\ s \in helper.pipes}

\* A byte is written: the pipe has room and its other end is open.
Write(s) ==
  /\ Writers(s) # {} /\ written[s] < MaxBytes /\ pipe[s] < PipeBytes
  /\ pc[1] \in {"poll", "errors", "deadline", "term", "kill", "join"} \/ drain[s] = "reading"
  /\ written' = [written EXCEPT ![s] = @ + 1] /\ pipe' = [pipe EXCEPT ![s] = @ + 1]
  /\ UNCHANGED <<ask, main, world, drain, capture, spool, trouble>>

Fork ==
  /\ child = "running" /\ helper.life = "none"
  /\ \E g \in BOOLEAN, ps \in SUBSET Streams :
       helper' = [life |-> "running", grouped |-> g, pipes |-> ps]
  /\ UNCHANGED <<ask, main, child, termed, late, captured, spool, trouble>>

\* The child exits of itself, or of the SIGTERM it did not ignore.
ChildEnds ==
  /\ child = "running"
  /\ child' \in {"exited"} \cup (IF termed THEN {"killed"} ELSE {})
  /\ UNCHANGED <<ask, main, helper, termed, late, captured, spool, trouble>>

HelperEnds ==
  /\ helper.life = "running" /\ helper' = [helper EXCEPT !.life = "gone"]
  /\ UNCHANGED <<ask, main, child, termed, late, captured, spool, trouble>>

Deadline ==
  /\ ask.timeout /\ child # "none" /\ ~late /\ late' = TRUE
  /\ UNCHANGED <<ask, main, child, helper, termed, captured, spool, trouble>>

-----------------------------------------------------------------------------
(* Spools *)

\* How the unlink of a spool's temporary may go.
Unlinks(sp) == IF sp.file = "temporary" THEN BOOLEAN ELSE {TRUE}

\* _discard_spool_temporary, _abort_spool: a failing unlink is suppressed and the file stays.
Discarded(sp, ok) ==
  IF sp.file # "temporary" THEN sp ELSE [sp EXCEPT !.file = IF ok THEN "gone" ELSE "left"]

Failed(sp, e, ok) == [Discarded(sp, ok) EXCEPT !.error = IF @ = "none" THEN e ELSE @]

\* _open_spool: a temporary file, or an error that the poll loop will see
Open(s) ==
  /\ At("open", s)
  /\ \/ s \notin ask.spools /\ UNCHANGED <<spool, trouble>>
     \/ s \in ask.spools /\ UNCHANGED trouble
        /\ spool' = [spool EXCEPT ![s].file = "temporary"]
     \/ s \in ask.spools /\ OneMore
        /\ spool' = [spool EXCEPT ![s].error = "spool-open-failed"]
  /\ IF s = "out" THEN Goto("open", "err") ELSE Goto("spawn", "out")
  /\ UNCHANGED <<ask, outcome, raised, cut, world, captured>>

\* Mutant of AfterRefusal: the spool opened first is forgotten.
AfterRefusalForgotten(ok) == spool

\* _abort_spool of the first, when the second is refused
AfterRefusal(ok) == [spool EXCEPT !["out"] = Discarded(@, ok)]

\* The path is taken or its directory is unsafe; or an exception comes when its temporary
\* is there and nobody knows of it yet.
OpenRefused(s) ==
  /\ At("open", s) /\ s \in ask.spools /\ raised' = TRUE /\ Goto("end", "out")
  /\ \E ok \in Unlinks(spool["out"]) :
       /\ Costs(1 + Cost(ok))
       /\ \/ spool' = AfterRefusal(ok) /\ UNCHANGED cut
          \/ spool' = [AfterRefusal(ok) EXCEPT ![s].file = "temporary"] /\ cut' = TRUE
  /\ UNCHANGED <<ask, outcome, world, captured>>

\* _publish_spool: a spool with an error is discarded; else it is flushed and synced.
Flush(s) ==
  /\ At("flush", s)
  /\ \/ /\ spool[s].error # "none" \/ spool[s].file # "temporary"
        /\ \E ok \in Unlinks(spool[s]) :
             Costs(Cost(ok)) /\ spool' = [spool EXCEPT ![s] = Discarded(@, ok)]
        /\ IF s = "out" THEN Goto("flush", "err") ELSE Goto("end", "out")
     \/ /\ spool[s].error = "none" /\ spool[s].file = "temporary"
        /\ \E ok \in BOOLEAN :
             Costs(1 + Cost(ok)) /\ spool' = [spool EXCEPT ![s] = Failed(@, "spool-fsync-failed", ok)]
        /\ IF s = "out" THEN Goto("flush", "err") ELSE Goto("end", "out")
     \/ /\ spool[s].error = "none" /\ spool[s].file = "temporary"
        /\ UNCHANGED <<spool, trouble>> /\ Goto("link", s)
  /\ UNCHANGED <<ask, outcome, raised, cut, world, captured>>

\* The file has both its names.
Link(s) ==
  /\ At("link", s)
  /\ \/ /\ spool' = [spool EXCEPT ![s].file = "linked"] /\ UNCHANGED trouble /\ Goto("settle", s)
     \/ /\ \E ok \in BOOLEAN :
             Costs(1 + Cost(ok)) /\ spool' = [spool EXCEPT ![s] = Failed(@, "spool-publish-failed", ok)]
        /\ IF s = "out" THEN Goto("flush", "err") ELSE Goto("end", "out")
  /\ UNCHANGED <<ask, outcome, raised, cut, world, captured>>

\* A step after the link has failed: the final name goes, and what there is of the temporary
\* one, each unless its unlink fails, which is suppressed.
Unsettled(sp, final, temp) ==
  [sp EXCEPT !.error = "spool-publish-failed",
             !.file = IF final THEN (IF temp THEN "gone" ELSE "left") ELSE IF temp THEN "named" ELSE "both"]

\* The temporary name is removed and the directory synced.
Settle(s) ==
  /\ At("settle", s)
  /\ \/ spool' = [spool EXCEPT ![s].file = "published"] /\ UNCHANGED trouble
     \/ \E final \in BOOLEAN, temp \in BOOLEAN :
          Costs(1 + Cost(final) + Cost(temp)) /\ spool' = [spool EXCEPT ![s] = Unsettled(@, final, temp)]
  /\ IF s = "out" THEN Goto("flush", "err") ELSE Goto("end", "out")
  /\ UNCHANGED <<ask, outcome, raised, cut, world, captured>>

-----------------------------------------------------------------------------
(* The drain threads *)

Least(a, b) == IF a < b THEN a ELSE b

\* Mutant of Kept: what was kept before the chunk is not counted.
KeptTooMuch(c, n) == [c EXCEPT !.count = @ + n, !.kept = @ + Least(n, ask.keep),
                               !.truncated = @ \/ n > ask.keep]

\* A chunk of n bytes is counted and hashed, its first bytes kept while there is room.
Kept(c, n) ==
  LET room == IF ask.keep > c.kept THEN ask.keep - c.kept ELSE 0 IN
    [c EXCEPT !.count = @ + n, !.kept = @ + Least(n, room), !.truncated = @ \/ n > room]

\* Mutant of Spooled: a write that failed leaves the spool without an error.
SpooledSilently(sp, n, ok) ==
  IF sp.file # "temporary" \/ sp.error # "none" THEN sp
    ELSE IF ok THEN [sp EXCEPT !.bytes = @ + n] ELSE sp

\* The chunk goes to the spool, unless a chunk before it failed to.
Spooled(sp, n, ok) ==
  IF sp.file # "temporary" \/ sp.error # "none" THEN sp
    ELSE IF ok THEN [sp EXCEPT !.bytes = @ + n] ELSE [sp EXCEPT !.error = "spool-write-failed"]

\* _drain: the chunk that crosses the total limit is the last one read.
Read(s) ==
  /\ drain[s] = "reading" /\ pipe[s] > 0
  /\ \E n \in 1 .. pipe[s], ok \in BOOLEAN :
       LET c == Kept(capture[s], n)
           sp == Spooled(spool[s], n, ok)
       IN /\ pipe' = [pipe EXCEPT ![s] = @ - n]
          /\ IF c.count > ask.total
               THEN /\ capture' = [capture EXCEPT ![s] = [c EXCEPT !.error = "hard-limit-exceeded"]]
                    /\ \E gone \in Unlinks(sp) :
                         /\ Costs(Cost(ok) + Cost(gone))
                         /\ spool' = [spool EXCEPT ![s] = Discarded(sp, gone)]
                    /\ drain' = [drain EXCEPT ![s] = "done"]
               ELSE /\ capture' = [capture EXCEPT ![s] = c]
                    /\ Costs(Cost(ok)) /\ spool' = [spool EXCEPT ![s] = sp] /\ UNCHANGED drain
  /\ UNCHANGED <<ask, main, world, written>>

\* The end of the stream: nothing is left in it and nobody can write to it.
EndOfStream(s) ==
  /\ drain[s] = "reading" /\ pipe[s] = 0 /\ Writers(s) = {}
  /\ drain' = [drain EXCEPT ![s] = "done"]
  /\ UNCHANGED <<ask, main, world, written, pipe, capture, spool, trouble>>

DrainFails(s) ==
  /\ drain[s] = "reading" /\ OneMore
  /\ capture' = [capture EXCEPT ![s].error = "stream-drain-failed"]
  /\ drain' = [drain EXCEPT ![s] = "done"]
  /\ UNCHANGED <<ask, main, world, written, pipe, spool>>

-----------------------------------------------------------------------------
(* The caller's thread *)

\* _capture_error, of one stream and of both
Told(s) == capture[s].error # "none" \/ spool[s].error # "none"
CaptureError == \E s \in Streams : Told(s)

Spawn ==
  /\ At("spawn", "out") /\ child' = "running"
  /\ drain' = [s \in Streams |-> "reading"] /\ Goto("poll", "out") /\ outcome' = "exited"
  /\ UNCHANGED <<ask, raised, cut, helper, termed, late, written, pipe, capture, spool, trouble>>

SpawnFails ==
  /\ At("spawn", "out") /\ OneMore /\ outcome' = "spawn_failed" /\ Goto("flush", "out")
  /\ UNCHANGED <<ask, raised, cut, world, captured, spool>>

Poll ==
  /\ At("poll", "out")
  /\ IF child = "running" THEN Goto("errors", "out") ELSE Goto("join", "out")
  /\ UNCHANGED <<ask, outcome, raised, cut, world, captured, spool, trouble>>

CheckErrors ==
  /\ At("errors", "out")
  /\ IF CaptureError THEN outcome' = "capture_failed" /\ Goto("term", "out")
       ELSE Goto("deadline", "out") /\ UNCHANGED outcome
  /\ UNCHANGED <<ask, raised, cut, world, captured, spool, trouble>>

CheckDeadline ==
  /\ At("deadline", "out")
  /\ IF late THEN outcome' = "timed_out" /\ Goto("term", "out")
       ELSE Goto("poll", "out") /\ UNCHANGED outcome
  /\ UNCHANGED <<ask, raised, cut, world, captured, spool, trouble>>

\* An exception in the poll loop, in _terminate_process_group or in the wait after it: a child
\* that is not killed yet goes on, and the threads are joined all the same.
Interrupt ==
  /\ pc[1] \in {"poll", "errors", "deadline", "term", "kill", "join"} /\ OneMore
  /\ raised' = TRUE /\ Goto("join", "out")
  /\ UNCHANGED <<ask, outcome, cut, world, captured, spool>>

\* One before the loop, when the child and the first threads may have been started.
CutBefore ==
  /\ At("spawn", "out") /\ OneMore /\ cut' = TRUE /\ raised' = TRUE /\ Goto("end", "out")
  /\ \/ UNCHANGED <<child, drain>>
     \/ \E started \in {{}, {"out"}, Streams} :
          /\ child' = "running"
          /\ drain' = [s \in Streams |-> IF s \in started THEN "reading" ELSE "idle"]
  /\ UNCHANGED <<ask, outcome, helper, termed, late, written, pipe, capture, spool>>

\* One in the finally, or in what follows a spawn that failed: the files stay as they are.
CutAfter ==
  /\ pc[1] \in {"join", "flush", "link", "settle"} /\ OneMore
  /\ cut' = TRUE /\ raised' = TRUE /\ Goto("end", "out")
  /\ \/ UNCHANGED spool
     \/ pc[1] = "settle" /\ spool' = [spool EXCEPT ![pc[2]].file = "named"]
  /\ UNCHANGED <<ask, outcome, world, captured>>

\* _terminate_process_group: SIGTERM to the group
Term ==
  /\ At("term", "out") /\ termed' = TRUE /\ Goto("kill", "out")
  /\ UNCHANGED <<ask, outcome, raised, cut, child, helper, late, captured, spool, trouble>>

\* Mutant of Killed: the signal is sent to the child alone.
KilledAlone == UNCHANGED helper

\* SIGKILL reaches every process of the group.
Killed == helper' = IF helper.life = "running" /\ helper.grouped THEN [helper EXCEPT !.life = "gone"] ELSE helper

\* After the grace: the group still exists, if only because its leader was not waited for.
KillGroup ==
  /\ At("kill", "out") /\ Goto("join", "out") /\ Killed
  /\ child' = IF child = "running" THEN "killed" ELSE child
  /\ UNCHANGED <<ask, outcome, raised, cut, termed, late, captured, spool, trouble>>

\* Mutant of Promoted: the poll loop has the last word.
PromotedNever == outcome

\* A child that ended before the loop saw what the drains met
Promoted ==
  IF outcome = "exited" /\ \E s \in Streams : capture[s].error # "none"
    THEN "capture_failed" ELSE outcome

\* Both threads are joined, without a limit of time, and the pipes closed.
Join ==
  /\ At("join", "out") /\ \A s \in Streams : drain[s] = "done"
  /\ outcome' = Promoted /\ Goto("flush", "out")
  /\ UNCHANGED <<ask, raised, cut, world, captured, spool, trouble>>

Step ==
  \/ \E s \in Streams : Open(s) \/ Flush(s) \/ Link(s) \/ Settle(s)
  \/ Spawn \/ Poll \/ CheckErrors \/ CheckDeadline \/ Term \/ KillGroup \/ Join

Drain(s) == Read(s) \/ EndOfStream(s)

World ==
  \/ \E s \in Streams : Write(s) \/ DrainFails(s) \/ OpenRefused(s)
  \/ Fork \/ ChildEnds \/ HelperEnds \/ SpawnFails \/ Interrupt \/ CutBefore \/ CutAfter

Done == At("end", "out") /\ UNCHANGED vars

Next == Step \/ (\E s \in Streams : Drain(s)) \/ World \/ Deadline \/ Done

Spec == Init /\ [][Next]_vars

-----------------------------------------------------------------------------
(* Correctness *)

Ended == At("end", "out")
Returned == Ended /\ ~raised

\* Every variable keeps to its range, and what is kept in memory to the caller's limit.
TypeOK ==
  /\ \A s \in Streams : capture[s].kept <= ask.keep
  /\ ask \in [timeout : BOOLEAN, total : Limits, keep : Keeps, spools : SUBSET Streams]
  /\ pc \in {"open", "spawn", "poll", "errors", "deadline", "term", "kill", "join", "flush",
             "link", "settle", "end"} \X Streams
  /\ child \in {"none", "running", "exited", "killed"}
  /\ helper \in [life : {"none", "running", "gone"}, grouped : BOOLEAN, pipes : SUBSET Streams]
  /\ termed \in BOOLEAN /\ late \in BOOLEAN /\ raised \in BOOLEAN /\ cut \in BOOLEAN
  /\ written \in [Streams -> 0 .. MaxBytes] /\ pipe \in [Streams -> 0 .. PipeBytes]
  /\ drain \in [Streams -> {"idle", "reading", "done"}]
  /\ capture \in [Streams -> [count : 0 .. MaxBytes, kept : 0 .. MaxBytes, truncated : BOOLEAN,
                              error : {"none", "hard-limit-exceeded", "stream-drain-failed"}]]
  /\ spool \in [Streams -> [file : {"none", "temporary", "linked", "published", "gone",
                                     "left", "named", "both"},
                            bytes : 0 .. MaxBytes,
                            error : {"none", "spool-open-failed", "spool-write-failed",
                                     "spool-fsync-failed", "spool-publish-failed"}]]
  /\ outcome \in {"none", "exited", "timed_out", "spawn_failed", "capture_failed"}
  /\ trouble \in 0 .. MaxTrouble

\* A result that says the child exited and reports no capture error has all of the
\* output: each stream was read to its end, what is kept is all of it or is marked as
\* truncated, and each spool asked for is published with every byte.
CleanResultIsComplete ==
  Returned /\ outcome = "exited" /\ ~CaptureError =>
    \A s \in Streams :
      /\ capture[s].count = written[s] /\ Writers(s) = {}
      /\ capture[s].kept = Least(written[s], ask.keep)
      /\ capture[s].truncated <=> written[s] > ask.keep
      /\ s \in ask.spools => spool[s].file = "published" /\ spool[s].bytes = written[s]

\* A stream that crossed its total limit never comes back as a child that exited, however
\* soon the child ended; and a child that was killed for it never as one that exited.
LimitIsReported ==
  Returned =>
    /\ (\E s \in Streams : capture[s].count > ask.total) => outcome \in {"capture_failed", "timed_out"}
    /\ child = "killed" => outcome \in {"capture_failed", "timed_out"}
    /\ outcome = "capture_failed" => CaptureError
    /\ outcome = "timed_out" => late

\* What failing unlinks have left of a spool's file, and how many failures that takes: the
\* temporary name, or a step after the link and then the final name, or both.
Leftover(sp) ==
  CASE sp.file = "left" -> 1 [] sp.file = "named" -> 2 [] sp.file = "both" -> 3 [] OTHER -> 0

\* When a call ends by returning, or by an exception that it cleans up after, each file is
\* published and free of an error, or gone, or what unlinks that failed have left: one
\* failure leaves one temporary name, and a final name that was not settled takes two.  A
\* result tells of every spool that is not published.  An exception in the finally, before
\* the poll loop or while a spool is opened leaves the files as they are.
SpoolsAreSettled ==
  Ended /\ ~cut =>
    /\ \A s \in Streams :
         /\ spool[s].file \in {"none", "published", "gone", "left", "named", "both"}
         /\ spool[s].file = "published" => spool[s].error = "none"
         /\ Returned /\ s \in ask.spools => spool[s].file = "published" \/ Told(s)
    /\ Leftover(spool["out"]) + Leftover(spool["err"]) <= trouble

\* What has its final name never lacks bytes, settled or not, but for a stream whose
\* reading failed.
PublishedIsWhole ==
  \A s \in Streams :
    spool[s].file \in {"linked", "published", "named", "both"} /\ capture[s].error = "none" =>
      spool[s].bytes = written[s]

\* A call that returns leaves no child, and nothing in the group of one it terminated.  One
\* that raises leaves a child only when neither of its streams could be read on, or when
\* the exception came before the poll loop or in the finally.
GroupDiesWithTimeout ==
  /\ Returned => child # "running" /\ (termed => ~(helper.life = "running" /\ helper.grouped))
  /\ Ended /\ child = "running" => cut \/ \A s \in Streams : capture[s].error # "none"
=============================================================================

--------------------------- MODULE Operations_proofs ---------------------------
(***************************************************************************)
(* Proofs about the child processes of a measurement and the evidence they *)
(* leave, as MCOperations composes them: a command under run_process       *)
(* (ProcessCapture), a case of the llama-server adapter (LlamaServer), one *)
(* of the other adapters (AdapterCase), the portable evidence of a run     *)
(* (PortableEvidence) and the exports of a finalized one (Bundle),         *)
(* whatever the children print, whoever else is there, whichever of the    *)
(* calls fail and wherever a process or the power does.                    *)
(***************************************************************************)
EXTENDS MCOperations, Integers, Sequences, FiniteSets, FiniteSetTheorems, SequenceTheorems, TLAPS

----------------------------------------
(* The invariant of run_process *)

\* Steps before the child, while it runs, and after the threads were joined
Opening == {"open", "spawn"}
Watching == {"poll", "errors", "deadline"}
Closing == {"flush", "link", "settle"}
Stages == Opening \cup Watching \cup {"term", "kill", "join"} \cup Closing \cup {"end"}

\* How a call ends, and what may go wrong with a capture and with a spool
Outcomes == {"none", "exited", "timed_out", "spawn_failed", "capture_failed"}
CaptureErrors == {"none", "hard-limit-exceeded", "stream-drain-failed"}
SpoolErrors == {"none", "spool-open-failed", "spool-write-failed", "spool-fsync-failed", "spool-publish-failed"}

\* Where the file of a spool may be, and there under its final name
Files == {"none", "temporary", "linked", "published", "gone", "left", "named", "both"}
Named == {"linked", "published", "named", "both"}

\* Every variable keeps to its range, whatever the bounds are.
ProcessTyped ==
  /\ ask \in [timeout : BOOLEAN, total : Limits, keep : Keeps, spools : SUBSET Process!Streams]
  /\ pc \in Stages \X Process!Streams
  /\ child \in {"none", "running", "exited", "killed"}
  /\ helper \in [life : {"none", "running", "gone"}, grouped : BOOLEAN, pipes : SUBSET Process!Streams]
  /\ termed \in BOOLEAN /\ late \in BOOLEAN /\ raised \in BOOLEAN /\ cut \in BOOLEAN
  /\ written \in [Process!Streams -> 0 .. MaxBytes] /\ pipe \in [Process!Streams -> 0 .. PipeBytes]
  /\ drain \in [Process!Streams -> {"idle", "reading", "done"}]
  /\ capture \in [Process!Streams -> [count : Nat, kept : Nat, truncated : BOOLEAN, error : CaptureErrors]]
  /\ spool \in [Process!Streams -> [file : Files, bytes : Nat, error : SpoolErrors]]
  /\ outcome \in Outcomes
  /\ trouble \in 0 .. MaxProcessTrouble

\* Nothing of a stream is lost between its writer and its thread: what was written is counted or
\* in the pipe, what is kept are the first bytes, and a limit that was crossed is an error.
Counted(s) ==
  /\ capture[s].count + pipe[s] = written[s]
  /\ capture[s].kept = Process!Least(capture[s].count, ask.keep)
  /\ capture[s].truncated <=> capture[s].count > ask.keep
  /\ capture[s].count > ask.total => capture[s].error # "none"
  /\ capture[s].error # "none" => drain[s] = "done"
  /\ child = "none" => drain[s] = "idle"
  /\ drain[s] = "idle" => child = "none" \/ cut
  /\ drain[s] = "idle" => written[s] = 0
  /\ drain[s] = "done" /\ capture[s].error = "none" => pipe[s] = 0 /\ Process!Writers(s) = {}

\* Where the caller's thread is with the child: not started, watched, or waited for.
Watched ==
  /\ cut => raised /\ pc[1] = "end"
  /\ pc[1] \in Opening => child = "none" /\ outcome = "none"
  /\ pc[1] \in Opening \cup Watching \cup {"term"} => ~termed
  /\ pc[1] \in Watching \cup {"term", "kill", "join"} => child # "none"
  /\ pc[1] \in Closing \cup {"end"} /\ ~cut => \A s \in Process!Streams : drain[s] # "reading"
  /\ outcome \notin {"none", "spawn_failed"} => child # "none"
  /\ outcome \in {"none", "spawn_failed"} /\ ~cut => child = "none"
  /\ child = "none" => helper.life = "none" /\ ~late
  /\ child = "killed" => termed
  /\ termed \/ pc[1] \in {"term", "kill"} => outcome \in {"timed_out", "capture_failed"}
  /\ pc[1] = "kill" => termed
  /\ pc[1] \in {"join", "end"} \cup Closing /\ ~raised => child # "running"
  /\ termed /\ pc[1] # "kill" /\ ~raised => ~(helper.life = "running" /\ helper.grouped)
  /\ outcome = "capture_failed" => Process!CaptureError
  /\ outcome = "timed_out" => late
  /\ pc[1] \in Closing \cup {"end"} /\ outcome = "exited" /\ ~cut => \A s \in Process!Streams : capture[s].error = "none"

\* The streams whose spool is not opened yet, and those whose spool is settled
Unopened == IF pc[1] # "open" THEN {} ELSE IF pc[2] = "out" THEN Process!Streams ELSE {"err"}
Settled == IF pc[1] = "end" THEN Process!Streams ELSE IF pc[1] \in Closing /\ pc[2] = "err" THEN {"out"} ELSE {}

\* A spool has every byte until something is wrong with it, and its file is where the caller is.
Spooled(s) ==
  /\ spool[s].bytes <= capture[s].count
  /\ spool[s].file = "temporary" /\ spool[s].error = "none" => spool[s].bytes = capture[s].count
  /\ spool[s].file \in Named =>
       spool[s].bytes = capture[s].count /\ drain[s] # "reading" /\ pc[1] \in Closing \cup {"end"}
  /\ spool[s].file \in {"linked", "published"} => spool[s].error = "none"
  /\ pc = <<"settle", s>> => spool[s].file = "linked"
  /\ spool[s].file = "linked" => pc = <<"settle", s>> \/ cut
  /\ pc = <<"link", s>> => spool[s].file = "temporary" /\ spool[s].error = "none"
  /\ s \in Settled /\ ~cut => spool[s].file \notin {"temporary", "linked"}
  /\ spool[s].file \in {"published", "named", "both"} => s \in Settled
  /\ spool[s].file \in {"gone", "left", "named", "both"} => Process!Told(s) \/ (raised /\ pc[1] = "end")
  /\ s \in Unopened => spool[s] = Process!NoSpool
  /\ s \in ask.spools /\ s \notin Unopened /\ spool[s].file = "none" =>
       spool[s].error # "none" \/ (raised /\ pc[1] = "end")
  /\ s \notin ask.spools => spool[s] = Process!NoSpool

\* Each name that is left was paid for by failing calls.
Paid == ~cut => Process!Leftover(spool["out"]) + Process!Leftover(spool["err"]) <= trouble

\* The invariant of a call of run_process: ranges, the child, and both of its streams.
ProcessInv ==
  /\ ProcessTyped /\ Watched /\ Paid
  /\ \A s \in Process!Streams : Counted(s) /\ Spooled(s)

----------------------------------------
(* A chunk that is read *)

\* What is captured of a stream, and what is spooled of it
CaptureType == [count : Nat, kept : Nat, truncated : BOOLEAN, error : CaptureErrors]
SpoolType   == [file : Files, bytes : Nat, error : SpoolErrors]

\* What is kept of a stream are its first bytes, in however many chunks they come.
LEMMA FirstBytesAreKept ==
  ASSUME NEW c \in CaptureType, NEW k \in Nat, ask.keep \in Nat,
         c.kept = Process!Least(c.count, ask.keep), c.truncated <=> c.count > ask.keep
  PROVE  Process!Kept(c, k) = [count |-> c.count + k, kept |-> Process!Least(c.count + k, ask.keep),
                               truncated |-> c.count + k > ask.keep, error |-> c.error]
<1> DEFINE room == IF ask.keep > c.kept THEN ask.keep - c.kept ELSE 0
<1>1. c.kept + Process!Least(k, room) = Process!Least(c.count + k, ask.keep) BY DEF Process!Least, CaptureType
<1>2. (c.truncated \/ k > room) = (c.count + k > ask.keep) BY DEF Process!Least, CaptureType
<1>3. Process!Kept(c, k) = [c EXCEPT !.count = c.count + k, !.kept = c.kept + Process!Least(k, room),
                                     !.truncated = c.truncated \/ k > room]
  BY DEF Process!Kept
<1> HIDE DEF room
<1> QED BY <1>1, <1>2, <1>3 DEF CaptureType

\* The effect of a read on its stream
ReadOf(s, k, ok, ul) ==
  LET over == capture[s].count + k > ask.total
      sp   == Process!Spooled(spool[s], k, ok) IN
  /\ drain[s] = "reading" /\ k \in 1 .. pipe[s]
  /\ pipe'[s] = pipe[s] - k
  /\ capture'[s] = [count |-> capture[s].count + k,
                    kept |-> Process!Least(capture[s].count + k, ask.keep),
                    truncated |-> capture[s].count + k > ask.keep,
                    error |-> IF over THEN "hard-limit-exceeded" ELSE "none"]
  /\ drain'[s] = IF over THEN "done" ELSE "reading"
  /\ spool'[s] = IF over THEN Process!Discarded(sp, ul) ELSE sp
  /\ trouble' \in trouble .. MaxProcessTrouble /\ (over /\ ~ul => trouble' > trouble)

\* A read takes a chunk from its pipe to its capture and its spool, and touches nothing else.
LEMMA ReadEffect ==
  ASSUME ProcessInv, NEW s \in Process!Streams, Process!Read(s)
  PROVE  /\ \E k \in Nat \ {0}, ok \in BOOLEAN, ul \in BOOLEAN : ReadOf(s, k, ok, ul)
         /\ pipe' = [pipe EXCEPT ![s] = pipe'[s]] /\ capture' = [capture EXCEPT ![s] = capture'[s]]
         /\ drain' = [drain EXCEPT ![s] = drain'[s]] /\ spool' = [spool EXCEPT ![s] = spool'[s]]
         /\ UNCHANGED <<ask, pc, outcome, raised, cut, child, helper, termed, late, written>>
<1>1. PICK k \in 1 .. pipe[s], ok \in BOOLEAN :
        LET c == Process!Kept(capture[s], k)
            sp == Process!Spooled(spool[s], k, ok)
        IN /\ pipe' = [pipe EXCEPT ![s] = @ - k]
           /\ IF c.count > ask.total
                THEN /\ capture' = [capture EXCEPT ![s] = [c EXCEPT !.error = "hard-limit-exceeded"]]
                     /\ \E ul \in Process!Unlinks(sp) :
                          /\ Process!Costs(Process!Cost(ok) + Process!Cost(ul))
                          /\ spool' = [spool EXCEPT ![s] = Process!Discarded(sp, ul)]
                     /\ drain' = [drain EXCEPT ![s] = "done"]
                ELSE /\ capture' = [capture EXCEPT ![s] = c]
                     /\ Process!Costs(Process!Cost(ok)) /\ spool' = [spool EXCEPT ![s] = sp] /\ UNCHANGED drain
  BY DEF Process!Read
<1>2. /\ drain[s] = "reading" /\ UNCHANGED <<ask, pc, outcome, raised, cut, child, helper, termed, late, written>>
  BY DEF Process!Read, Process!main, Process!world
<1>3. /\ ask.keep \in Nat /\ ask.total \in Nat /\ capture[s] \in CaptureType /\ pipe[s] \in Nat
      /\ capture[s].kept = Process!Least(capture[s].count, ask.keep)
      /\ capture[s].truncated <=> capture[s].count > ask.keep
      /\ capture[s].error = "none" /\ trouble \in 0 .. MaxProcessTrouble
  BY <1>2, OperationsAssumption DEF ProcessInv, ProcessTyped, Counted, CaptureType, Process!BoundsAssumption
<1>4. k \in Nat \ {0} BY <1>1, <1>3
<1> DEFINE c  == Process!Kept(capture[s], k)
           sp == Process!Spooled(spool[s], k, ok)
<1>5. c = [count |-> capture[s].count + k, kept |-> Process!Least(capture[s].count + k, ask.keep),
           truncated |-> capture[s].count + k > ask.keep, error |-> "none"]
  BY <1>3, <1>4, FirstBytesAreKept
<1>6. /\ capture \in [Process!Streams -> CaptureType] /\ pipe \in [Process!Streams -> Nat]
      /\ drain \in [Process!Streams -> {"idle", "reading", "done"}] /\ DOMAIN spool = Process!Streams
  BY OperationsAssumption DEF ProcessInv, ProcessTyped, CaptureType, Process!BoundsAssumption
<1>7. PICK ul \in BOOLEAN :
        /\ c.count > ask.total => spool' = [spool EXCEPT ![s] = Process!Discarded(sp, ul)]
        /\ trouble' \in trouble .. MaxProcessTrouble
        /\ c.count > ask.total /\ ~ul => trouble' > trouble
 <2> HIDE DEF c, sp
 <2>1. \A f \in BOOLEAN : Process!Cost(f) \in {0, 1} /\ (~f => Process!Cost(f) = 1) BY DEF Process!Cost
 <2>2. CASE c.count > ask.total
  <3>1. PICK ul \in Process!Unlinks(sp) :
          /\ Process!Costs(Process!Cost(ok) + Process!Cost(ul))
          /\ spool' = [spool EXCEPT ![s] = Process!Discarded(sp, ul)]
    BY <1>1, <2>2 DEF c, sp
  <3>2. ul \in BOOLEAN BY DEF Process!Unlinks
  <3>3. trouble' \in trouble .. MaxProcessTrouble /\ (~ul => trouble' > trouble)
    BY <1>3, <2>1, <3>1, <3>2, OperationsAssumption DEF Process!Costs, Process!BoundsAssumption
  <3> QED BY <3>1, <3>2, <3>3
 <2>3. CASE ~(c.count > ask.total)
  <3>1. Process!Costs(Process!Cost(ok)) BY <1>1, <2>3 DEF c, sp
  <3>2. trouble' \in trouble .. MaxProcessTrouble
    BY <1>3, <2>1, <3>1, OperationsAssumption DEF Process!Costs, Process!BoundsAssumption
  <3> QED BY <2>3, <3>2
 <2> QED BY <2>2, <2>3
<1>8. ReadOf(s, k, ok, ul)
 <2> HIDE DEF sp
 <2>1. (c.count > ask.total) = (capture[s].count + k > ask.total) BY <1>5
 <2>2. [c EXCEPT !.error = "hard-limit-exceeded"] =
         [count |-> capture[s].count + k, kept |-> Process!Least(capture[s].count + k, ask.keep),
          truncated |-> capture[s].count + k > ask.keep, error |-> "hard-limit-exceeded"]
   BY <1>5
 <2> HIDE DEF c
 <2>3. CASE capture[s].count + k > ask.total BY <1>1, <1>2, <1>6, <1>7, <2>1, <2>2, <2>3 DEF ReadOf, c, sp
 <2>4. CASE ~(capture[s].count + k > ask.total) BY <1>1, <1>2, <1>5, <1>6, <1>7, <2>1, <2>4 DEF ReadOf, c, sp
 <2> QED BY <2>3, <2>4
<1>9. /\ pipe' = [pipe EXCEPT ![s] = pipe'[s]] /\ capture' = [capture EXCEPT ![s] = capture'[s]]
      /\ drain' = [drain EXCEPT ![s] = drain'[s]] /\ spool' = [spool EXCEPT ![s] = spool'[s]]
 <2> HIDE DEF c, sp
 <2> QED BY <1>1, <1>6 DEF c, sp
<1> QED BY <1>2, <1>4, <1>8, <1>9

\* The chunk goes to the spool whole or leaves an error; a file that is discarded is gone.
LEMMA ChunkIsSpooled ==
  ASSUME NEW sp \in SpoolType, NEW k \in Nat, NEW ok \in BOOLEAN, NEW ul \in BOOLEAN
  PROVE  LET new == Process!Spooled(sp, k, ok) IN
         /\ new \in SpoolType /\ new.file = sp.file
         /\ sp.file # "temporary" => new = sp
         /\ new.error = "none" => sp.error = "none"
         /\ sp.error # "none" => new.error = sp.error
         /\ new.bytes \in {sp.bytes, sp.bytes + k}
         /\ sp.file = "temporary" /\ new.error = "none" => new.bytes = sp.bytes + k
         /\ Process!Discarded(new, ul) \in SpoolType
         /\ Process!Discarded(new, ul).bytes = new.bytes /\ Process!Discarded(new, ul).error = new.error
         /\ sp.file = "temporary" => Process!Discarded(new, ul).file = IF ul THEN "gone" ELSE "left"
         /\ sp.file # "temporary" => Process!Discarded(new, ul) = sp
BY DEF Process!Spooled, Process!Discarded, SpoolType, SpoolErrors, Files

\* What becomes of a spool whose file is discarded, with or without an error of its own
LEMMA DiscardEffect ==
  ASSUME NEW sp \in SpoolType, NEW ul \in BOOLEAN, NEW e \in SpoolErrors \ {"none"}
  PROVE  /\ Process!Discarded(sp, ul) \in SpoolType /\ Process!Failed(sp, e, ul) \in SpoolType
         /\ Process!Discarded(sp, ul).bytes = sp.bytes /\ Process!Failed(sp, e, ul).bytes = sp.bytes
         /\ Process!Discarded(sp, ul).error = sp.error
         /\ Process!Failed(sp, e, ul).error = IF sp.error = "none" THEN e ELSE sp.error
         /\ sp.file # "temporary" => Process!Discarded(sp, ul) = sp
         /\ sp.file = "temporary" => /\ Process!Discarded(sp, ul).file = IF ul THEN "gone" ELSE "left"
                                    /\ Process!Failed(sp, e, ul).file = IF ul THEN "gone" ELSE "left"
BY DEF Process!Discarded, Process!Failed, SpoolType, SpoolErrors, Files

\* Where a spool is after a step of its publication
ClosingOf(s, new) ==
  \/ /\ pc[1] = "flush" /\ pc' = <<"link", s>> /\ new = spool[s]
     /\ spool[s].file = "temporary" /\ spool[s].error = "none"
  \/ /\ pc[1] = "link" /\ pc' = <<"settle", s>> /\ new.file = "linked" /\ new.error = spool[s].error
  \/ /\ pc' = IF s = "out" THEN <<"flush", "err">> ELSE <<"end", "out">>
     /\ new.file \notin {"temporary", "linked"} /\ (new.error # "none" \/ new = spool[s] \/ new.file = "published")
     /\ new.file = "published" => new.error = "none"
     /\ new.file \in Named => pc[1] = "settle"

\* A step of the publication that fails discards its file and tells of it.
LEMMA FailingClose ==
  ASSUME NEW s \in {"out", "err"}, spool[s] \in SpoolType, s \in DOMAIN spool, trouble \in Nat, MaxProcessTrouble \in Nat,
         NEW e \in SpoolErrors \ {"none"}, pc[1] \in Closing, spool[s].file = "temporary", spool[s].error = "none",
         \E ok \in BOOLEAN : /\ Process!Costs(1 + Process!Cost(ok))
                             /\ spool' = [spool EXCEPT ![s] = Process!Failed(@, e, ok)],
         pc' = IF s = "out" THEN <<"flush", "err">> ELSE <<"end", "out">>
  PROVE  /\ trouble' \in trouble .. MaxProcessTrouble
         /\ \E new \in SpoolType :
              /\ spool' = [spool EXCEPT ![s] = new] /\ ClosingOf(s, new)
              /\ new.bytes = spool[s].bytes /\ new.error # "none"
              /\ Process!Leftover(new) + trouble <= Process!Leftover(spool[s]) + trouble'
<1>1. PICK ok \in BOOLEAN : /\ Process!Costs(1 + Process!Cost(ok))
                            /\ spool' = [spool EXCEPT ![s] = Process!Failed(spool[s], e, ok)]
  OBVIOUS
<1> DEFINE new == Process!Failed(spool[s], e, ok)
<1>2. /\ new \in SpoolType /\ new.bytes = spool[s].bytes /\ new.error = e
      /\ new.file = IF ok THEN "gone" ELSE "left"
  BY DiscardEffect
<1> HIDE DEF new
<1>3. Process!Leftover(new) \in {0, 1} /\ Process!Leftover(spool[s]) = 0 /\ 1 + Process!Cost(ok) \in {1, 2}
  BY <1>2 DEF Process!Leftover, Process!Cost
<1>4. ClosingOf(s, new) BY <1>2 DEF ClosingOf, Named
<1>5. Process!Costs(1 + Process!Cost(ok)) BY <1>1
<1>6. trouble' = trouble + (1 + Process!Cost(ok)) /\ trouble + (1 + Process!Cost(ok)) <= MaxProcessTrouble
  BY <1>5 DEF Process!Costs
<1>7. trouble' \in trouble .. MaxProcessTrouble /\ trouble' >= trouble + 1 BY <1>3, <1>6
<1>8. Process!Leftover(new) + trouble <= Process!Leftover(spool[s]) + trouble' BY <1>3, <1>7
<1>9. spool' = [spool EXCEPT ![s] = new] BY <1>1 DEF new
<1>10. new.error # "none" BY <1>2
<1> QED BY <1>2, <1>4, <1>7, <1>8, <1>9, <1>10

\* A step of the publication of a spool is about that spool, and pays for the names it leaves.
LEMMA ClosingEffect ==
  ASSUME ProcessInv, NEW s \in Process!Streams, Process!Flush(s) \/ Process!Link(s) \/ Process!Settle(s)
  PROVE  /\ UNCHANGED <<ask, outcome, raised, cut, child, helper, termed, late, written, pipe, drain, capture>>
         /\ pc[1] \in Closing /\ pc[2] = s /\ trouble' \in trouble .. MaxProcessTrouble
         /\ \E new \in SpoolType :
              /\ spool' = [spool EXCEPT ![s] = new] /\ ClosingOf(s, new)
              /\ new.bytes = spool[s].bytes /\ (spool[s].error # "none" => new.error # "none")
              /\ Process!Leftover(new) + trouble <= Process!Leftover(spool[s]) + trouble'
<1>1. /\ spool[s] \in SpoolType /\ DOMAIN spool = Process!Streams /\ trouble \in Nat /\ MaxProcessTrouble \in Nat
      /\ pc = <<pc[1], pc[2]>> /\ Spooled(s)
  BY OperationsAssumption DEF ProcessInv, ProcessTyped, SpoolType, Process!BoundsAssumption
<1>2. \A ok \in BOOLEAN : Process!Cost(ok) \in {0, 1} /\ (Process!Cost(ok) = 0 <=> ok) BY DEF Process!Cost
<1>3. \A n \in Nat : Process!Costs(n) => trouble' = trouble + n /\ trouble' \in trouble .. MaxProcessTrouble
  BY <1>1 DEF Process!Costs
<1>4. Process!Streams = {"out", "err"} BY DEF Process!Streams
<1>5. CASE Process!Flush(s)
 <2>1. /\ pc = <<"flush", s>>
       /\ UNCHANGED <<ask, outcome, raised, cut, child, helper, termed, late, written, pipe, drain, capture>>
   BY <1>5 DEF Process!Flush, Process!At, Process!world, Process!captured
 <2>2. spool[s].file \in {"none", "temporary", "gone", "left"}
   BY <1>1, <1>4, <2>1 DEF Spooled, Settled, Closing, SpoolType, Files, ProcessInv, Watched
 <2>3. CASE /\ spool[s].error # "none" \/ spool[s].file # "temporary"
            /\ \E ok \in Process!Unlinks(spool[s]) :
                 Process!Costs(Process!Cost(ok)) /\ spool' = [spool EXCEPT ![s] = Process!Discarded(@, ok)]
            /\ pc' = IF s = "out" THEN <<"flush", "err">> ELSE <<"end", "out">>
  <3>1. PICK ok \in BOOLEAN :
          Process!Costs(Process!Cost(ok)) /\ spool' = [spool EXCEPT ![s] = Process!Discarded(spool[s], ok)]
    BY <1>1, <2>3 DEF Process!Unlinks
  <3> DEFINE new == Process!Discarded(spool[s], ok)
  <3>2. /\ new \in SpoolType /\ new.bytes = spool[s].bytes /\ new.error = spool[s].error
        /\ spool[s].file # "temporary" => new = spool[s]
        /\ spool[s].file = "temporary" => new.file = IF ok THEN "gone" ELSE "left"
    BY <1>1, DiscardEffect DEF SpoolErrors
  <3> HIDE DEF new
  <3>3. Process!Leftover(new) <= Process!Leftover(spool[s]) + Process!Cost(ok) BY <1>2, <2>2, <3>2 DEF Process!Leftover
  <3>4. ClosingOf(s, new) BY <2>1, <2>2, <2>3, <3>2 DEF ClosingOf, Named
  <3>5. Process!Leftover(new) \in Nat /\ Process!Leftover(spool[s]) \in Nat BY DEF Process!Leftover
  <3>6. trouble' = trouble + Process!Cost(ok) /\ trouble' \in trouble .. MaxProcessTrouble BY <1>2, <1>3, <3>1
  <3>7. Process!Leftover(new) + trouble <= Process!Leftover(spool[s]) + trouble' BY <1>1, <1>2, <3>3, <3>5, <3>6
  <3> QED BY <2>1, <3>1, <3>2, <3>4, <3>6, <3>7 DEF Closing, new
 <2>4. CASE /\ spool[s].error = "none" /\ spool[s].file = "temporary"
            /\ \E ok \in BOOLEAN : /\ Process!Costs(1 + Process!Cost(ok))
                                   /\ spool' = [spool EXCEPT ![s] = Process!Failed(@, "spool-fsync-failed", ok)]
            /\ pc' = IF s = "out" THEN <<"flush", "err">> ELSE <<"end", "out">>
  <3>1. "spool-fsync-failed" \in SpoolErrors \ {"none"} /\ s \in {"out", "err"} /\ s \in DOMAIN spool /\ pc[1] \in Closing
    BY <1>1, <1>4, <2>1 DEF SpoolErrors, Closing
  <3>2. /\ trouble' \in trouble .. MaxProcessTrouble
        /\ \E new \in SpoolType :
             /\ spool' = [spool EXCEPT ![s] = new] /\ ClosingOf(s, new)
             /\ new.bytes = spool[s].bytes /\ new.error # "none"
             /\ Process!Leftover(new) + trouble <= Process!Leftover(spool[s]) + trouble'
    BY <1>1, <2>4, <3>1, FailingClose
  <3> QED BY <2>1, <3>1, <3>2
 <2>5. CASE /\ spool[s].error = "none" /\ spool[s].file = "temporary"
            /\ UNCHANGED <<spool, trouble>> /\ pc' = <<"link", s>>
  <3>1. spool' = [spool EXCEPT ![s] = spool[s]]
   <4>1. spool \in [Process!Streams -> SpoolType] BY DEF ProcessInv, ProcessTyped, SpoolType
   <4>2. spool' = spool BY <2>5
   <4> QED BY <4>1, <4>2
  <3>2. ClosingOf(s, spool[s]) BY <2>1, <2>5 DEF ClosingOf
  <3>3. trouble' = trouble BY <2>5
  <3>4. trouble \in 0 .. MaxProcessTrouble BY DEF ProcessInv, ProcessTyped
  <3>5. Process!Leftover(spool[s]) \in Nat BY DEF Process!Leftover
  <3>6. trouble' \in trouble .. MaxProcessTrouble BY <1>1, <3>3, <3>4
  <3>7. Process!Leftover(spool[s]) + trouble <= Process!Leftover(spool[s]) + trouble' BY <1>1, <3>3, <3>5
  <3> QED BY <1>1, <2>1, <3>1, <3>2, <3>6, <3>7 DEF Closing
 <2> QED BY <1>5, <2>3, <2>4, <2>5 DEF Process!Flush, Process!Goto
<1>6. CASE Process!Link(s)
 <2>1. /\ pc = <<"link", s>>
       /\ UNCHANGED <<ask, outcome, raised, cut, child, helper, termed, late, written, pipe, drain, capture>>
   BY <1>6 DEF Process!Link, Process!At, Process!world, Process!captured
 <2>2. spool[s].file = "temporary" /\ spool[s].error = "none" BY <1>1, <2>1 DEF Spooled
 <2>3. CASE spool' = [spool EXCEPT ![s].file = "linked"] /\ UNCHANGED trouble /\ pc' = <<"settle", s>>
  <3> DEFINE new == [spool[s] EXCEPT !.file = "linked"]
  <3>1. /\ new \in SpoolType /\ new.file = "linked" /\ new.error = spool[s].error
        /\ new.bytes = spool[s].bytes /\ spool' = [spool EXCEPT ![s] = new]
    BY <1>1, <2>3 DEF SpoolType, Files
  <3> HIDE DEF new
  <3>2. /\ ClosingOf(s, new) /\ Process!Leftover(new) = 0 /\ Process!Leftover(spool[s]) = 0
        /\ trouble' = trouble /\ trouble' \in trouble .. MaxProcessTrouble
    BY <1>1, <2>1, <2>2, <2>3, <3>1 DEF ClosingOf, Process!Leftover, ProcessInv, ProcessTyped
  <3>3. Process!Leftover(new) + trouble <= Process!Leftover(spool[s]) + trouble' BY <1>1, <3>2
  <3> QED BY <2>1, <2>2, <3>1, <3>2, <3>3 DEF Closing
 <2>4. CASE /\ \E ok \in BOOLEAN : /\ Process!Costs(1 + Process!Cost(ok))
                                   /\ spool' = [spool EXCEPT ![s] = Process!Failed(@, "spool-publish-failed", ok)]
            /\ pc' = IF s = "out" THEN <<"flush", "err">> ELSE <<"end", "out">>
  <3>1. "spool-publish-failed" \in SpoolErrors \ {"none"} /\ s \in {"out", "err"} /\ s \in DOMAIN spool /\ pc[1] \in Closing
    BY <1>1, <1>4, <2>1 DEF SpoolErrors, Closing
  <3>2. /\ trouble' \in trouble .. MaxProcessTrouble
        /\ \E new \in SpoolType :
             /\ spool' = [spool EXCEPT ![s] = new] /\ ClosingOf(s, new)
             /\ new.bytes = spool[s].bytes /\ new.error # "none"
             /\ Process!Leftover(new) + trouble <= Process!Leftover(spool[s]) + trouble'
    BY <1>1, <2>2, <2>4, <3>1, FailingClose
  <3> QED BY <2>1, <3>1, <3>2
 <2> QED BY <1>6, <2>3, <2>4 DEF Process!Link, Process!Goto
<1>7. CASE Process!Settle(s)
 <2>1. /\ pc = <<"settle", s>> /\ pc' = IF s = "out" THEN <<"flush", "err">> ELSE <<"end", "out">>
       /\ UNCHANGED <<ask, outcome, raised, cut, child, helper, termed, late, written, pipe, drain, capture>>
   BY <1>7 DEF Process!Settle, Process!At, Process!Goto, Process!world, Process!captured
 <2>2. spool[s].file = "linked" /\ spool[s].error = "none" BY <1>1, <2>1 DEF Spooled
 <2>3. CASE spool' = [spool EXCEPT ![s].file = "published"] /\ UNCHANGED trouble
  <3> DEFINE new == [spool[s] EXCEPT !.file = "published"]
  <3>1. /\ new \in SpoolType /\ new.file = "published" /\ new.error = spool[s].error
        /\ new.bytes = spool[s].bytes /\ spool' = [spool EXCEPT ![s] = new]
    BY <1>1, <2>3 DEF SpoolType, Files
  <3> HIDE DEF new
  <3>2. /\ ClosingOf(s, new) /\ Process!Leftover(new) = 0 /\ Process!Leftover(spool[s]) = 0
        /\ trouble' = trouble /\ trouble' \in trouble .. MaxProcessTrouble
    BY <1>1, <2>1, <2>2, <2>3, <3>1 DEF ClosingOf, Process!Leftover, ProcessInv, ProcessTyped
  <3>3. Process!Leftover(new) + trouble <= Process!Leftover(spool[s]) + trouble' BY <1>1, <3>2
  <3> QED BY <2>1, <2>2, <3>1, <3>2, <3>3 DEF Closing
 <2>4. CASE \E final \in BOOLEAN, temp \in BOOLEAN :
              /\ Process!Costs(1 + Process!Cost(final) + Process!Cost(temp))
              /\ spool' = [spool EXCEPT ![s] = Process!Unsettled(@, final, temp)]
  <3>1. PICK final \in BOOLEAN, temp \in BOOLEAN :
             /\ Process!Costs(1 + Process!Cost(final) + Process!Cost(temp))
             /\ spool' = [spool EXCEPT ![s] = Process!Unsettled(spool[s], final, temp)]
    BY <1>1, <2>4
  <3> DEFINE new == Process!Unsettled(spool[s], final, temp)
  <3>2. /\ new \in SpoolType /\ new.error = "spool-publish-failed" /\ new.bytes = spool[s].bytes
        /\ new.file = IF final THEN (IF temp THEN "gone" ELSE "left") ELSE IF temp THEN "named" ELSE "both"
   <4> DEFINE place == IF final THEN (IF temp THEN "gone" ELSE "left") ELSE IF temp THEN "named" ELSE "both"
   <4>2. new = [spool[s] EXCEPT !.error = "spool-publish-failed", !.file = place] BY DEF Process!Unsettled
   <4>3. place \in Files BY DEF Files
   <4> HIDE DEF new, place
   <4>4. /\ new \in SpoolType /\ new.error = "spool-publish-failed" /\ new.bytes = spool[s].bytes /\ new.file = place
     BY <1>1, <4>2, <4>3 DEF SpoolType, SpoolErrors
   <4> QED BY <4>4 DEF place
  <3> HIDE DEF new
  <3>3. /\ Process!Leftover(new) <= 1 + Process!Cost(final) + Process!Cost(temp) /\ Process!Leftover(new) \in Nat
        /\ Process!Leftover(spool[s]) = 0 /\ new.file \in {"gone", "left", "named", "both"}
    BY <1>2, <2>2, <3>2 DEF Process!Leftover
  <3>4. ClosingOf(s, new) BY <2>1, <3>2, <3>3 DEF ClosingOf
  <3>5. 1 + Process!Cost(final) + Process!Cost(temp) \in Nat BY <1>2
  <3>6. /\ trouble' = trouble + (1 + Process!Cost(final) + Process!Cost(temp))
        /\ trouble' \in trouble .. MaxProcessTrouble
    BY <1>3, <3>1, <3>5
  <3>7. Process!Leftover(new) + trouble <= Process!Leftover(spool[s]) + trouble' BY <1>1, <3>3, <3>5, <3>6
  <3> QED BY <2>1, <2>2, <3>1, <3>2, <3>4, <3>6, <3>7 DEF Closing, new
 <2> QED BY <1>7, <2>3, <2>4 DEF Process!Settle
<1> QED BY <1>5, <1>6, <1>7

----------------------------------------
(* Steps of run_process *)

\* A refused spool takes the one opened before it along, and pays for a name that stays.
LEMMA RefusalEffect ==
  ASSUME ProcessInv, NEW s \in Process!Streams, Process!OpenRefused(s)
  PROVE  /\ UNCHANGED <<ask, outcome, child, helper, termed, late, written, pipe, drain, capture>>
         /\ raised' = TRUE /\ pc[1] = "open" /\ pc' = <<"end", "out">> /\ cut' \in BOOLEAN
         /\ spool' \in [Process!Streams -> SpoolType] /\ trouble' \in trouble .. MaxProcessTrouble
         /\ \A r \in Process!Streams :
              /\ spool'[r].bytes = spool[r].bytes /\ spool'[r].error = spool[r].error
              /\ spool'[r].file \in {spool[r].file, "temporary", "gone", "left"}
              /\ spool'[r].file = "temporary" => cut'
              /\ r \notin ask.spools => spool'[r] = spool[r]
              /\ ~cut' => \/ Process!Leftover(spool'[r]) = 0
                          \/ r = "out" /\ Process!Leftover(spool'[r]) = 1 /\ trouble' > trouble
<1>1. /\ pc = <<"open", s>> /\ s \in ask.spools /\ raised' = TRUE /\ pc' = <<"end", "out">>
      /\ UNCHANGED <<ask, outcome, child, helper, termed, late, written, pipe, drain, capture>>
  BY DEF Process!OpenRefused, Process!At, Process!Goto, Process!world, Process!captured
<1>2. PICK ul \in BOOLEAN :
        /\ Process!Costs(1 + Process!Cost(ul))
        /\ \/ spool' = Process!AfterRefusal(ul) /\ UNCHANGED cut
           \/ spool' = [Process!AfterRefusal(ul) EXCEPT ![s].file = "temporary"] /\ cut' = TRUE
  BY DEF Process!OpenRefused, Process!Unlinks
<1>3. /\ spool \in [Process!Streams -> SpoolType] /\ trouble \in Nat /\ MaxProcessTrouble \in Nat /\ cut = FALSE
      /\ \A r \in Process!Streams : Spooled(r)
  BY <1>1, OperationsAssumption DEF ProcessInv, ProcessTyped, SpoolType, Process!BoundsAssumption, Watched
<1>4. trouble' \in trouble .. MaxProcessTrouble /\ trouble' > trouble BY <1>2, <1>3 DEF Process!Costs, Process!Cost
<1> DEFINE disc == Process!Discarded(spool["out"], ul)
<1>5. /\ disc \in SpoolType /\ disc.bytes = spool["out"].bytes /\ disc.error = spool["out"].error
      /\ spool["out"].file # "temporary" => disc = spool["out"]
      /\ spool["out"].file = "temporary" => disc.file \in {"gone", "left"}
  BY <1>3, DiscardEffect DEF Process!Streams, SpoolErrors
<1>6. Process!AfterRefusal(ul) = [spool EXCEPT !["out"] = disc] BY <1>3 DEF Process!AfterRefusal, Process!Streams
<1> HIDE DEF disc
<1>7. /\ spool["err"] = Process!NoSpool /\ spool["out"].file \in {"none", "temporary", "gone", "left"}
      /\ "out" \notin ask.spools => spool["out"] = Process!NoSpool
      /\ s = "out" => spool["out"] = Process!NoSpool
 <2>1. s \in {"out", "err"} /\ pc[1] = "open" /\ pc[2] = s /\ Process!Streams = {"out", "err"}
   BY <1>1 DEF Process!Streams
 <2>2. "err" \in Unopened /\ (s = "out" => "out" \in Unopened) BY <2>1 DEF Unopened
 <2>3. spool["err"] = Process!NoSpool /\ (s = "out" => spool["out"] = Process!NoSpool) BY <1>3, <2>1, <2>2 DEF Spooled
 <2>4. "out" \notin ask.spools => spool["out"] = Process!NoSpool BY <1>3, <2>1 DEF Spooled
 <2>5. spool["out"].file \in Files BY <1>3, <2>1 DEF SpoolType
 <2>8. spool["out"].file \notin Named BY <1>3, <2>1 DEF Spooled, Named, Closing
 <2> QED BY <2>3, <2>4, <2>5, <2>8 DEF Files, Named
<1>8. spool' \in [Process!Streams -> SpoolType] BY <1>2, <1>3, <1>5, <1>6 DEF SpoolType, Files, Process!Streams
<1>9. ASSUME NEW r \in Process!Streams
      PROVE  /\ spool'[r].bytes = spool[r].bytes /\ spool'[r].error = spool[r].error
             /\ spool'[r].file \in {spool[r].file, "temporary", "gone", "left"}
             /\ spool'[r].file = "temporary" => cut'
             /\ r \notin ask.spools => spool'[r] = spool[r]
             /\ ~cut' => \/ spool'[r].file \in {"none", "gone"}
                         \/ r = "out" /\ spool'[r].file = "left"
 <2>1. CASE spool' = Process!AfterRefusal(ul) BY <1>3, <1>5, <1>6, <1>7, <2>1 DEF Process!Streams, Process!NoSpool
 <2>2. CASE spool' = [Process!AfterRefusal(ul) EXCEPT ![s].file = "temporary"] /\ cut' = TRUE
   BY <1>1, <1>3, <1>5, <1>6, <1>7, <2>2 DEF Process!Streams, Process!NoSpool, SpoolType
 <2> QED BY <1>2, <2>1, <2>2
<1>10. \A r \in Process!Streams :
         ~cut' => \/ Process!Leftover(spool'[r]) = 0
                  \/ r = "out" /\ Process!Leftover(spool'[r]) = 1
  BY <1>9 DEF Process!Leftover
<1> QED BY <1>1, <1>2, <1>3, <1>4, <1>8, <1>9, <1>10

\* A step of the publication keeps the variables in their ranges.
LEMMA ClosingTyped ==
  ASSUME ProcessInv, NEW s \in Process!Streams, Process!Flush(s) \/ Process!Link(s) \/ Process!Settle(s)
  PROVE  ProcessTyped'
<1>1. PICK new \in SpoolType : spool' = [spool EXCEPT ![s] = new] /\ ClosingOf(s, new) BY ClosingEffect
<1>2. spool \in [Process!Streams -> SpoolType] BY DEF ProcessInv, ProcessTyped, SpoolType
<1>3. spool' \in [Process!Streams -> SpoolType] BY <1>1, <1>2
<1>4. pc' \in Stages \X Process!Streams BY <1>1 DEF ClosingOf, Stages, Closing, Process!Streams
<1>5. trouble' \in 0 .. MaxProcessTrouble
  BY ClosingEffect, OperationsAssumption DEF ProcessInv, ProcessTyped, Process!BoundsAssumption
<1> QED BY <1>3, <1>4, <1>5, ClosingEffect DEF ProcessInv, ProcessTyped, SpoolType

\* Every step keeps the variables in their ranges.
LEMMA ProcessTypedStep ==
  ASSUME ProcessInv, Process!Next
  PROVE  ProcessTyped'
<1> USE OperationsAssumption DEF Process!BoundsAssumption, Process!Streams
<1> USE DEF ProcessInv, ProcessTyped
<1>1. ASSUME NEW s \in Process!Streams, Process!Open(s) PROVE ProcessTyped'
  BY <1>1 DEF Process!Open, Process!At, Process!Goto, Process!OneMore, Process!Costs, Process!Cost, Process!main, Process!world, Process!captured,
    Stages, Opening, Watching, Closing, Outcomes, CaptureErrors, SpoolErrors, Files
<1>2. ASSUME NEW s \in Process!Streams, Process!Flush(s) PROVE ProcessTyped' BY <1>2, ClosingTyped
<1>3. ASSUME NEW s \in Process!Streams, Process!Link(s) PROVE ProcessTyped' BY <1>3, ClosingTyped
<1>4. ASSUME NEW s \in Process!Streams, Process!Settle(s) PROVE ProcessTyped' BY <1>4, ClosingTyped
<1>5. ASSUME NEW s \in Process!Streams, Process!OpenRefused(s) PROVE ProcessTyped'
 <2>1. /\ UNCHANGED <<ask, outcome, child, helper, termed, late, written, pipe, drain, capture>>
       /\ raised' = TRUE /\ pc' = <<"end", "out">> /\ cut' \in BOOLEAN
       /\ spool' \in [Process!Streams -> SpoolType] /\ trouble' \in trouble .. MaxProcessTrouble
   BY <1>5, RefusalEffect
 <2>2. trouble' \in 0 .. MaxProcessTrouble BY <2>1
 <2>3. pc' \in Stages \X Process!Streams BY <2>1 DEF Stages
 <2> QED BY <2>1, <2>2, <2>3 DEF SpoolType
<1>6. ASSUME NEW s \in Process!Streams, Process!Read(s) PROVE ProcessTyped'
 <2>1. PICK k \in Nat \ {0}, ok \in BOOLEAN, ul \in BOOLEAN : ReadOf(s, k, ok, ul) BY <1>6, ReadEffect
 <2> DEFINE sp == Process!Spooled(spool[s], k, ok)
 <2>2. spool[s] \in SpoolType BY DEF SpoolType
 <2>3. /\ sp \in SpoolType /\ sp.file = spool[s].file
       /\ spool[s].file # "temporary" => sp = spool[s]
       /\ sp.error = "none" => spool[s].error = "none"
       /\ spool[s].error # "none" => sp.error = spool[s].error
       /\ sp.bytes \in {spool[s].bytes, spool[s].bytes + k}
       /\ spool[s].file = "temporary" /\ sp.error = "none" => sp.bytes = spool[s].bytes + k
       /\ Process!Discarded(sp, ul) \in SpoolType
       /\ Process!Discarded(sp, ul).bytes = sp.bytes /\ Process!Discarded(sp, ul).error = sp.error
       /\ spool[s].file = "temporary" => Process!Discarded(sp, ul).file = IF ul THEN "gone" ELSE "left"
       /\ spool[s].file # "temporary" => Process!Discarded(sp, ul) = spool[s]
  <3> HIDE DEF ProcessInv, ProcessTyped
  <3> QED BY <2>2, ChunkIsSpooled
 <2> HIDE DEF sp
 <2>4. capture' \in [Process!Streams -> CaptureType] /\ spool' \in [Process!Streams -> SpoolType]
  <3>1. capture'[s] \in CaptureType /\ spool'[s] \in SpoolType
   <4>1. capture[s].count + k \in Nat /\ Process!Least(capture[s].count + k, ask.keep) \in Nat BY DEF Process!Least
   <4> QED BY <2>1, <2>3, <4>1 DEF ReadOf, sp, CaptureType, CaptureErrors
  <3>2. capture \in [Process!Streams -> CaptureType] /\ spool \in [Process!Streams -> SpoolType]
    BY DEF CaptureType, SpoolType
  <3> QED BY <1>6, <3>1, <3>2, ReadEffect
 <2>5. pipe' \in [Process!Streams -> 0 .. PipeBytes] /\ drain' \in [Process!Streams -> {"idle", "reading", "done"}]
   BY <1>6, <2>1, ReadEffect DEF ReadOf
 <2> QED BY <1>6, <2>1, <2>4, <2>5, ReadEffect DEF ReadOf, CaptureType, SpoolType
<1>7. ASSUME NEW s \in Process!Streams, Process!EndOfStream(s) PROVE ProcessTyped'
  BY <1>7 DEF Process!EndOfStream, Process!main, Process!world, Process!captured, Stages, Opening, Watching, Closing,
    Outcomes, CaptureErrors, SpoolErrors, Files
<1>8. ASSUME NEW s \in Process!Streams, Process!Write(s) PROVE ProcessTyped'
  BY <1>8 DEF Process!Write, Process!main, Process!world, Process!captured, Stages, Opening, Watching, Closing,
    Outcomes, CaptureErrors, SpoolErrors, Files
<1>9. ASSUME NEW s \in Process!Streams, Process!DrainFails(s) PROVE ProcessTyped'
  BY <1>9 DEF Process!DrainFails, Process!OneMore, Process!Costs, Process!Cost, Process!main, Process!world, Process!captured, Stages, Opening,
    Watching, Closing, Outcomes, CaptureErrors, SpoolErrors, Files
<1>10. CASE Process!Spawn
  BY <1>10 DEF Process!Spawn, Process!At, Process!Goto, Process!main, Process!world, Process!captured, Stages,
    Opening, Watching, Closing, Outcomes, CaptureErrors, SpoolErrors, Files
<1>11. CASE Process!SpawnFails
  BY <1>11 DEF Process!SpawnFails, Process!OneMore, Process!Costs, Process!Cost, Process!At, Process!Goto, Process!main, Process!world,
    Process!captured, Stages, Opening, Watching, Closing, Outcomes, CaptureErrors, SpoolErrors, Files
<1>12. CASE Process!Poll
  BY <1>12 DEF Process!Poll, Process!At, Process!Goto, Process!main, Process!world, Process!captured, Stages, Opening,
    Watching, Closing, Outcomes, CaptureErrors, SpoolErrors, Files
<1>13. CASE Process!CheckErrors
  BY <1>13 DEF Process!CheckErrors, Process!At, Process!Goto, Process!main, Process!world, Process!captured, Stages,
    Opening, Watching, Closing, Outcomes, CaptureErrors, SpoolErrors, Files
<1>14. CASE Process!CheckDeadline
  BY <1>14 DEF Process!CheckDeadline, Process!At, Process!Goto, Process!main, Process!world, Process!captured, Stages,
    Opening, Watching, Closing, Outcomes, CaptureErrors, SpoolErrors, Files
<1>15. CASE Process!Interrupt
  BY <1>15 DEF Process!Interrupt, Process!OneMore, Process!Costs, Process!Cost, Process!Goto, Process!main, Process!world, Process!captured,
    Stages, Opening, Watching, Closing, Outcomes, CaptureErrors, SpoolErrors, Files
<1>16. CASE Process!Term
  BY <1>16 DEF Process!Term, Process!At, Process!Goto, Process!main, Process!world, Process!captured, Stages, Opening,
    Watching, Closing, Outcomes, CaptureErrors, SpoolErrors, Files
<1>17. CASE Process!KillGroup
  BY <1>17 DEF Process!KillGroup, Process!Killed, Process!At, Process!Goto, Process!main, Process!world,
    Process!captured, Stages, Opening, Watching, Closing, Outcomes, CaptureErrors, SpoolErrors, Files
<1>18. CASE Process!Join
  BY <1>18 DEF Process!Join, Process!Promoted, Process!At, Process!Goto, Process!main, Process!world,
    Process!captured, Stages, Opening, Watching, Closing, Outcomes, CaptureErrors, SpoolErrors, Files
<1>19. CASE Process!Fork
  BY <1>19 DEF Process!Fork, Process!main, Process!world, Process!captured, Stages, Opening, Watching, Closing,
    Outcomes, CaptureErrors, SpoolErrors, Files
<1>20. CASE Process!ChildEnds
  BY <1>20 DEF Process!ChildEnds, Process!main, Process!world, Process!captured, Stages, Opening, Watching, Closing,
    Outcomes, CaptureErrors, SpoolErrors, Files
<1>21. CASE Process!HelperEnds
  BY <1>21 DEF Process!HelperEnds, Process!main, Process!world, Process!captured, Stages, Opening, Watching, Closing,
    Outcomes, CaptureErrors, SpoolErrors, Files
<1>22. CASE Process!Deadline
  BY <1>22 DEF Process!Deadline, Process!main, Process!world, Process!captured, Stages, Opening, Watching, Closing,
    Outcomes, CaptureErrors, SpoolErrors, Files
<1>23. CASE Process!Done
  BY <1>23 DEF Process!Done, Process!vars, Stages, Opening, Watching, Closing, Outcomes, CaptureErrors, SpoolErrors, Files
<1>24. CASE Process!CutBefore
  BY <1>24 DEF Process!CutBefore, Process!OneMore, Process!Costs, Process!At, Process!Goto, Process!main, Process!world,
    Process!captured, Stages, Opening, Watching, Closing, Outcomes, CaptureErrors, SpoolErrors, Files
<1>25. CASE Process!CutAfter
  BY <1>25 DEF Process!CutAfter, Process!OneMore, Process!Costs, Process!Goto, Process!main, Process!world,
    Process!captured, Stages, Opening, Watching, Closing, Outcomes, CaptureErrors, SpoolErrors, Files
<1> HIDE DEF ProcessInv, ProcessTyped
<1> QED BY <1>1, <1>2, <1>3, <1>4, <1>5, <1>6, <1>7, <1>8, <1>9, <1>10, <1>11, <1>12, <1>13, <1>14, <1>15, <1>16,
     <1>17, <1>18, <1>19, <1>20, <1>21, <1>22, <1>23, <1>24, <1>25
     DEF Process!Next, Process!Step, Process!Drain, Process!World

\* A step of the publication leaves child and threads alone.
LEMMA ClosingWatched ==
  ASSUME ProcessInv, NEW s \in Process!Streams, Process!Flush(s) \/ Process!Link(s) \/ Process!Settle(s)
  PROVE  Watched'
<1>1. PICK new \in SpoolType : /\ spool' = [spool EXCEPT ![s] = new] /\ ClosingOf(s, new)
                               /\ spool[s].error # "none" => new.error # "none"
  BY ClosingEffect
<1>2. /\ UNCHANGED <<outcome, raised, cut, child, helper, termed, late, drain, capture>> /\ pc[1] \in Closing
      /\ DOMAIN spool = Process!Streams /\ Watched
  BY ClosingEffect DEF ProcessInv, ProcessTyped
<1>3. pc'[1] \in Closing \cup {"end"} BY <1>1 DEF ClosingOf, Closing
<1>4. \A r \in Process!Streams : Process!Told(r) => Process!Told(r)' BY <1>1, <1>2 DEF Process!Told
<1>5. Process!CaptureError => Process!CaptureError' BY <1>4 DEF Process!CaptureError
<1> QED BY <1>2, <1>3, <1>5 DEF Watched, Closing, Opening, Watching

\* A child is started, watched, terminated and waited for in that order.
LEMMA WatchedStep ==
  ASSUME ProcessInv, Process!Next
  PROVE  Watched'
<1> USE OperationsAssumption DEF Process!BoundsAssumption, Process!Streams
<1> USE DEF ProcessInv, ProcessTyped, Watched
<1>1. ASSUME NEW s \in Process!Streams, Process!Open(s) PROVE Watched'
  BY <1>1 DEF Process!Open, Process!At, Process!Goto, Process!OneMore, Process!Costs, Process!Cost, Process!main, Process!world, Process!captured,
    Stages, Opening, Watching, Closing, Outcomes, CaptureErrors, SpoolErrors, Files, Counted, Process!Writers,
    Process!CaptureError, Process!Told
<1>2. ASSUME NEW s \in Process!Streams, Process!Flush(s) PROVE Watched' BY <1>2, ClosingWatched
<1>3. ASSUME NEW s \in Process!Streams, Process!Link(s) PROVE Watched' BY <1>3, ClosingWatched
<1>4. ASSUME NEW s \in Process!Streams, Process!Settle(s) PROVE Watched' BY <1>4, ClosingWatched
<1>5. ASSUME NEW s \in Process!Streams, Process!OpenRefused(s) PROVE Watched'
 <2>1. /\ UNCHANGED <<ask, outcome, child, helper, termed, late, written, pipe, drain, capture>>
       /\ raised' = TRUE /\ pc[1] = "open" /\ pc' = <<"end", "out">>
   BY <1>5, RefusalEffect
 <2>2. child = "none" /\ outcome = "none" /\ ~termed BY <2>1 DEF Opening
 <2>3. \A r \in Process!Streams : drain[r] = "idle" BY <2>2 DEF Counted
 <2> QED BY <2>1, <2>2, <2>3 DEF Opening, Watching, Closing
<1>6. ASSUME NEW s \in Process!Streams, Process!Read(s) PROVE Watched'
 <2>1. PICK k \in Nat \ {0}, ok \in BOOLEAN, ul \in BOOLEAN : ReadOf(s, k, ok, ul) BY <1>6, ReadEffect
 <2> DEFINE sp == Process!Spooled(spool[s], k, ok)
 <2>2. spool[s] \in SpoolType BY DEF SpoolType
 <2>3. /\ sp \in SpoolType /\ sp.file = spool[s].file
       /\ spool[s].file # "temporary" => sp = spool[s]
       /\ sp.error = "none" => spool[s].error = "none"
       /\ spool[s].error # "none" => sp.error = spool[s].error
       /\ sp.bytes \in {spool[s].bytes, spool[s].bytes + k}
       /\ spool[s].file = "temporary" /\ sp.error = "none" => sp.bytes = spool[s].bytes + k
       /\ Process!Discarded(sp, ul) \in SpoolType
       /\ Process!Discarded(sp, ul).bytes = sp.bytes /\ Process!Discarded(sp, ul).error = sp.error
       /\ spool[s].file = "temporary" => Process!Discarded(sp, ul).file = IF ul THEN "gone" ELSE "left"
       /\ spool[s].file # "temporary" => Process!Discarded(sp, ul) = spool[s]
  <3> HIDE DEF ProcessInv, ProcessTyped
  <3> QED BY <2>2, ChunkIsSpooled
 <2> HIDE DEF sp
 <2>4. /\ drain[s] = "reading" /\ drain'[s] \in {"reading", "done"}
       /\ spool'[s] \in {sp, Process!Discarded(sp, ul)}
   BY <2>1 DEF ReadOf, sp
 <2>5. /\ UNCHANGED <<pc, outcome, raised, cut, child, helper, termed, late>>
       /\ capture' = [capture EXCEPT ![s] = capture'[s]] /\ drain' = [drain EXCEPT ![s] = drain'[s]]
       /\ spool' = [spool EXCEPT ![s] = spool'[s]]
   BY <1>6, ReadEffect
 <2>6. /\ s \in DOMAIN capture /\ s \in DOMAIN spool /\ s \in DOMAIN drain
       /\ (pc[1] \in Closing \cup {"end"} => cut) /\ capture[s].error = "none"
   BY <2>4 DEF Counted
 <2>7. Process!CaptureError => Process!CaptureError'
  <3>1. spool[s].error # "none" => spool'[s].error # "none" BY <2>3, <2>4
  <3>2. \A r \in Process!Streams \ {s} : spool'[r] = spool[r] /\ capture'[r] = capture[r] BY <2>5, <2>6
  <3> QED BY <2>6, <3>1, <3>2 DEF Process!CaptureError, Process!Told
 <2> QED BY <2>5, <2>6, <2>7
<1>7. ASSUME NEW s \in Process!Streams, Process!EndOfStream(s) PROVE Watched'
  BY <1>7 DEF Process!EndOfStream, Process!main, Process!world, Process!captured, Stages, Opening, Watching, Closing,
    Outcomes, CaptureErrors, SpoolErrors, Files, Counted, Process!Writers, Process!CaptureError, Process!Told
<1>8. ASSUME NEW s \in Process!Streams, Process!Write(s) PROVE Watched'
  BY <1>8 DEF Process!Write, Process!main, Process!world, Process!captured, Stages, Opening, Watching, Closing,
    Outcomes, CaptureErrors, SpoolErrors, Files, Counted, Process!Writers, Process!CaptureError, Process!Told
<1>9. ASSUME NEW s \in Process!Streams, Process!DrainFails(s) PROVE Watched'
  BY <1>9 DEF Process!DrainFails, Process!OneMore, Process!Costs, Process!Cost, Process!main, Process!world, Process!captured, Stages, Opening,
    Watching, Closing, Outcomes, CaptureErrors, SpoolErrors, Files, Counted, Process!Writers, Process!CaptureError,
    Process!Told
<1>10. CASE Process!Spawn
  BY <1>10 DEF Process!Spawn, Process!At, Process!Goto, Process!main, Process!world, Process!captured, Stages,
    Opening, Watching, Closing, Outcomes, CaptureErrors, SpoolErrors, Files, Counted, Process!Writers, Process!CaptureError,
    Process!Told
<1>11. CASE Process!SpawnFails
  BY <1>11 DEF Process!SpawnFails, Process!OneMore, Process!Costs, Process!Cost, Process!At, Process!Goto, Process!main, Process!world,
    Process!captured, Stages, Opening, Watching, Closing, Outcomes, CaptureErrors, SpoolErrors, Files, Counted,
    Process!Writers, Process!CaptureError, Process!Told
<1>12. CASE Process!Poll
  BY <1>12 DEF Process!Poll, Process!At, Process!Goto, Process!main, Process!world, Process!captured, Stages, Opening,
    Watching, Closing, Outcomes, CaptureErrors, SpoolErrors, Files, Counted, Process!Writers, Process!CaptureError,
    Process!Told
<1>13. CASE Process!CheckErrors
  BY <1>13 DEF Process!CheckErrors, Process!At, Process!Goto, Process!main, Process!world, Process!captured, Stages,
    Opening, Watching, Closing, Outcomes, CaptureErrors, SpoolErrors, Files, Counted, Process!Writers, Process!CaptureError,
    Process!Told
<1>14. CASE Process!CheckDeadline
  BY <1>14 DEF Process!CheckDeadline, Process!At, Process!Goto, Process!main, Process!world, Process!captured, Stages,
    Opening, Watching, Closing, Outcomes, CaptureErrors, SpoolErrors, Files, Counted, Process!Writers, Process!CaptureError,
    Process!Told
<1>15. CASE Process!Interrupt
  BY <1>15 DEF Process!Interrupt, Process!OneMore, Process!Costs, Process!Cost, Process!Goto, Process!main, Process!world, Process!captured,
    Stages, Opening, Watching, Closing, Outcomes, CaptureErrors, SpoolErrors, Files, Counted, Process!Writers,
    Process!CaptureError, Process!Told
<1>16. CASE Process!Term
  BY <1>16 DEF Process!Term, Process!At, Process!Goto, Process!main, Process!world, Process!captured, Stages, Opening,
    Watching, Closing, Outcomes, CaptureErrors, SpoolErrors, Files, Counted, Process!Writers, Process!CaptureError,
    Process!Told
<1>17. CASE Process!KillGroup
  BY <1>17 DEF Process!KillGroup, Process!Killed, Process!At, Process!Goto, Process!main, Process!world,
    Process!captured, Stages, Opening, Watching, Closing, Outcomes, CaptureErrors, SpoolErrors, Files, Counted,
    Process!Writers, Process!CaptureError, Process!Told
<1>18. CASE Process!Join
  BY <1>18 DEF Process!Join, Process!Promoted, Process!At, Process!Goto, Process!main, Process!world,
    Process!captured, Stages, Opening, Watching, Closing, Outcomes, CaptureErrors, SpoolErrors, Files, Counted,
    Process!Writers, Process!CaptureError, Process!Told
<1>19. CASE Process!Fork
  BY <1>19 DEF Process!Fork, Process!main, Process!world, Process!captured, Stages, Opening, Watching, Closing,
    Outcomes, CaptureErrors, SpoolErrors, Files, Counted, Process!Writers, Process!CaptureError, Process!Told
<1>20. CASE Process!ChildEnds
  BY <1>20 DEF Process!ChildEnds, Process!main, Process!world, Process!captured, Stages, Opening, Watching, Closing,
    Outcomes, CaptureErrors, SpoolErrors, Files, Counted, Process!Writers, Process!CaptureError, Process!Told
<1>21. CASE Process!HelperEnds
  BY <1>21 DEF Process!HelperEnds, Process!main, Process!world, Process!captured, Stages, Opening, Watching, Closing,
    Outcomes, CaptureErrors, SpoolErrors, Files, Counted, Process!Writers, Process!CaptureError, Process!Told
<1>22. CASE Process!Deadline
  BY <1>22 DEF Process!Deadline, Process!main, Process!world, Process!captured, Stages, Opening, Watching, Closing,
    Outcomes, CaptureErrors, SpoolErrors, Files, Counted, Process!Writers, Process!CaptureError, Process!Told
<1>23. CASE Process!Done
  BY <1>23 DEF Process!Done, Process!vars, Stages, Opening, Watching, Closing, Outcomes, CaptureErrors, SpoolErrors, Files,
    Counted, Process!Writers, Process!CaptureError, Process!Told
<1>24. CASE Process!CutBefore
  BY <1>24 DEF Process!CutBefore, Process!OneMore, Process!Costs, Process!At, Process!Goto, Process!main, Process!world,
    Process!captured, Stages, Opening, Watching, Closing, Outcomes, CaptureErrors, SpoolErrors, Files, Counted,
    Process!Writers, Process!CaptureError, Process!Told
<1>25. CASE Process!CutAfter
  BY <1>25 DEF Process!CutAfter, Process!OneMore, Process!Costs, Process!Goto, Process!main, Process!world,
    Process!captured, Stages, Opening, Watching, Closing, Outcomes, CaptureErrors, SpoolErrors, Files, Counted,
    Process!Writers, Process!CaptureError, Process!Told
<1> HIDE DEF ProcessInv, ProcessTyped, Watched
<1> QED BY <1>1, <1>2, <1>3, <1>4, <1>5, <1>6, <1>7, <1>8, <1>9, <1>10, <1>11, <1>12, <1>13, <1>14, <1>15, <1>16,
     <1>17, <1>18, <1>19, <1>20, <1>21, <1>22, <1>23, <1>24, <1>25
     DEF Process!Next, Process!Step, Process!Drain, Process!World

\* What neither ends a writer nor moves a byte keeps the account.
LEMMA CountedUntouched ==
  ASSUME ProcessInv, cut => cut', UNCHANGED <<ask, child, helper, written, pipe, drain, capture>>
  PROVE  \A t \in Process!Streams : Counted(t)'
BY DEF ProcessInv, Counted, Process!Writers, Process!Least

\* Every step keeps the bytes of a stream accounted for; only a read moves any to the capture.
LEMMA CountedStep ==
  ASSUME ProcessInv, Process!Next
  PROVE  \A t \in Process!Streams : Counted(t)'
<1> USE OperationsAssumption DEF Process!BoundsAssumption, Process!Streams
<1>1. ASSUME NEW s \in Process!Streams, Process!Open(s) PROVE \A t \in Process!Streams : Counted(t)'
  BY <1>1, CountedUntouched DEF Process!Open, Process!captured, Process!world, Process!main
<1>2. ASSUME NEW s \in Process!Streams, Process!Flush(s) PROVE \A t \in Process!Streams : Counted(t)'
  BY <1>2, CountedUntouched DEF Process!Flush, Process!captured, Process!world, Process!main
<1>3. ASSUME NEW s \in Process!Streams, Process!Link(s) PROVE \A t \in Process!Streams : Counted(t)'
  BY <1>3, CountedUntouched DEF Process!Link, Process!captured, Process!world, Process!main
<1>4. ASSUME NEW s \in Process!Streams, Process!Settle(s) PROVE \A t \in Process!Streams : Counted(t)'
  BY <1>4, CountedUntouched DEF Process!Settle, Process!captured, Process!world, Process!main
<1>5. ASSUME NEW s \in Process!Streams, Process!OpenRefused(s) PROVE \A t \in Process!Streams : Counted(t)'
  BY <1>5, CountedUntouched DEF Process!OpenRefused, Process!captured, Process!world, Process!main
<1>6. ASSUME NEW s \in Process!Streams, Process!Read(s) PROVE \A t \in Process!Streams : Counted(t)'
 <2>1. PICK k \in Nat \ {0}, ok \in BOOLEAN, ul \in BOOLEAN : ReadOf(s, k, ok, ul) BY <1>6, ReadEffect
 <2>2. \A t \in Process!Streams : Counted(t) /\ (Process!Writers(t))' = Process!Writers(t)
   BY <1>6, ReadEffect DEF ProcessInv, Process!Writers
 <2>3. /\ drain \in [Process!Streams -> {"idle", "reading", "done"}] /\ DOMAIN capture = Process!Streams
       /\ DOMAIN spool = Process!Streams /\ DOMAIN pipe = Process!Streams
       /\ capture[s].count \in Nat /\ pipe[s] \in Nat
   BY DEF ProcessInv, ProcessTyped
 <2>4. Counted(s)'
  <3>1. /\ capture'[s].count = capture[s].count + k /\ pipe'[s] = pipe[s] - k
        /\ capture'[s].kept = Process!Least(capture'[s].count, ask.keep)
        /\ capture'[s].truncated <=> capture'[s].count > ask.keep
        /\ capture'[s].error = IF capture'[s].count > ask.total THEN "hard-limit-exceeded" ELSE "none"
        /\ drain'[s] = IF capture'[s].count > ask.total THEN "done" ELSE "reading"
   <4> DEFINE over == capture[s].count + k > ask.total
              over_ == capture[s].count + k > ask.keep
   <4>1. /\ pipe'[s] = pipe[s] - k
         /\ capture'[s] = [count |-> capture[s].count + k,
                           kept |-> Process!Least(capture[s].count + k, ask.keep),
                           truncated |-> over_,
                           error |-> IF over THEN "hard-limit-exceeded" ELSE "none"]
         /\ drain'[s] = IF over THEN "done" ELSE "reading"
     BY <2>1 DEF ReadOf
   <4>2. capture'[s].count = capture[s].count + k BY <4>1
   <4>3. capture'[s].truncated = over_ /\ over_ = (capture'[s].count > ask.keep) BY <4>1, <4>2
   <4>4. capture'[s].kept = Process!Least(capture[s].count + k, ask.keep) BY <4>1
   <4>5. over = (capture'[s].count > ask.total) BY <4>2
   <4>6. capture'[s].error = IF over THEN "hard-limit-exceeded" ELSE "none" BY <4>1
   <4>7. capture'[s].truncated <=> capture'[s].count > ask.keep BY <4>3
   <4> HIDE DEF over, over_
   <4> QED BY <4>1, <4>2, <4>4, <4>5, <4>6, <4>7
  <3>2. ask' = ask /\ written' = written /\ child' = child /\ child # "none"
    BY <1>6, <2>1, <2>2, ReadEffect DEF ReadOf, Counted
  <3> QED BY <2>2, <2>3, <3>1, <3>2 DEF Counted, Process!Least
 <2>5. ASSUME NEW t \in Process!Streams, t # s PROVE Counted(t)'
   BY <1>6, <2>2, <2>3, <2>5, ReadEffect DEF Counted, Process!Least
 <2> QED BY <2>4, <2>5
<1>7. ASSUME NEW s \in Process!Streams, Process!EndOfStream(s) PROVE \A t \in Process!Streams : Counted(t)'
 <2>1. /\ drain[s] = "reading" /\ pipe[s] = 0 /\ Process!Writers(s) = {} /\ drain' = [drain EXCEPT ![s] = "done"]
       /\ UNCHANGED <<ask, cut, child, helper, written, pipe, capture>>
   BY <1>7 DEF Process!EndOfStream, Process!main, Process!world
 <2>2. \A t \in Process!Streams : Counted(t) /\ (Process!Writers(t))' = Process!Writers(t)
   BY <2>1 DEF ProcessInv, Process!Writers
 <2>3. DOMAIN drain = Process!Streams BY DEF ProcessInv, ProcessTyped
 <2> QED BY <2>1, <2>2, <2>3 DEF Counted
<1>8. ASSUME NEW s \in Process!Streams, Process!Write(s) PROVE \A t \in Process!Streams : Counted(t)'
 <2>1. \A t \in Process!Streams : Counted(t) /\ (Process!Writers(t))' = Process!Writers(t)
   BY <1>8 DEF ProcessInv, Process!Writers, Process!Write, Process!world
 <2>2. /\ Process!Writers(s) # {}
       /\ written' = [written EXCEPT ![s] = written[s] + 1] /\ pipe' = [pipe EXCEPT ![s] = pipe[s] + 1]
       /\ UNCHANGED <<ask, cut, child, drain, capture>>
       /\ pc[1] \in {"poll", "errors", "deadline", "term", "kill", "join"} \/ drain[s] = "reading"
   BY <1>8 DEF Process!Write, Process!main, Process!world
 <2>3. /\ DOMAIN written = Process!Streams /\ DOMAIN pipe = Process!Streams
       /\ capture[s].count \in Nat /\ pipe[s] \in Nat /\ written[s] \in Nat
   BY DEF ProcessInv, ProcessTyped
 <2>4. drain[s] # "idle" BY <2>1, <2>2 DEF ProcessInv, Watched, Watching, Counted
 <2>5. Counted(s)' BY <2>1, <2>2, <2>3, <2>4 DEF Counted, Process!Least
 <2>6. ASSUME NEW t \in Process!Streams, t # s PROVE Counted(t)' BY <2>1, <2>2, <2>3, <2>6 DEF Counted, Process!Least
 <2> QED BY <2>5, <2>6
<1>9. ASSUME NEW s \in Process!Streams, Process!DrainFails(s) PROVE \A t \in Process!Streams : Counted(t)'
 <2>1. /\ drain[s] = "reading" /\ drain' = [drain EXCEPT ![s] = "done"]
       /\ capture' = [capture EXCEPT ![s].error = "stream-drain-failed"]
       /\ UNCHANGED <<ask, cut, child, helper, written, pipe>>
   BY <1>9 DEF Process!DrainFails, Process!main, Process!world
 <2>2. \A t \in Process!Streams : Counted(t) /\ (Process!Writers(t))' = Process!Writers(t)
   BY <2>1 DEF ProcessInv, Process!Writers
 <2>3. /\ DOMAIN drain = Process!Streams /\ DOMAIN capture = Process!Streams
       /\ capture[s] \in [count : Nat, kept : Nat, truncated : BOOLEAN, error : CaptureErrors]
   BY DEF ProcessInv, ProcessTyped
 <2>4. /\ capture'[s].count = capture[s].count /\ capture'[s].kept = capture[s].kept
       /\ capture'[s].truncated = capture[s].truncated /\ capture'[s].error = "stream-drain-failed"
       /\ \A t \in Process!Streams : t # s => capture'[t] = capture[t] /\ drain'[t] = drain[t]
       /\ drain'[s] = "done"
   BY <2>1, <2>3
 <2>5. ASSUME NEW t \in Process!Streams PROVE Counted(t)'
  <3>1. CASE t # s BY <2>1, <2>2, <2>4, <3>1 DEF Counted
  <3>2. CASE t = s BY <2>1, <2>2, <2>4, <3>2 DEF Counted
  <3> QED BY <3>1, <3>2
 <2> QED BY <2>5
<1>10. CASE Process!Spawn
  BY <1>10 DEF ProcessInv, Process!Spawn, Process!At, Process!Goto, Process!main, Process!world, Process!captured,
    ProcessTyped, Stages, Opening, Watching, Closing, Outcomes, CaptureErrors, SpoolErrors, Files, Watched, Counted,
    Process!Writers, Process!Least
<1>11. CASE Process!SpawnFails
  BY <1>11, CountedUntouched DEF Process!SpawnFails, Process!captured, Process!world, Process!main
<1>12. CASE Process!Poll BY <1>12, CountedUntouched DEF Process!Poll, Process!captured, Process!world, Process!main
<1>13. CASE Process!CheckErrors
  BY <1>13, CountedUntouched DEF Process!CheckErrors, Process!captured, Process!world, Process!main
<1>14. CASE Process!CheckDeadline
  BY <1>14, CountedUntouched DEF Process!CheckDeadline, Process!captured, Process!world, Process!main
<1>15. CASE Process!Interrupt BY <1>15, CountedUntouched DEF Process!Interrupt, Process!captured, Process!world, Process!main
<1>16. CASE Process!Term BY <1>16, CountedUntouched DEF Process!Term, Process!captured, Process!world, Process!main
<1>17. CASE Process!KillGroup
  BY <1>17 DEF ProcessInv, Process!KillGroup, Process!Killed, Process!At, Process!Goto, Process!main, Process!world,
    Process!captured, ProcessTyped, Stages, Opening, Watching, Closing, Outcomes, CaptureErrors, SpoolErrors, Files, Watched,
    Counted, Process!Writers, Process!Least
<1>18. CASE Process!Join BY <1>18, CountedUntouched DEF Process!Join, Process!captured, Process!world, Process!main
<1>19. CASE Process!Fork
  BY <1>19 DEF ProcessInv, Process!Fork, Process!main, Process!world, Process!captured, ProcessTyped, Stages, Opening,
    Watching, Closing, Outcomes, CaptureErrors, SpoolErrors, Files, Watched, Counted, Process!Writers, Process!Least
<1>20. CASE Process!ChildEnds
  BY <1>20 DEF ProcessInv, Process!ChildEnds, Process!main, Process!world, Process!captured, ProcessTyped, Stages,
    Opening, Watching, Closing, Outcomes, CaptureErrors, SpoolErrors, Files, Watched, Counted, Process!Writers, Process!Least
<1>21. CASE Process!HelperEnds
  BY <1>21 DEF ProcessInv, Process!HelperEnds, Process!main, Process!world, Process!captured, ProcessTyped, Stages,
    Opening, Watching, Closing, Outcomes, CaptureErrors, SpoolErrors, Files, Watched, Counted, Process!Writers, Process!Least
<1>22. CASE Process!Deadline
  BY <1>22, CountedUntouched DEF Process!Deadline, Process!captured, Process!world, Process!main
<1>23. CASE Process!Done
  BY <1>23, CountedUntouched DEF Process!Done, Process!captured, Process!world, Process!vars, Process!main
<1>24. CASE Process!CutBefore
  BY <1>24 DEF ProcessInv, Process!CutBefore, Process!At, Process!Goto, Process!main, Process!world, Process!captured,
    ProcessTyped, Stages, Opening, Watching, Closing, Watched, Counted, Process!Writers, Process!Least
<1>25. CASE Process!CutAfter BY <1>25, CountedUntouched DEF Process!CutAfter, Process!captured, Process!world
<1> QED BY <1>1, <1>2, <1>3, <1>4, <1>5, <1>6, <1>7, <1>8, <1>9, <1>10, <1>11, <1>12, <1>13, <1>14, <1>15, <1>16,
     <1>17, <1>18, <1>19, <1>20, <1>21, <1>22, <1>23, <1>24, <1>25
     DEF Process!Next, Process!Step, Process!Drain, Process!World

\* A step of the publication leaves each spool where the caller is.
LEMMA ClosingSpooled ==
  ASSUME ProcessInv, NEW s \in Process!Streams, Process!Flush(s) \/ Process!Link(s) \/ Process!Settle(s)
  PROVE  \A t \in Process!Streams : Spooled(t)'
<1>1. PICK new \in SpoolType : /\ spool' = [spool EXCEPT ![s] = new] /\ ClosingOf(s, new)
                               /\ new.bytes = spool[s].bytes
  BY ClosingEffect
<1>2. /\ UNCHANGED <<ask, raised, cut, drain, capture>> /\ pc[1] \in Closing /\ pc[2] = s /\ pc = <<pc[1], s>>
      /\ DOMAIN spool = Process!Streams /\ ~cut /\ Process!Streams = {"out", "err"}
      /\ \A r \in Process!Streams : Spooled(r) /\ drain[r] # "reading"
  BY ClosingEffect DEF ProcessInv, ProcessTyped, Watched, Closing, Process!Streams
<1>3. \/ pc' = <<"link", s>> \/ pc' = <<"settle", s>>
      \/ s = "out" /\ pc' = <<"flush", "err">>
      \/ s = "err" /\ pc' = <<"end", "out">>
  BY <1>1, <1>2 DEF ClosingOf
<1>4. Unopened' = {} /\ Unopened = {} BY <1>2, <1>3 DEF Unopened, Closing
<1>5. Settled = (IF s = "err" THEN {"out"} ELSE {}) BY <1>2 DEF Settled, Closing
<1>6. Settled' = IF pc'[1] \in {"link", "settle"} THEN Settled ELSE IF s = "out" THEN {"out"} ELSE {"out", "err"}
  BY <1>2, <1>3, <1>5 DEF Settled, Closing
<1>7. pc'[1] \in Closing \cup {"end"} BY <1>3 DEF Closing
<1>8. ASSUME NEW r \in Process!Streams, r # s PROVE Spooled(r)'
 <2>1. spool'[r] = spool[r] BY <1>1, <1>2, <1>8
 <2>2. Process!Told(r)' = Process!Told(r) BY <1>2, <2>1 DEF Process!Told
 <2>3. pc'[2] = r => pc'[1] \in {"flush", "end"} BY <1>2, <1>3, <1>8
 <2>4. pc # <<"settle", r>> /\ pc # <<"link", r>> /\ pc' # <<"settle", r>> /\ pc' # <<"link", r>> BY <1>2, <1>3, <1>8
 <2>5. (r \in Settled <=> r \in Settled') BY <1>2, <1>5, <1>6, <1>8
 <2>6. pc[1] # "end" BY <1>2 DEF Closing
 <2> QED BY <1>2, <1>4, <1>7, <2>1, <2>2, <2>4, <2>5, <2>6 DEF Spooled
<1>9. Spooled(s)'
 <2>1. spool'[s] = new /\ pc[1] # "end" BY <1>1, <1>2 DEF Closing
 <2>2. Spooled(s) BY <1>2
 <2>3. s \notin Settled BY <1>5
 <2>4. s \notin ask.spools => spool[s] = Process!NoSpool BY <2>2 DEF Spooled
 <2>5. new.file = "none" /\ s \in ask.spools => new.error # "none" BY <1>1, <1>4, <2>1, <2>2 DEF ClosingOf, Spooled
 <2>6. CASE pc' = <<"link", s>>
   BY <1>1, <1>2, <1>4, <1>6, <2>1, <2>2, <2>3, <2>6 DEF ClosingOf, Spooled, Process!Told, Named
 <2>7. CASE pc' = <<"settle", s>>
  <3>1. pc[1] = "link" /\ new.file = "linked" /\ new.error = spool[s].error BY <1>1, <1>2, <2>7 DEF ClosingOf
  <3>2. spool[s].file = "temporary" /\ spool[s].error = "none" BY <1>2, <2>2, <3>1 DEF Spooled
  <3>3. s \in ask.spools BY <2>4, <3>2 DEF Process!NoSpool
  <3>4. s \notin Settled' BY <1>6, <2>3, <2>7
  <3> QED BY <1>1, <1>2, <1>4, <1>7, <2>1, <2>2, <2>7, <3>1, <3>2, <3>3, <3>4 DEF Spooled, Named
 <2>8. CASE pc' = IF s = "out" THEN <<"flush", "err">> ELSE <<"end", "out">>
  <3>1. /\ new.file \notin {"temporary", "linked"} /\ (new.error # "none" \/ new = spool[s] \/ new.file = "published")
        /\ new.file = "published" => new.error = "none"
        /\ new.file \in Named => pc[1] = "settle"
    BY <1>1, <1>2, <2>8 DEF ClosingOf
  <3>2. s \in Settled' /\ pc' # <<"settle", s>> /\ pc' # <<"link", s>> BY <1>2, <1>6, <2>8
  <3>3. new.file \in Named => spool[s].bytes = capture[s].count BY <1>2, <2>2, <3>1 DEF Spooled, Named
  <3>4. s \notin ask.spools => new = Process!NoSpool
   <4> HAVE s \notin ask.spools
   <4>1. spool[s] = Process!NoSpool BY <2>4
   <4>2. pc[1] = "flush" BY <1>2, <2>2, <4>1 DEF Spooled, Process!NoSpool, Closing
   <4>3. Process!Flush(s) BY <4>2 DEF Process!Flush, Process!Link, Process!Settle, Process!At
   <4>4. spool' = [spool EXCEPT ![s] = spool[s]]
     BY <1>2, <4>1, <4>3 DEF Process!Flush, Process!NoSpool, Process!Discarded
   <4> QED BY <1>1, <1>2, <2>1, <4>1, <4>4
  <3>5. new.file \in {"gone", "left", "named", "both"} => Process!Told(s)'
    BY <1>2, <2>1, <2>2, <3>1 DEF Process!Told, Spooled
  <3> QED BY <1>1, <1>2, <1>4, <1>7, <2>1, <2>2, <2>5, <3>1, <3>2, <3>3, <3>4, <3>5 DEF Spooled, Named
 <2> QED BY <1>3, <2>6, <2>7, <2>8
<1> QED BY <1>8, <1>9

\* A spool goes from temporary to published or gone; an error on the way removes it.
LEMMA SpooledStep ==
  ASSUME ProcessInv, Process!Next
  PROVE  \A t \in Process!Streams : Spooled(t)'
<1> USE OperationsAssumption DEF Process!BoundsAssumption, Process!Streams
<1> USE DEF ProcessInv, Process!main, Process!world, Process!captured, ProcessTyped, Stages, Opening, Watching,
      Closing, Outcomes, CaptureErrors, SpoolErrors, Files, Watched, Counted, Spooled, Settled, Unopened,
      Process!NoSpool, Process!Told, Files, Named
<1>1. ASSUME NEW s \in Process!Streams, Process!Open(s) PROVE \A t \in Process!Streams : Spooled(t)'
 <2>1. /\ pc = <<"open", s>> /\ pc' = IF s = "out" THEN <<"open", "err">> ELSE <<"spawn", "out">>
       /\ UNCHANGED <<ask, raised, cut, capture, drain>>
   BY <1>1 DEF Process!Open, Process!At, Process!Goto
 <2>2. spool[s] = Process!NoSpool /\ capture[s].count \in Nat BY <2>1
 <2>3. \/ s \notin ask.spools /\ UNCHANGED spool
       \/ s \in ask.spools /\ spool' = [spool EXCEPT ![s].file = "temporary"]
       \/ s \in ask.spools /\ spool' = [spool EXCEPT ![s].error = "spool-open-failed"]
   BY <1>1 DEF Process!Open
 <2>4. /\ child = "none" /\ ~cut /\ \A r \in Process!Streams : drain[r] = "idle" /\ written[r] = 0 BY <2>1
 <2>5. \A r \in Process!Streams : capture[r].count = 0 BY <2>4
 <2>6. ASSUME NEW r \in Process!Streams, r # s PROVE Spooled(r)'
  <3>1. spool'[r] = spool[r] BY <2>3, <2>6
  <3>2. Spooled(r) /\ spool[r].file \notin Named BY <2>1
  <3>3. (r \in Unopened' => r \in Unopened) /\ (r \notin Unopened' => r \notin Unopened) /\ Settled' = {} BY <2>1, <2>6
  <3>4. pc' # <<"settle", r>> /\ pc' # <<"link", r>> BY <2>1
  <3> HIDE DEF Unopened, Settled, ProcessInv, ProcessTyped, Watched, Counted
  <3> QED BY <2>1, <2>4, <3>1, <3>2, <3>3, <3>4
 <2>7. Spooled(s)'
  <3>1. s \notin Unopened' /\ Settled' = {} BY <2>1
  <3>2. pc' # <<"settle", s>> /\ pc' # <<"link", s>> BY <2>1
  <3>3. /\ spool'[s].bytes = 0 /\ spool'[s].file \in {"none", "temporary"}
        /\ s \in ask.spools /\ spool'[s].file = "none" => spool'[s].error # "none"
        /\ s \notin ask.spools => spool'[s] = Process!NoSpool
    BY <2>2, <2>3
  <3> HIDE DEF Unopened, Settled, ProcessInv, ProcessTyped, Watched, Counted
  <3> QED BY <2>1, <2>4, <2>5, <3>1, <3>2, <3>3
 <2> QED BY <2>6, <2>7
<1>2. ASSUME NEW s \in Process!Streams, Process!Flush(s) PROVE \A t \in Process!Streams : Spooled(t)' BY <1>2, ClosingSpooled
<1>3. ASSUME NEW s \in Process!Streams, Process!Link(s) PROVE \A t \in Process!Streams : Spooled(t)' BY <1>3, ClosingSpooled
<1>4. ASSUME NEW s \in Process!Streams, Process!Settle(s) PROVE \A t \in Process!Streams : Spooled(t)' BY <1>4, ClosingSpooled
<1>5. ASSUME NEW s \in Process!Streams, Process!OpenRefused(s) PROVE \A t \in Process!Streams : Spooled(t)'
 <2> HIDE DEF Process!main, Process!world, Process!captured, Process!Told
 <2>1. ASSUME NEW r \in Process!Streams PROVE Spooled(r)'
  <3>1. /\ raised' = TRUE /\ pc[1] = "open" /\ pc' = <<"end", "out">> /\ capture' = capture /\ drain' = drain
        /\ spool'[r].bytes = spool[r].bytes /\ spool'[r].error = spool[r].error
        /\ spool'[r].file \in {spool[r].file, "temporary", "gone", "left"}
        /\ spool'[r].file = "temporary" => cut'
        /\ r \notin ask.spools => spool'[r] = spool[r]
        /\ ask' = ask
   <4> HIDE DEF ProcessInv, ProcessTyped, Watched, Counted, Spooled
   <4> QED BY <1>5, RefusalEffect
  <3>2. /\ spool[r].file \notin Named /\ spool[r].bytes <= capture[r].count
        /\ drain[r] = "idle" /\ written[r] = 0 /\ capture[r].count \in Nat /\ pipe[r] \in Nat
        /\ spool[r].bytes \in Nat
        /\ r \notin ask.spools => spool[r] = Process!NoSpool
    BY <3>1
  <3>3. capture[r].count = 0 /\ spool[r].bytes = 0 BY <3>2
  <3>4. Unopened' = {} /\ pc' # <<"settle", r>> /\ pc' # <<"link", r>> BY <3>1
  <3>5. spool'[r].file \notin Named BY <3>1, <3>2
  <3> HIDE DEF ProcessInv, ProcessTyped, Watched, Counted, Unopened, Settled
  <3> QED BY <3>1, <3>2, <3>3, <3>4, <3>5
 <2> QED BY <2>1
<1>6. ASSUME NEW s \in Process!Streams, Process!Read(s) PROVE \A t \in Process!Streams : Spooled(t)'
 <2>1. PICK k \in Nat \ {0}, ok \in BOOLEAN, ul \in BOOLEAN : ReadOf(s, k, ok, ul) BY <1>6, ReadEffect
 <2> DEFINE sp == Process!Spooled(spool[s], k, ok)
 <2>2. spool[s] \in SpoolType BY DEF SpoolType
 <2>3. /\ sp \in SpoolType /\ sp.file = spool[s].file
       /\ spool[s].file # "temporary" => sp = spool[s]
       /\ sp.error = "none" => spool[s].error = "none"
       /\ spool[s].error # "none" => sp.error = spool[s].error
       /\ sp.bytes \in {spool[s].bytes, spool[s].bytes + k}
       /\ spool[s].file = "temporary" /\ sp.error = "none" => sp.bytes = spool[s].bytes + k
       /\ Process!Discarded(sp, ul) \in SpoolType
       /\ Process!Discarded(sp, ul).bytes = sp.bytes /\ Process!Discarded(sp, ul).error = sp.error
       /\ spool[s].file = "temporary" => Process!Discarded(sp, ul).file = IF ul THEN "gone" ELSE "left"
       /\ spool[s].file # "temporary" => Process!Discarded(sp, ul) = spool[s]
  <3> HIDE DEF ProcessInv, ProcessTyped
  <3> QED BY <2>2, ChunkIsSpooled
 <2> DEFINE over == capture[s].count + k > ask.total
 <2>4. /\ drain[s] = "reading" /\ drain'[s] = IF over THEN "done" ELSE "reading"
       /\ capture'[s].count = capture[s].count + k
       /\ capture'[s].error = IF over THEN "hard-limit-exceeded" ELSE "none"
       /\ spool'[s] = IF over THEN Process!Discarded(sp, ul) ELSE sp
       /\ k \in Nat /\ capture[s].count \in Nat /\ spool[s].bytes \in Nat
   BY <2>1, <2>2 DEF ReadOf, SpoolType
 <2>5. /\ UNCHANGED <<ask, pc, raised, cut>> /\ pc = <<pc[1], pc[2]>>
       /\ \A t \in Process!Streams : t # s => spool'[t] = spool[t] /\ capture'[t] = capture[t] /\ drain'[t] = drain[t]
   BY <1>6, ReadEffect
 <2> HIDE DEF sp, over
 <2>6. ASSUME NEW t \in Process!Streams, t # s PROVE Spooled(t)' BY <2>5, <2>6
 <2>7. spool[s].file \notin Named /\ s \notin Unopened BY <2>4
 <2>8. Spooled(s)'
  <3>1. spool'[s].bytes = sp.bytes /\ spool'[s].error = sp.error BY <2>3, <2>4
  <3>2. /\ spool[s].file = "temporary" /\ over => spool'[s].file \in {"gone", "left"}
        /\ spool[s].file # "temporary" \/ ~over => spool'[s].file = spool[s].file
        /\ spool[s].file # "temporary" => spool'[s] = spool[s]
    BY <2>3, <2>4
  <3>3. over => capture'[s].error # "none" BY <2>4
  <3>4. Spooled(s) /\ spool[s].bytes <= capture[s].count /\ pc # <<"link", s>> /\ pc # <<"settle", s>> BY <2>4
  <3> QED BY <2>3, <2>4, <2>5, <2>7, <3>1, <3>2, <3>3, <3>4
 <2> QED BY <2>6, <2>8
<1>7. ASSUME NEW s \in Process!Streams, Process!EndOfStream(s) PROVE \A t \in Process!Streams : Spooled(t)'
  BY <1>7 DEF Process!EndOfStream
<1>8. ASSUME NEW s \in Process!Streams, Process!Write(s) PROVE \A t \in Process!Streams : Spooled(t)'
  BY <1>8 DEF Process!Write
<1>9. ASSUME NEW s \in Process!Streams, Process!DrainFails(s) PROVE \A t \in Process!Streams : Spooled(t)'
  BY <1>9 DEF Process!DrainFails, Process!OneMore, Process!Costs, Process!Cost
<1>10. CASE Process!Spawn BY <1>10 DEF Process!Spawn, Process!At, Process!Goto
<1>11. CASE Process!SpawnFails BY <1>11 DEF Process!SpawnFails, Process!OneMore, Process!Costs, Process!Cost, Process!At, Process!Goto
<1>12. CASE Process!Poll BY <1>12 DEF Process!Poll, Process!At, Process!Goto
<1>13. CASE Process!CheckErrors BY <1>13 DEF Process!CheckErrors, Process!At, Process!Goto
<1>14. CASE Process!CheckDeadline BY <1>14 DEF Process!CheckDeadline, Process!At, Process!Goto
<1>15. CASE Process!Interrupt BY <1>15 DEF Process!Interrupt, Process!OneMore, Process!Costs, Process!Cost, Process!Goto
<1>16. CASE Process!Term BY <1>16 DEF Process!Term, Process!At, Process!Goto
<1>17. CASE Process!KillGroup BY <1>17 DEF Process!KillGroup, Process!Killed, Process!At, Process!Goto
<1>18. CASE Process!Join BY <1>18 DEF Process!Join, Process!Promoted, Process!At, Process!Goto
<1>19. CASE Process!Fork BY <1>19 DEF Process!Fork
<1>20. CASE Process!ChildEnds BY <1>20 DEF Process!ChildEnds
<1>21. CASE Process!HelperEnds BY <1>21 DEF Process!HelperEnds
<1>22. CASE Process!Deadline BY <1>22 DEF Process!Deadline
<1>23. CASE Process!Done BY <1>23 DEF Process!Done, Process!vars
<1>24. CASE Process!CutBefore BY <1>24 DEF Process!CutBefore, Process!OneMore, Process!At, Process!Goto
<1>25. CASE Process!CutAfter
 <2>1. /\ pc[1] \in {"join"} \cup Closing /\ cut' = TRUE /\ raised' = TRUE /\ pc' = <<"end", "out">> /\ ~cut
       /\ UNCHANGED <<ask, drain, capture>> /\ pc = <<pc[1], pc[2]>> /\ pc[2] \in Process!Streams
       /\ \/ UNCHANGED spool
          \/ pc[1] = "settle" /\ spool' = [spool EXCEPT ![pc[2]].file = "named"]
   BY <1>25 DEF Process!CutAfter, Process!Goto
 <2>2. ASSUME NEW t \in Process!Streams PROVE Spooled(t)'
  <3>1. CASE spool'[t] = spool[t] BY <2>1, <3>1
  <3>2. CASE pc = <<"settle", t>> /\ spool'[t] = [spool[t] EXCEPT !.file = "named"]
   <4>1. spool[t].file = "linked" /\ spool[t] \in SpoolType BY <3>2 DEF SpoolType
   <4> QED BY <2>1, <3>2, <4>1 DEF SpoolType
  <3> QED BY <2>1, <3>1, <3>2
 <2> QED BY <2>2
<1> HIDE DEF ProcessInv, Process!main, Process!world, Process!captured, ProcessTyped, Stages, Opening, Watching,
      Closing, Outcomes, CaptureErrors, SpoolErrors, Files, Watched, Counted, Spooled, Settled, Unopened,
      Process!NoSpool, Process!Told, Files, Named
<1> QED BY <1>1, <1>2, <1>3, <1>4, <1>5, <1>6, <1>7, <1>8, <1>9, <1>10, <1>11, <1>12, <1>13, <1>14, <1>15, <1>16,
     <1>17, <1>18, <1>19, <1>20, <1>21, <1>22, <1>23, <1>24, <1>25
     DEF Process!Next, Process!Step, Process!Drain, Process!World

\* Every name that a step leaves behind is paid for in the same step.
LEMMA PaidStep ==
  ASSUME ProcessInv, Process!Next
  PROVE  Paid'
<1> USE DEF Process!Streams
<1> DEFINE Lf(r) == Process!Leftover(spool[r])
<1>1. /\ trouble \in Nat /\ MaxProcessTrouble \in Nat /\ \A r \in Process!Streams : Lf(r) \in Nat
      /\ \A r \in Process!Streams : spool[r] \in SpoolType /\ spool'[r] \in SpoolType
      /\ DOMAIN spool = Process!Streams /\ DOMAIN spool' = Process!Streams
  BY ProcessTypedStep, OperationsAssumption
  DEF ProcessInv, ProcessTyped, SpoolType, Process!Leftover, Process!BoundsAssumption
<1>2. ~cut => Lf("out") + Lf("err") <= trouble BY DEF ProcessInv, Paid
<1>3. cut => cut'
  BY DEF Process!Next, Process!Step, Process!Drain, Process!World, Process!Open, Process!OpenRefused, Process!Flush,
    Process!Link, Process!Settle, Process!Read, Process!EndOfStream, Process!Write, Process!DrainFails,
    Process!Spawn, Process!SpawnFails, Process!Poll, Process!CheckErrors, Process!CheckDeadline, Process!Interrupt,
    Process!CutBefore, Process!CutAfter, Process!Term, Process!KillGroup, Process!Join, Process!Fork,
    Process!ChildEnds, Process!HelperEnds, Process!Deadline, Process!Done, Process!main, Process!vars
<1> SUFFICES ASSUME ~cut' PROVE Lf("out")' + Lf("err")' <= trouble' BY DEF Paid
<1>4. ASSUME NEW s \in Process!Streams, Process!Flush(s) \/ Process!Link(s) \/ Process!Settle(s)
      PROVE  Lf("out")' + Lf("err")' <= trouble'
 <2>1. PICK new \in SpoolType : /\ spool' = [spool EXCEPT ![s] = new]
                                /\ Process!Leftover(new) + trouble <= Lf(s) + trouble'
   BY <1>4, ClosingEffect
 <2>2. trouble' \in trouble .. MaxProcessTrouble BY <1>4, ClosingEffect
 <2>3. Lf(s)' = Process!Leftover(new) /\ Lf(s)' \in Nat BY <1>1, <2>1 DEF Process!Leftover
 <2>4. \A r \in Process!Streams : r # s => Lf(r)' = Lf(r) BY <1>1, <2>1 DEF Process!Leftover
 <2> HIDE DEF Lf
 <2> QED BY <1>1, <1>2, <1>3, <2>1, <2>2, <2>3, <2>4
<1>5. ASSUME NEW s \in Process!Streams, Process!OpenRefused(s) PROVE Lf("out")' + Lf("err")' <= trouble'
 <2>1. /\ Lf("err")' = 0 /\ trouble' \in trouble .. MaxProcessTrouble
       /\ Lf("out")' = 0 \/ (Lf("out")' = 1 /\ trouble' > trouble)
   BY <1>5, RefusalEffect
 <2> HIDE DEF Lf
 <2> QED BY <1>1, <2>1
<1>6. ASSUME NEW s \in Process!Streams, Process!Read(s) PROVE Lf("out")' + Lf("err")' <= trouble'
 <2>1. PICK k \in Nat \ {0}, ok \in BOOLEAN, ul \in BOOLEAN : ReadOf(s, k, ok, ul) BY <1>6, ReadEffect
 <2> DEFINE sp == Process!Spooled(spool[s], k, ok)
 <2>2. /\ sp.file = spool[s].file
       /\ spool[s].file = "temporary" => Process!Discarded(sp, ul).file = IF ul THEN "gone" ELSE "left"
       /\ spool[s].file # "temporary" => Process!Discarded(sp, ul) = spool[s]
  <3>1. spool[s] \in SpoolType BY <1>1 DEF SpoolType
  <3> QED BY <3>1, ChunkIsSpooled
 <2> HIDE DEF sp
 <2>3. /\ spool'[s] \in {sp, Process!Discarded(sp, ul)} /\ trouble' \in trouble .. MaxProcessTrouble
       /\ spool'[s] # sp /\ ~ul => trouble' > trouble
   BY <2>1 DEF ReadOf, sp
 <2>4. Lf(s)' = Lf(s) \/ (Lf(s) = 0 /\ Lf(s)' \in {0, 1} /\ (Lf(s)' = 1 => trouble' > trouble))
   BY <2>2, <2>3 DEF Process!Leftover
 <2>5. \A r \in Process!Streams : r # s => Lf(r)' = Lf(r) BY <1>1, <1>6, ReadEffect DEF Process!Leftover
 <2> HIDE DEF Lf
 <2> QED BY <1>1, <1>2, <1>3, <2>3, <2>4, <2>5
<1>7. ASSUME NEW s \in Process!Streams, Process!Open(s) PROVE Lf("out")' + Lf("err")' <= trouble'
 <2>1. spool[s] = Process!NoSpool BY <1>7 DEF ProcessInv, Spooled, Unopened, Process!Open, Process!At
 <2>2. \/ UNCHANGED spool \/ spool' = [spool EXCEPT ![s].file = "temporary"]
       \/ spool' = [spool EXCEPT ![s].error = "spool-open-failed"]
   BY <1>7 DEF Process!Open
 <2>3. trouble' >= trouble /\ trouble' \in Nat BY <1>1, <1>7 DEF Process!Open, Process!OneMore, Process!Costs
 <2>4. \A r \in Process!Streams : Lf(r)' = Lf(r) BY <1>1, <2>1, <2>2 DEF Process!Leftover, Process!NoSpool
 <2> HIDE DEF Lf
 <2> QED BY <1>1, <1>2, <1>3, <2>3, <2>4
<1>8. ASSUME UNCHANGED spool, trouble' >= trouble, trouble' \in Nat PROVE Lf("out")' + Lf("err")' <= trouble'
 <2>1. \A r \in Process!Streams : Lf(r)' = Lf(r) BY <1>8 DEF Process!Leftover
 <2> HIDE DEF Lf
 <2> QED BY <1>1, <1>2, <1>3, <1>8, <2>1
<1>9. CASE Process!CutBefore \/ Process!CutAfter BY <1>9 DEF Process!CutBefore, Process!CutAfter
<1>10. CASE \/ Process!Spawn \/ Process!SpawnFails \/ Process!Poll \/ Process!CheckErrors
            \/ Process!CheckDeadline \/ Process!Interrupt \/ Process!Term \/ Process!KillGroup
            \/ Process!Join \/ Process!Fork \/ Process!ChildEnds \/ Process!HelperEnds
            \/ Process!Deadline \/ Process!Done
            \/ \E s \in Process!Streams : Process!EndOfStream(s) \/ Process!Write(s) \/ Process!DrainFails(s)
 <2>1. UNCHANGED spool
   BY <1>10 DEF Process!Spawn, Process!SpawnFails, Process!Poll, Process!CheckErrors, Process!CheckDeadline,
     Process!Interrupt, Process!Term, Process!KillGroup, Process!Join, Process!Fork, Process!ChildEnds,
     Process!HelperEnds, Process!Deadline, Process!Done, Process!EndOfStream, Process!Write, Process!DrainFails,
     Process!vars
 <2>2. UNCHANGED trouble \/ Process!OneMore
   BY <1>10 DEF Process!Spawn, Process!SpawnFails, Process!Poll, Process!CheckErrors, Process!CheckDeadline,
     Process!Interrupt, Process!Term, Process!KillGroup, Process!Join, Process!Fork, Process!ChildEnds,
     Process!HelperEnds, Process!Deadline, Process!Done, Process!EndOfStream, Process!Write, Process!DrainFails,
     Process!vars
 <2> HIDE DEF Lf
 <2> QED BY <1>1, <1>8, <2>1, <2>2 DEF Process!OneMore, Process!Costs
<1> HIDE DEF Lf
<1> QED BY <1>4, <1>5, <1>6, <1>7, <1>9, <1>10 DEF Process!Next, Process!Step, Process!Drain, Process!World

\* Before the child there is nothing to account for.
LEMMA ProcessStarts == ASSUME Process!Init PROVE ProcessInv
<1> USE DEF Process!Init, Process!Streams, Process!NoSpool
<1>1. ask.total \in Nat /\ ask.keep \in Nat /\ MaxBytes \in Nat /\ PipeBytes \in Nat /\ MaxProcessTrouble \in Nat
  BY OperationsAssumption DEF Process!BoundsAssumption
<1>2. ProcessTyped
 <2>1. capture \in [Process!Streams -> CaptureType] /\ spool \in [Process!Streams -> SpoolType]
   BY DEF CaptureType, SpoolType, CaptureErrors, SpoolErrors, Files
 <2>2. written \in [Process!Streams -> 0 .. MaxBytes] /\ pipe \in [Process!Streams -> 0 .. PipeBytes] BY <1>1
 <2>3. helper \in [life : {"none", "running", "gone"}, grouped : BOOLEAN, pipes : SUBSET Process!Streams] OBVIOUS
 <2>4. pc \in Stages \X Process!Streams BY DEF Stages, Opening
 <2>5. drain \in [Process!Streams -> {"idle", "reading", "done"}] /\ trouble \in 0 .. MaxProcessTrouble BY <1>1
 <2>6. /\ ask \in [timeout : BOOLEAN, total : Limits, keep : Keeps, spools : SUBSET Process!Streams]
       /\ child = "none" /\ outcome = "none" /\ termed = FALSE /\ late = FALSE /\ raised = FALSE /\ cut = FALSE
   OBVIOUS
 <2> HIDE DEF Process!Init
 <2> QED BY <2>1, <2>2, <2>3, <2>4, <2>5, <2>6 DEF ProcessTyped, Outcomes, CaptureType, SpoolType
<1>3. Watched BY DEF Watched, Opening, Watching, Closing
<1>4. \A s \in Process!Streams : Counted(s) BY <1>1 DEF Counted, Process!Least
<1>5. \A s \in Process!Streams : Spooled(s) BY DEF Spooled, Unopened, Settled, Closing, Named
<1>6. Paid BY DEF Paid, Process!Leftover
<1> QED BY <1>2, <1>3, <1>4, <1>5, <1>6 DEF ProcessInv

\* No step of run_process breaks the invariant.
LEMMA ProcessKept == ASSUME ProcessInv, Process!Next PROVE ProcessInv'
BY ProcessTypedStep, WatchedStep, CountedStep, SpooledStep, PaidStep DEF ProcessInv, Process!Streams

\* Nor does a step that changes none of its variables.
LEMMA ProcessStutters == ASSUME ProcessInv, UNCHANGED Process!vars PROVE ProcessInv'
BY DEF Process!vars, Process!Streams, Process!NoSpool, ProcessInv, ProcessTyped, Watched, Counted, Spooled, Settled,
  Unopened, Paid, Process!Leftover, Process!Writers, Process!Least, Process!CaptureError, Process!Told

----------------------------------------
(* What the invariant of run_process says *)

\* What is counted was written.
LEMMA CountIsBounded ==
  ASSUME ProcessInv, NEW s \in Process!Streams
  PROVE  /\ capture[s].count \in 0 .. MaxBytes /\ capture[s].kept \in 0 .. MaxBytes
         /\ capture[s].kept <= ask.keep /\ spool[s].bytes \in 0 .. MaxBytes
<1>1. /\ capture[s].count \in Nat /\ pipe[s] \in Nat /\ written[s] \in 0 .. MaxBytes /\ spool[s].bytes \in Nat
      /\ MaxBytes \in Nat /\ ask.keep \in Nat
  BY OperationsAssumption DEF ProcessInv, ProcessTyped, Process!BoundsAssumption
<1>2. /\ capture[s].count + pipe[s] = written[s] /\ spool[s].bytes <= capture[s].count
      /\ capture[s].kept = Process!Least(capture[s].count, ask.keep)
  BY DEF ProcessInv, Counted, Spooled
<1> QED BY <1>1, <1>2 DEF Process!Least

\* The ranges of the invariant are those of TypeOK, with the bytes bounded by what was written.
LEMMA ProcessTypes == ASSUME ProcessInv PROVE Process!TypeOK
<1>1. capture \in [Process!Streams -> [count : 0 .. MaxBytes, kept : 0 .. MaxBytes, truncated : BOOLEAN,
                                       error : CaptureErrors]]
  BY CountIsBounded DEF ProcessInv, ProcessTyped
<1>2. spool \in [Process!Streams -> [file : Files, bytes : 0 .. MaxBytes, error : SpoolErrors]]
  BY CountIsBounded DEF ProcessInv, ProcessTyped
<1> QED BY <1>1, <1>2, CountIsBounded DEF Process!TypeOK, ProcessInv, ProcessTyped, Stages, Opening, Watching,
  Closing, Outcomes, CaptureErrors, SpoolErrors, Files

\* Whatever is in order when the call ends
LEMMA EndedStreams ==
  ASSUME ProcessInv, Process!Ended, ~cut, NEW s \in Process!Streams
  PROVE  /\ capture[s].error = "none" => capture[s].count = written[s]
         /\ capture[s].error = "none" /\ child # "none" => Process!Writers(s) = {}
         /\ spool[s].file \in {"none", "published", "gone", "left", "named", "both"}
         /\ spool[s].file = "published" => spool[s].error = "none" /\ spool[s].bytes = capture[s].count
         /\ ~raised /\ s \in ask.spools => spool[s].file = "published" \/ Process!Told(s)
<1>1. pc[1] = "end" /\ s \notin Unopened /\ s \in Settled BY DEF Process!Ended, Process!At, Unopened, Settled
<1>2. ProcessTyped /\ Watched /\ Counted(s) /\ Spooled(s) BY DEF ProcessInv
<1>3. drain[s] # "reading" /\ drain[s] \in {"idle", "reading", "done"} BY <1>1, <1>2 DEF Watched, ProcessTyped
<1>4. capture[s].count \in Nat /\ pipe[s] \in Nat /\ written[s] \in Nat BY <1>2, OperationsAssumption DEF ProcessTyped
<1>5. capture[s].error = "none" => capture[s].count = written[s] BY <1>2, <1>3, <1>4 DEF Counted
<1>6. capture[s].error = "none" /\ child # "none" => Process!Writers(s) = {} BY <1>2, <1>3 DEF Counted
<1>7. spool[s].file \in Files BY <1>2 DEF ProcessTyped
<1>8. spool[s].file \in {"none", "published", "gone", "left", "named", "both"} BY <1>1, <1>2, <1>7 DEF Spooled, Files
<1>9. spool[s].file = "published" => spool[s].error = "none" /\ spool[s].bytes = capture[s].count
  BY <1>2 DEF Spooled, Named
<1>10. ~raised /\ s \in ask.spools => spool[s].file = "published" \/ Process!Told(s)
  BY <1>1, <1>2, <1>8 DEF Spooled, Process!Told
<1> QED BY <1>5, <1>6, <1>8, <1>9, <1>10

\* A clean result is complete.
LEMMA CleanIsComplete == ASSUME ProcessInv PROVE Process!CleanResultIsComplete
<1> SUFFICES ASSUME Process!Returned, outcome = "exited", ~Process!CaptureError, NEW s \in Process!Streams
             PROVE  /\ capture[s].count = written[s] /\ Process!Writers(s) = {}
                    /\ capture[s].kept = Process!Least(written[s], ask.keep)
                    /\ capture[s].truncated <=> written[s] > ask.keep
                    /\ s \in ask.spools => spool[s].file = "published" /\ spool[s].bytes = written[s]
  BY DEF Process!CleanResultIsComplete
<1>1. ~Process!Told(s) /\ capture[s].error = "none" BY DEF Process!CaptureError, Process!Told
<1>2. child # "none" BY DEF ProcessInv, Watched
<1>3. Counted(s) BY DEF ProcessInv
<1>4. ~cut BY DEF Process!Returned, ProcessInv, Watched
<1> QED BY <1>1, <1>2, <1>3, <1>4, EndedStreams DEF Process!Returned, Counted

\* A crossed limit and a killed child are told.
LEMMA CrossingIsReported == ASSUME ProcessInv PROVE Process!LimitIsReported
<1> SUFFICES ASSUME Process!Returned PROVE Process!LimitIsReported BY DEF Process!LimitIsReported
<1>1. pc[1] = "end" /\ Watched /\ outcome \in Outcomes /\ ~cut
  BY DEF Process!Returned, Process!Ended, Process!At, ProcessInv, ProcessTyped, Watched
<1>2. ASSUME NEW s \in Process!Streams, capture[s].count > ask.total PROVE outcome \in {"capture_failed", "timed_out"}
 <2>1. capture[s].error # "none" /\ drain[s] = "done" /\ child # "none" BY <1>2 DEF ProcessInv, Counted
 <2> QED BY <1>1, <2>1 DEF Watched, Outcomes, Closing
<1>3. child = "killed" => outcome \in {"capture_failed", "timed_out"} BY <1>1 DEF Watched
<1> QED BY <1>1, <1>2, <1>3 DEF Process!LimitIsReported, Watched

\* Of a call that was not cut each file is published or gone, or its names are paid for.
LEMMA SettledSpools == ASSUME ProcessInv PROVE Process!SpoolsAreSettled
BY EndedStreams DEF Process!SpoolsAreSettled, Process!Returned, ProcessInv, Paid

\* What has its final name has every byte that was written, unless its capture tells of an error.
LEMMA PublishedSpools == ASSUME ProcessInv PROVE Process!PublishedIsWhole
<1> SUFFICES ASSUME NEW s \in Process!Streams, spool[s].file \in Named, capture[s].error = "none"
             PROVE  spool[s].bytes = written[s]
  BY DEF Process!PublishedIsWhole, Named
<1>1. ProcessTyped /\ Counted(s) /\ Spooled(s) BY DEF ProcessInv
<1>2. drain[s] \in {"idle", "done"} /\ spool[s].bytes = capture[s].count BY <1>1 DEF Spooled, ProcessTyped
<1>3. capture[s].count \in Nat /\ pipe[s] \in Nat /\ written[s] \in Nat BY <1>1 DEF ProcessTyped
<1> QED BY <1>1, <1>2, <1>3 DEF Counted

\* A child is dead when the call returns, and so is what there was of a group that was
\* terminated; a call that raises could not read on, or was cut.
LEMMA GroupIsDead == ASSUME ProcessInv PROVE Process!GroupDiesWithTimeout
<1>1. ProcessTyped /\ Watched /\ \A s \in Process!Streams : Counted(s) BY DEF ProcessInv
<1>2. Process!Returned => child # "running" /\ (termed => ~(helper.life = "running" /\ helper.grouped))
  BY <1>1 DEF Process!Returned, Process!Ended, Process!At, Watched, Closing
<1>3. ASSUME Process!Ended, child = "running", ~cut, NEW s \in Process!Streams PROVE capture[s].error # "none"
 <2>1. drain[s] = "done" BY <1>1, <1>3 DEF Process!Ended, Process!At, Watched, Counted, ProcessTyped
 <2>2. Process!Writers(s) # {} BY <1>3 DEF Process!Writers
 <2> QED BY <1>1, <2>1, <2>2 DEF Counted
<1> QED BY <1>2, <1>3 DEF Process!GroupDiesWithTimeout

\* ProcessInv is an invariant, whatever the child writes and leaves behind and whichever call fails.
THEOREM ProcessInvariance == Spec => [](system = "process" => ProcessInv)
<1>1. Init => (system = "process" => ProcessInv) BY ProcessStarts DEF Init
<1>2. (system = "process" => ProcessInv) /\ [Next]_vars => (system = "process" => ProcessInv)'
 <2> SUFFICES ASSUME system = "process" => ProcessInv, [Next]_vars, system' = "process" PROVE ProcessInv' OBVIOUS
 <2>1. CASE UNCHANGED vars
  <3>1. system = "process" /\ UNCHANGED Process!vars BY <2>1 DEF vars, processVars, Process!vars
  <3> QED BY <3>1, ProcessStutters
 <2>2. CASE Next
  <3>1. Process!Next /\ system = "process" BY <2>2 DEF Next
  <3> QED BY <3>1, ProcessKept
 <2> QED BY <2>1, <2>2
<1> QED BY <1>1, <1>2, PTL DEF Spec

\* ResultIsTruthful: the result of run_process is complete when it is clean, and tells of a limit
\* that was crossed and of a child that was killed.
THEOREM ResultTruthful == Spec => []ResultIsTruthful
<1>1. (system = "process" => ProcessInv) => ResultIsTruthful
  BY ProcessTypes, CleanIsComplete, CrossingIsReported DEF ResultIsTruthful
<1> QED BY <1>1, ProcessInvariance, PTL

\* SpoolsAreWholeOrGone: a spool is published with every byte or its file is removed.
THEOREM SpoolsWholeOrGone == Spec => []SpoolsAreWholeOrGone
<1>1. (system = "process" => ProcessInv) => SpoolsAreWholeOrGone
  BY SettledSpools, PublishedSpools DEF SpoolsAreWholeOrGone
<1> QED BY <1>1, ProcessInvariance, PTL

----------------------------------------
(* The invariant of a llama-server case *)

\* Steps of a case, what may be wrong with an attempt, who answers on a port, and the records made
ServerStages == {"probe", "incapable", "port", "spawn", "ready", "request", "shutdown", "wait", "collect",
                 "stopped", "tell", "end"}
Errors       == {"none", "transport", "http-status", "oversized", "shape", "isolation"}
Ports        == {"nobody", "ours", "another"}
Attempts     == [error : Errors, shows : SUBSET {1, 2}, isolated : BOOLEAN, from : Ports]
Statuses     == {"success", "readiness-failed", "request-failed", "response-failed", "isolation-failed",
                 "shutdown-failed", "capture-failed"}

\* Steps before there is a server, and those after its shutdown
Unstarted == {"probe", "incapable", "port", "spawn"}
Stopping  == {"collect", "stopped", "tell", "end"}

\* The variables of a case keep their ranges: where it and its server are, its flags and records,
\* its attempts.
PlacesTyped ==
  /\ pc \in ServerStages /\ port \in Ports
  /\ server \in {"none", "starting", "loading", "serving", "exited", "failed", "killed"}
  /\ written \in 0 .. MaxBytes /\ seen \in 0 .. written
  /\ collector \in {"idle", "running", "stopping", "done", "failed"}
  /\ verdict \in Statuses /\ trouble \in 0 .. MaxServerTrouble

FlagsTyped == raised \in BOOLEAN /\ cut \in BOOLEAN /\ intact \in BOOLEAN /\ capable \in BOOLEAN

RecordsTyped ==
  /\ readiness \in [tried : BOOLEAN, ready : BOOLEAN, bound : BOOLEAN]
  /\ shut \in [term : BOOLEAN, kill : BOOLEAN, unexpected : BOOLEAN, error : BOOLEAN]

AttemptsTyped == requests \in Seq(Attempts) /\ Len(requests) <= 2

ServerTyped == PlacesTyped /\ FlagsTyped /\ RecordsTyped /\ AttemptsTyped

\* The server may live on: an exception passed it by, or SIGKILL failed.
Spared == cut \/ (shut.kill /\ shut.error)

\* The server, its port and its collector are there when the step says so, and unless the server
\* was spared, it is dead after its shutdown and a collector that is done has read everything.
ServerPlaced ==
  /\ port = "ours" <=> server \in {"loading", "serving"}
  /\ pc \in Unstarted => server = "none"
  /\ pc \notin Unstarted \cup {"end"} => server # "none"
  /\ cut => raised /\ pc \in {"collect", "stopped", "end"}
  /\ pc \in Stopping => ~Server!Alive \/ Spared
  /\ server = "none" => collector = "idle" /\ written = 0
  /\ collector = "idle" => server = "none" \/ cut
  /\ collector = "done" => (~Server!Alive /\ seen = written) \/ Spared
  /\ collector = "stopping" => pc \in {"stopped", "end"}
  /\ pc \in {"tell"} => collector \in {"done", "failed"}

\* What is told so far is what happened: nothing before the server, and everything but for an
\* exception after it.
ServerTold ==
  /\ pc = "probe" => ~capable
  /\ pc = "incapable" => ~capable
  /\ pc \in ServerStages \ {"probe", "incapable", "end"} => capable
  /\ pc \in Unstarted \cup {"ready"} =>
       /\ readiness = [tried |-> FALSE, ready |-> FALSE, bound |-> FALSE]
       /\ requests = << >> /\ verdict = "success"
  /\ pc \in Unstarted \cup {"ready", "request", "shutdown"} => shut = Server!NotShut
  /\ pc \in Unstarted \cup {"ready", "request", "tell"} => ~raised
  /\ readiness.ready => readiness.tried
  /\ pc = "request" => readiness.ready
  /\ pc \in {"shutdown", "wait", "collect", "stopped", "tell"} /\ ~raised => readiness.tried

\* While our server that had bound its port lives, and until it was signalled alive, it alone
\* answers.
RepliesAreOurs ==
  /\ readiness.bound /\ Server!Alive => port = "ours"
  /\ readiness.bound /\ (Server!Alive \/ shut.term) => \A i \in DOMAIN requests : requests[i].from = "ours"

\* Attempts that failed, but for one that was made a failure by the other
Failing == {i \in DOMAIN requests : requests[i].error \notin {"none", "isolation"}}

\* The verdict is the first failure.
VerdictIsFirst ==
  /\ pc = "request" => verdict \in {"success", "request-failed", "response-failed"}
  /\ pc # "end" => verdict \notin {"shutdown-failed", "capture-failed"}
  /\ verdict = "readiness-failed" => ~readiness.ready /\ requests = << >>
  /\ verdict \in {"request-failed", "response-failed"} =>
       \E i \in Failing : Server!StatusOf(requests[i].error) = verdict /\ \A j \in Failing : i <= j
  /\ verdict \in {"success", "isolation-failed", "shutdown-failed"} =>
       /\ Failing = {}
       /\ readiness.tried => readiness.ready
  /\ pc = "request" => \A i \in DOMAIN requests : requests[i].error # "isolation"
  /\ verdict = "success" /\ readiness.ready /\ pc # "request" /\ ~raised =>
       /\ Len(requests) = 2
       /\ \A i \in 1 .. 2 : requests[i].shows = {i} /\ requests[i].isolated

\* A sample is of the end, and of nothing that changes after it but for a server that was spared.
SampleIsLast ==
  sample # Server!NoSample =>
    /\ pc = "end" /\ ~raised /\ collector \in {"idle", "done", "failed"}
    /\ sample.capable = capable /\ sample.readiness = readiness /\ sample.requests = requests
    /\ sample.lifecycle = shut
    /\ ~Spared => sample.whole = (seen = written) /\ sample.code = server
    /\ \/ /\ sample.status = "capability-failed" /\ ~capable /\ ~readiness.tried /\ requests = << >>
          /\ seen = written /\ ~Spared
       \/ sample.status \in {"port-unavailable", "spawn-failed"} /\ capable /\ seen = written /\ ~Spared
       \/ /\ sample.status = verdict /\ capable /\ readiness.tried
          /\ verdict # "capture-failed" => collector = "done" /\ seen <= StreamLimit
          /\ verdict = "success" => readiness.ready /\ Server!Graceful

\* The invariant of a llama-server case.
ServerInv == ServerTyped /\ ServerPlaced /\ ServerTold /\ RepliesAreOurs /\ VerdictIsFirst /\ SampleIsLast

----------------------------------------
(* Steps of a llama-server case *)

\* A request changes nothing but to raise, or it adds one attempt, answered by whoever holds the port.
LEMMA RequestEffect ==
  ASSUME ServerInv, Server!Request
  PROVE  /\ pc = "request"
         /\ \/ requests' = requests /\ verdict' = verdict /\ raised' = TRUE /\ pc' = "shutdown"
            \/ /\ Len(requests) < 2 /\ UNCHANGED <<pc, raised>>
               /\ \E r \in Attempts : /\ r.from = port /\ r.error # "isolation"
                                      /\ requests' = Append(requests, r)
                                      /\ verdict' = Server!FirstFailure(r.error)
<1>1. port \in Ports BY DEF ServerInv, ServerTyped, PlacesTyped
<1>2. CASE intact
 <2>1. PICK r \in Server!Replies :
              /\ requests' = Append(requests, [error |-> r.error, shows |-> r.shows,
                                              isolated |-> FALSE, from |-> port])
              /\ verdict' = Server!FirstFailure(r.error)
              /\ UNCHANGED <<pc, raised>>
   BY <1>2 DEF Server!Request
 <2>2. /\ r.error \in {"none", "transport", "http-status", "oversized", "shape"}
       /\ r.shows \in SUBSET {1, 2}
   BY DEF Server!Replies
 <2> DEFINE a == [error |-> r.error, shows |-> r.shows, isolated |-> FALSE, from |-> port]
 <2>3. a \in Attempts /\ a.from = port /\ a.error = r.error /\ a.error # "isolation" BY <1>1, <2>2 DEF Attempts, Errors
 <2>4. requests' = Append(requests, a) /\ verdict' = Server!FirstFailure(a.error) BY <2>1
 <2> QED BY <2>1, <2>3, <2>4 DEF Server!Request, Server!MoreRequests
<1>3. CASE ~intact BY <1>3 DEF Server!Request, Server!Goto
<1> QED BY <1>2, <1>3 DEF Server!Request

\* The isolation of two attempts that both succeeded is judged, or nothing is: each attempt keeps
\* what it showed and who answered.
LEMMA IsolateEffect ==
  ASSUME ServerInv, Server!Isolate
  PROVE  /\ pc = "request" /\ pc' = "shutdown" /\ Len(requests) = 2 /\ UNCHANGED <<raised, readiness>>
         /\ \/ /\ \E i \in 1 .. 2 : requests[i].error # "none"
               /\ UNCHANGED <<requests, verdict>>
            \/ /\ \A i \in 1 .. 2 : requests[i].error = "none"
               /\ requests' \in Seq(Attempts) /\ Len(requests') = 2
               /\ \A i \in 1 .. 2 : /\ requests'[i].from = requests[i].from
                                    /\ requests'[i].shows = requests[i].shows
                                    /\ requests'[i].isolated = (requests[i].shows = {i})
                                    /\ requests'[i].error \in {"none", "isolation"}
               /\ verdict' = IF \A i \in 1 .. 2 : requests[i].shows = {i} THEN verdict ELSE "isolation-failed"
<1>1. /\ pc = "request" /\ pc' = "shutdown" /\ UNCHANGED <<raised, readiness>> /\ ~Server!MoreRequests
  BY DEF Server!Isolate, Server!Goto
<1>2. requests \in Seq(Attempts) /\ Len(requests) = 2
 <2>1. requests \in Seq(Attempts) /\ Len(requests) <= 2 /\ ~(Len(requests) < 2)
   BY <1>1 DEF ServerInv, ServerTyped, AttemptsTyped, Server!MoreRequests
 <2>2. Len(requests) \in Nat BY <2>1, LenProperties
 <2>3. \A n \in Nat : n <= 2 /\ ~(n < 2) => n = 2 OBVIOUS
 <2> QED BY <2>1, <2>2, <2>3
<1>3. \A i \in 1 .. 2 : requests[i] \in Attempts BY <1>2
<1>4. CASE \A i \in 1 .. 2 : requests[i].error = "none"
 <2>1. requests' = [i \in 1 .. 2 |->
                     [requests[i] EXCEPT !.isolated = Server!Isolated(i),
                                         !.error = IF Server!Isolated(i) THEN "none" ELSE "isolation"]]
   BY <1>4 DEF Server!Isolate
 <2>2. verdict' = IF \A i \in 1 .. 2 : Server!Isolated(i) THEN verdict ELSE "isolation-failed"
   BY <1>4 DEF Server!Isolate
 <2>3. ASSUME NEW i \in 1 .. 2
       PROVE  /\ requests'[i] \in Attempts
              /\ requests'[i].from = requests[i].from /\ requests'[i].shows = requests[i].shows
              /\ requests'[i].isolated = (requests[i].shows = {i})
              /\ requests'[i].error \in {"none", "isolation"}
   BY <1>3, <2>1 DEF Server!Isolated, Attempts, Errors
 <2>4. requests' \in [1 .. 2 -> Attempts] BY <2>1, <2>3
 <2>5. requests' \in Seq(Attempts) BY <2>4, SeqDef
 <2>6. Len(requests') = 2 BY <2>1
 <2> QED BY <1>1, <1>2, <1>4, <2>2, <2>3, <2>5, <2>6 DEF Server!Isolated
<1>5. CASE ~\A i \in 1 .. 2 : requests[i].error = "none" BY <1>1, <1>2, <1>5 DEF Server!Isolate
<1> QED BY <1>4, <1>5

\* Steps before the server, of its shutdown, of an exception, and of the server, its collector and
\* the world around them while the case waits
Early == \/ Server!Probe \/ Server!Incapable \/ Server!PortCheck \/ Server!Spawn \/ Server!SpawnFails
Late == Server!Shutdown \/ Server!Wait \/ Server!Kill \/ Server!Stop \/ Server!Joined
Raising == \/ Server!Raise \/ Server!RaiseOutside \/ Server!CutBefore \/ Server!CutShutdown
           \/ Server!JoinDeadline
Aside == \/ Server!Collect \/ Server!CollectorEnds \/ Server!Bind \/ Server!Load \/ Server!ServerEnds
         \/ Server!Output \/ Server!AnotherBinds \/ Server!AnotherLeaves \/ Server!Drift
         \/ Server!CollectorFails \/ Server!Done

\* Before the server nothing is recorded.
LEMMA EarlyEffect ==
  ASSUME Early
  PROVE  /\ pc \in Unstarted /\ pc' \in Unstarted \cup {"ready", "end"}
         /\ UNCHANGED <<cut, readiness, requests, verdict, shut, written, seen, port>>
BY DEF Early, Server!Probe, Server!Incapable, Server!PortCheck, Server!Spawn, Server!SpawnFails, Server!Goto,
  Server!child, Server!captured, Server!tale, Unstarted

\* The shutdown leaves what was recorded before it alone, and forgets no exception.
LEMMA LateEffect ==
  ASSUME Late, FlagsTyped
  PROVE  /\ pc \in {"shutdown", "wait", "collect", "stopped"} /\ pc' \in {"wait"} \cup Stopping
         /\ UNCHANGED <<cut, intact, written, seen, capable, readiness, requests, verdict, sample>>
         /\ raised => raised'
BY DEF Late, Server!Shutdown, Server!Wait, Server!Kill, Server!Stop, Server!Joined, Server!Goto,
  Server!child, Server!captured, Server!tale, Stopping, FlagsTyped

\* An exception records nothing; where it comes says whether somebody shuts the server down.
LEMMA RaisingEffect ==
  ASSUME Raising
  PROVE  /\ raised' = TRUE /\ pc # "end" /\ trouble < MaxServerTrouble /\ trouble' = trouble + 1
         /\ UNCHANGED <<intact, port, written, seen, capable, readiness, requests, verdict, shut, sample>>
         /\ \/ /\ pc \in {"ready", "request"} /\ pc' = "shutdown"
               /\ UNCHANGED <<cut, server, collector>>
            \/ /\ pc \in Unstarted \cup {"collect", "stopped", "tell"} /\ pc' = "end"
               /\ UNCHANGED <<cut, server, collector>>
            \/ /\ pc = "spawn" /\ pc' = "end" /\ cut' = TRUE
               /\ server' = "starting" /\ collector' \in {"idle", "running"}
            \/ /\ pc \in {"shutdown", "wait"} /\ pc' = "collect" /\ cut' = TRUE
               /\ UNCHANGED <<server, collector>>
BY DEF Raising, Server!Raise, Server!RaiseOutside, Server!CutBefore, Server!CutShutdown, Server!JoinDeadline,
  Server!OneMore, Server!Goto, Server!child, Server!captured, Server!tale, Unstarted

\* While the case waits, it records nothing.
LEMMA AsideEffect ==
  ASSUME Aside
  PROVE  /\ UNCHANGED <<pc, raised, cut, capable, readiness, requests, verdict, shut, sample>>
         /\ intact' \in {intact, FALSE}
<1> USE DEF Server!child, Server!captured, Server!tale
<1>1. CASE \/ Server!Collect \/ Server!CollectorEnds \/ Server!Bind \/ Server!Load \/ Server!ServerEnds
  BY <1>1 DEF Server!Collect, Server!CollectorEnds, Server!Bind, Server!Load, Server!ServerEnds
<1>2. CASE \/ Server!Output \/ Server!AnotherBinds \/ Server!AnotherLeaves \/ Server!Drift
           \/ Server!CollectorFails \/ Server!Done
  BY <1>2 DEF Server!Output, Server!AnotherBinds, Server!AnotherLeaves, Server!Drift, Server!CollectorFails,
    Server!Done, Server!vars
<1> QED BY <1>1, <1>2 DEF Aside

\* A step of a case is one of them, or one of readiness, of a request or of the sample.
LEMMA ServerSteps ==
  ASSUME Server!Next
  PROVE  \/ Early \/ Server!AwaitReady \/ Server!ReadyDeadline \/ Server!Request \/ Server!Isolate
         \/ Late \/ Server!Tell \/ Raising \/ Aside
BY DEF Server!Next, Server!Step, Server!Collector, Server!World, Early, Late, Raising, Aside

\* Where a case and its server are keeps to its range, the bytes read to those written.
LEMMA PlacesTypedStep ==
  ASSUME ServerInv, Server!Next
  PROVE  PlacesTyped'
<1> USE OperationsAssumption DEF Server!BoundsAssumption, ServerStages, Unstarted, Stopping
<1> USE DEF ServerInv, Server!child, Server!captured, Server!tale, ServerTyped, PlacesTyped, Ports, Statuses
<1>1. CASE Server!Probe BY <1>1 DEF Server!Probe, Server!Goto
<1>2. CASE Server!Incapable BY <1>2 DEF Server!Incapable, Server!Goto, Server!Publish, Server!Sample
<1>3. CASE Server!PortCheck BY <1>3 DEF Server!PortCheck, Server!Goto, Server!Publish, Server!Sample
<1>4. CASE Server!Spawn BY <1>4 DEF Server!Spawn, Server!Goto
<1>5. CASE Server!SpawnFails BY <1>5 DEF Server!SpawnFails, Server!OneMore, Server!Goto, Server!Publish, Server!Sample
<1>6. CASE Server!AwaitReady
  BY <1>6 DEF Server!AwaitReady, Server!Goto, Server!Health, Server!ReadinessEnds, Server!Alive
<1>7. CASE Server!ReadyDeadline BY <1>7 DEF Server!ReadyDeadline, Server!ReadinessEnds, Server!Goto
<1>8. CASE Server!Request
  BY <1>8 DEF Server!Request, Server!Goto, Server!MoreRequests, Server!Replies, Server!FirstFailure, Server!StatusOf
<1>9. CASE Server!Isolate BY <1>9 DEF Server!Isolate, Server!Goto, Server!MoreRequests, Server!Isolated
<1>10. CASE Server!Shutdown BY <1>10 DEF Server!Shutdown, Server!Goto, Server!OneMore, Server!Alive
<1>11. CASE Server!Wait BY <1>11 DEF Server!Wait, Server!Goto, Server!Reaped, Server!Alive
<1>12. CASE Server!Kill BY <1>12 DEF Server!Kill, Server!Goto, Server!OneMore, Server!Alive
<1>13. CASE Server!Stop BY <1>13 DEF Server!Stop, Server!Goto
<1>14. CASE Server!Joined BY <1>14 DEF Server!Joined, Server!Goto
<1>15. CASE Server!Tell BY <1>15 DEF Server!Tell, Server!Goto, Server!Publish, Server!Sample, Server!FinalStatus
<1>16. CASE Raising
 <2>1. trouble' \in 0 .. MaxServerTrouble /\ UNCHANGED <<port, written, seen, verdict>> BY <1>16, RaisingEffect
 <2>2. pc' \in ServerStages /\ server' \in {server, "starting"} /\ collector' \in {collector, "idle", "running"}
   BY <1>16, RaisingEffect
 <2> QED BY <2>1, <2>2
<1>17. CASE Server!Collect BY <1>17 DEF Server!Collect
<1>18. CASE Server!CollectorEnds BY <1>18 DEF Server!CollectorEnds, Server!Drained, Server!Alive
<1>19. CASE Server!Bind BY <1>19 DEF Server!Bind
<1>20. CASE Server!Load BY <1>20 DEF Server!Load
<1>21. CASE Server!ServerEnds BY <1>21 DEF Server!ServerEnds, Server!Alive, Server!OneMore
<1>22. CASE Server!Output BY <1>22 DEF Server!Output, Server!Alive
<1>23. CASE Server!AnotherBinds BY <1>23 DEF Server!AnotherBinds, Server!OneMore
<1>24. CASE Server!AnotherLeaves BY <1>24 DEF Server!AnotherLeaves
<1>25. CASE Server!Drift BY <1>25 DEF Server!Drift, Server!OneMore
<1>26. CASE Server!CollectorFails BY <1>26 DEF Server!CollectorFails, Server!OneMore
<1>27. CASE Server!Done BY <1>27 DEF Server!Done, Server!vars
<1> HIDE DEF ServerInv, Server!child, Server!captured, Server!tale, ServerTyped, PlacesTyped, Ports, Statuses
<1> QED BY <1>1, <1>2, <1>3, <1>4, <1>5, <1>6, <1>7, <1>8, <1>9, <1>10, <1>11, <1>12, <1>13, <1>14, <1>15,
     <1>16, <1>17, <1>18, <1>19, <1>20, <1>21, <1>22, <1>23, <1>24, <1>25, <1>26, <1>27, ServerSteps DEF Early,
     Late, Aside

\* The flags stay Boolean.
LEMMA FlagsTypedStep ==
  ASSUME ServerInv, Server!Next
  PROVE  FlagsTyped'
<1> USE OperationsAssumption DEF Server!BoundsAssumption, ServerStages, Unstarted, Stopping
<1> USE DEF ServerInv, Server!child, Server!captured, Server!tale, ServerTyped, FlagsTyped
<1>1. CASE Server!Probe BY <1>1 DEF Server!Probe, Server!Goto
<1>2. CASE Server!Incapable BY <1>2 DEF Server!Incapable, Server!Goto, Server!Publish, Server!Sample
<1>3. CASE Server!PortCheck BY <1>3 DEF Server!PortCheck, Server!Goto, Server!Publish, Server!Sample
<1>4. CASE Server!Spawn BY <1>4 DEF Server!Spawn, Server!Goto
<1>5. CASE Server!SpawnFails BY <1>5 DEF Server!SpawnFails, Server!OneMore, Server!Goto, Server!Publish, Server!Sample
<1>6. CASE Server!AwaitReady
  BY <1>6 DEF Server!AwaitReady, Server!Goto, Server!Health, Server!ReadinessEnds, Server!Alive
<1>7. CASE Server!ReadyDeadline BY <1>7 DEF Server!ReadyDeadline, Server!ReadinessEnds, Server!Goto
<1>8. CASE Server!Request
  BY <1>8 DEF Server!Request, Server!Goto, Server!MoreRequests, Server!Replies, Server!FirstFailure, Server!StatusOf
<1>9. CASE Server!Isolate BY <1>9 DEF Server!Isolate, Server!Goto, Server!MoreRequests, Server!Isolated
<1>10. CASE Server!Shutdown BY <1>10 DEF Server!Shutdown, Server!Goto, Server!OneMore, Server!Alive
<1>11. CASE Server!Wait BY <1>11 DEF Server!Wait, Server!Goto, Server!Reaped, Server!Alive
<1>12. CASE Server!Kill BY <1>12 DEF Server!Kill, Server!Goto, Server!OneMore, Server!Alive
<1>13. CASE Server!Stop BY <1>13 DEF Server!Stop, Server!Goto
<1>14. CASE Server!Joined BY <1>14 DEF Server!Joined, Server!Goto
<1>15. CASE Server!Tell BY <1>15 DEF Server!Tell, Server!Goto, Server!Publish, Server!Sample, Server!FinalStatus
<1>16. CASE Raising BY <1>16, RaisingEffect
<1>17. CASE Aside BY <1>17, AsideEffect
<1> HIDE DEF ServerInv, Server!child, Server!captured, Server!tale, ServerTyped, FlagsTyped
<1> QED BY <1>1, <1>2, <1>3, <1>4, <1>5, <1>6, <1>7, <1>8, <1>9, <1>10, <1>11, <1>12, <1>13, <1>14, <1>15,
     <1>16, <1>17, ServerSteps DEF Early, Late

\* The records of readiness and of the shutdown keep their fields.
LEMMA RecordsTypedStep ==
  ASSUME ServerInv, Server!Next
  PROVE  RecordsTyped'
<1> USE OperationsAssumption DEF Server!BoundsAssumption, ServerStages, Unstarted, Stopping
<1> USE DEF ServerInv, Server!child, Server!captured, Server!tale, ServerTyped, RecordsTyped
<1>1. CASE Early BY <1>1, EarlyEffect
<1>2. CASE Server!AwaitReady
 <2>1. shut' = shut /\ (UNCHANGED readiness \/ \E b \in BOOLEAN : Server!ReadinessEnds(b))
   BY <1>2 DEF Server!AwaitReady
 <2>2. ASSUME NEW b \in BOOLEAN, Server!ReadinessEnds(b)
       PROVE  readiness' \in [tried : BOOLEAN, ready : BOOLEAN, bound : BOOLEAN]
   BY <2>2 DEF Server!ReadinessEnds
 <2> QED BY <2>1, <2>2
<1>3. CASE Server!ReadyDeadline BY <1>3 DEF Server!ReadyDeadline, Server!ReadinessEnds, Server!Goto
<1>4. CASE Server!Request
  BY <1>4 DEF Server!Request, Server!Goto, Server!MoreRequests, Server!Replies, Server!FirstFailure, Server!StatusOf
<1>5. CASE Server!Isolate BY <1>5 DEF Server!Isolate, Server!Goto, Server!MoreRequests, Server!Isolated
<1>6. CASE Server!Shutdown BY <1>6 DEF Server!Shutdown, Server!Goto, Server!OneMore, Server!Alive
<1>7. CASE Server!Wait BY <1>7 DEF Server!Wait, Server!Goto, Server!Reaped, Server!Alive
<1>8. CASE Server!Kill BY <1>8 DEF Server!Kill, Server!Goto, Server!OneMore, Server!Alive
<1>9. CASE Server!Stop BY <1>9 DEF Server!Stop, Server!Goto
<1>10. CASE Server!Joined BY <1>10 DEF Server!Joined, Server!Goto
<1>11. CASE Server!Tell BY <1>11 DEF Server!Tell, Server!Goto, Server!Publish, Server!Sample, Server!FinalStatus
<1>12. CASE Raising BY <1>12, RaisingEffect
<1>13. CASE Aside BY <1>13, AsideEffect
<1> HIDE DEF ServerInv, Server!child, Server!captured, Server!tale, ServerTyped, RecordsTyped
<1> QED BY <1>1, <1>2, <1>3, <1>4, <1>5, <1>6, <1>7, <1>8, <1>9, <1>10, <1>11, <1>12, <1>13, ServerSteps DEF
     Late

\* At most two attempts are recorded, each with all of its fields.
LEMMA AttemptsTypedStep ==
  ASSUME ServerInv, Server!Next
  PROVE  AttemptsTyped'
<1> USE OperationsAssumption DEF Server!BoundsAssumption, ServerStages, Unstarted, Stopping
<1> USE DEF ServerInv, Server!child, Server!captured, Server!tale, ServerTyped, AttemptsTyped
<1>1. CASE Early BY <1>1, EarlyEffect
<1>2. CASE Server!AwaitReady
  BY <1>2 DEF Server!AwaitReady, Server!Goto, Server!Health, Server!ReadinessEnds, Server!Alive
<1>3. CASE Server!ReadyDeadline BY <1>3 DEF Server!ReadyDeadline, Server!ReadinessEnds, Server!Goto
<1>4. CASE Server!Request
 <2>1. requests \in Seq(Attempts) /\ Len(requests) <= 2 OBVIOUS
 <2>2. ASSUME Len(requests) < 2, NEW r \in Attempts, requests' = Append(requests, r) PROVE AttemptsTyped'
  <3>1. requests' \in Seq(Attempts) /\ Len(requests') = Len(requests) + 1 /\ Len(requests) \in Nat
    BY <2>1, <2>2, LenProperties
  <3> QED BY <2>2, <3>1
 <2>3. CASE requests' = requests BY <2>1, <2>3
 <2> QED BY <2>2, <2>3, <1>4, RequestEffect
<1>5. CASE Server!Isolate BY <1>5, IsolateEffect
<1>6. CASE Late BY <1>6, LateEffect
<1>7. CASE Server!Tell BY <1>7 DEF Server!Tell, Server!Goto, Server!Publish, Server!Sample, Server!FinalStatus
<1>8. CASE Raising BY <1>8, RaisingEffect
<1>9. CASE Aside BY <1>9, AsideEffect
<1> HIDE DEF ServerInv, Server!child, Server!captured, Server!tale, ServerTyped, AttemptsTyped
<1> QED BY <1>1, <1>2, <1>3, <1>4, <1>5, <1>6, <1>7, <1>8, <1>9, ServerSteps

\* Server, port and collector are where the step says, and no server runs once the wait is over.
LEMMA ServerPlacedStep ==
  ASSUME ServerInv, Server!Next
  PROVE  ServerPlaced'
<1> USE OperationsAssumption DEF Server!BoundsAssumption, ServerStages, Unstarted, Stopping
<1> USE DEF ServerInv, Server!child, Server!captured, Server!tale, ServerTyped, PlacesTyped, Ports,
      FlagsTyped, RecordsTyped, ServerPlaced, Spared, Server!Alive
<1>1. CASE Server!Probe BY <1>1 DEF Server!Probe, Server!Goto
<1>2. CASE Server!Incapable BY <1>2 DEF Server!Incapable, Server!Goto, Server!Publish, Server!Sample
<1>3. CASE Server!PortCheck BY <1>3 DEF Server!PortCheck, Server!Goto, Server!Publish, Server!Sample
<1>4. CASE Server!Spawn BY <1>4 DEF Server!Spawn, Server!Goto
<1>5. CASE Server!SpawnFails BY <1>5 DEF Server!SpawnFails, Server!OneMore, Server!Goto, Server!Publish, Server!Sample
<1>6. CASE Server!AwaitReady BY <1>6 DEF Server!AwaitReady, Server!Goto, Server!Health, Server!ReadinessEnds
<1>7. CASE Server!ReadyDeadline BY <1>7 DEF Server!ReadyDeadline, Server!ReadinessEnds, Server!Goto
<1>8. CASE Server!Request
  BY <1>8 DEF Server!Request, Server!Goto, Server!MoreRequests, Server!Replies, Server!FirstFailure, Server!StatusOf
<1>9. CASE Server!Isolate BY <1>9 DEF Server!Isolate, Server!Goto, Server!MoreRequests, Server!Isolated
<1>10. CASE Server!Shutdown BY <1>10 DEF Server!Shutdown, Server!Goto, Server!OneMore
<1>11. CASE Server!Wait BY <1>11 DEF Server!Wait, Server!Goto, Server!Reaped
<1>12. CASE Server!Kill BY <1>12 DEF Server!Kill, Server!Goto, Server!OneMore
<1>13. CASE Server!Stop BY <1>13 DEF Server!Stop, Server!Goto
<1>14. CASE Server!Joined BY <1>14 DEF Server!Joined, Server!Goto
<1>15. CASE Server!Tell BY <1>15 DEF Server!Tell, Server!Goto, Server!Publish, Server!Sample, Server!FinalStatus
<1>16. CASE Raising
 <2>1. raised' = TRUE /\ UNCHANGED <<port, written, seen, shut>> BY <1>16, RaisingEffect
 <2>2. CASE pc \in {"ready", "request"} /\ pc' = "shutdown" /\ UNCHANGED <<cut, server, collector>> BY <2>1, <2>2
 <2>3. CASE /\ pc \in Unstarted \cup {"collect", "stopped", "tell"} /\ pc' = "end"
            /\ UNCHANGED <<cut, server, collector>>
   BY <2>1, <2>3
 <2>4. CASE /\ pc = "spawn" /\ pc' = "end" /\ cut' = TRUE
            /\ server' = "starting" /\ collector' \in {"idle", "running"}
   BY <2>1, <2>4
 <2>5. CASE /\ pc \in {"shutdown", "wait"} /\ pc' = "collect" /\ cut' = TRUE
            /\ UNCHANGED <<server, collector>>
   BY <2>1, <2>5
 <2> QED BY <1>16, <2>2, <2>3, <2>4, <2>5, RaisingEffect
<1>17. CASE Server!Collect BY <1>17 DEF Server!Collect
<1>18. CASE Server!CollectorEnds BY <1>18 DEF Server!CollectorEnds, Server!Drained
<1>19. CASE Server!Bind BY <1>19 DEF Server!Bind
<1>20. CASE Server!Load BY <1>20 DEF Server!Load
<1>21. CASE Server!ServerEnds BY <1>21 DEF Server!ServerEnds, Server!OneMore
<1>22. CASE Server!Output BY <1>22 DEF Server!Output
<1>23. CASE Server!AnotherBinds BY <1>23 DEF Server!AnotherBinds, Server!OneMore
<1>24. CASE Server!AnotherLeaves BY <1>24 DEF Server!AnotherLeaves
<1>25. CASE Server!Drift BY <1>25 DEF Server!Drift, Server!OneMore
<1>26. CASE Server!CollectorFails BY <1>26 DEF Server!CollectorFails, Server!OneMore
<1>27. CASE Server!Done BY <1>27 DEF Server!Done, Server!vars
<1> HIDE DEF ServerInv, Server!child, Server!captured, Server!tale, ServerTyped, PlacesTyped, Ports,
      FlagsTyped, RecordsTyped, ServerPlaced, Spared, Server!Alive
<1> QED BY <1>1, <1>2, <1>3, <1>4, <1>5, <1>6, <1>7, <1>8, <1>9, <1>10, <1>11, <1>12, <1>13, <1>14, <1>15,
     <1>16, <1>17, <1>18, <1>19, <1>20, <1>21, <1>22, <1>23, <1>24, <1>25, <1>26, <1>27, ServerSteps DEF Early,
     Late, Aside

\* What is told follows what happened: nothing is recorded before it was tried.
LEMMA ServerToldStep ==
  ASSUME ServerInv, Server!Next
  PROVE  ServerTold'
<1> USE OperationsAssumption DEF Server!BoundsAssumption, ServerStages, Unstarted, Stopping
<1> USE DEF ServerInv, Server!child, Server!captured, Server!tale, ServerTyped, PlacesTyped, FlagsTyped,
      RecordsTyped, ServerTold, Server!NotShut
<1>1. CASE Server!Probe BY <1>1 DEF Server!Probe, Server!Goto
<1>2. CASE Server!Incapable BY <1>2 DEF Server!Incapable, Server!Goto, Server!Publish, Server!Sample
<1>3. CASE Server!PortCheck BY <1>3 DEF Server!PortCheck, Server!Goto, Server!Publish, Server!Sample
<1>4. CASE Server!Spawn BY <1>4 DEF Server!Spawn, Server!Goto
<1>5. CASE Server!SpawnFails BY <1>5 DEF Server!SpawnFails, Server!OneMore, Server!Goto, Server!Publish, Server!Sample
<1>6. CASE Server!AwaitReady
  BY <1>6 DEF Server!AwaitReady, Server!Goto, Server!Health, Server!ReadinessEnds, Server!Alive
<1>7. CASE Server!ReadyDeadline BY <1>7 DEF Server!ReadyDeadline, Server!ReadinessEnds, Server!Goto
<1>8. CASE Server!Request
  BY <1>8 DEF Server!Request, Server!Goto, Server!MoreRequests, Server!Replies, Server!FirstFailure, Server!StatusOf
<1>9. CASE Server!Isolate BY <1>9 DEF Server!Isolate, Server!Goto, Server!MoreRequests, Server!Isolated
<1>10. CASE Server!Shutdown BY <1>10 DEF Server!Shutdown, Server!Goto, Server!OneMore, Server!Alive
<1>11. CASE Server!Wait BY <1>11 DEF Server!Wait, Server!Goto, Server!Reaped, Server!Alive
<1>12. CASE Server!Kill BY <1>12 DEF Server!Kill, Server!Goto, Server!OneMore, Server!Alive
<1>13. CASE Server!Stop BY <1>13 DEF Server!Stop, Server!Goto
<1>14. CASE Server!Joined BY <1>14 DEF Server!Joined, Server!Goto
<1>15. CASE Server!Tell BY <1>15 DEF Server!Tell, Server!Goto, Server!Publish, Server!Sample, Server!FinalStatus
<1>16. CASE Raising BY <1>16, RaisingEffect
<1>17. CASE Aside BY <1>17, AsideEffect
<1> HIDE DEF ServerInv, Server!child, Server!captured, Server!tale, ServerTyped, PlacesTyped, FlagsTyped,
      RecordsTyped, ServerTold, Server!NotShut
<1> QED BY <1>1, <1>2, <1>3, <1>4, <1>5, <1>6, <1>7, <1>8, <1>9, <1>10, <1>11, <1>12, <1>13, <1>14, <1>15,
     <1>16, <1>17, ServerSteps DEF Early, Late

\* Nobody else answers on a port our server bound, as long as it lives.
LEMMA RepliesAreOursStep ==
  ASSUME ServerInv, Server!Next
  PROVE  RepliesAreOurs'
<1> USE OperationsAssumption DEF Server!BoundsAssumption, ServerStages, Unstarted, Stopping
<1>1. CASE Early
 <2>1. readiness'.bound = FALSE BY <1>1, EarlyEffect DEF ServerInv, ServerTold
 <2> QED BY <2>1 DEF RepliesAreOurs
<1>2. CASE Server!AwaitReady
 <2>1. /\ pc = "ready" /\ requests = << >> /\ UNCHANGED <<requests, port, server, shut>> /\ RepliesAreOurs
       /\ UNCHANGED readiness \/ \E b \in BOOLEAN : Server!ReadinessEnds(b)
   BY <1>2 DEF Server!AwaitReady, Server!child, ServerInv, ServerTold
 <2>2. ASSUME NEW b \in BOOLEAN, Server!ReadinessEnds(b) PROVE readiness'.bound => port = "ours"
   BY <2>2 DEF Server!ReadinessEnds
 <2> QED BY <2>1, <2>2 DEF RepliesAreOurs, Server!Alive
<1>3. CASE Server!ReadyDeadline
 <2>1. /\ pc = "ready" /\ requests = << >> /\ UNCHANGED <<requests, port, server, shut>>
       /\ readiness'.bound => port = "ours"
   BY <1>3 DEF Server!ReadyDeadline, Server!ReadinessEnds, Server!child, ServerInv, ServerTold
 <2> QED BY <2>1 DEF RepliesAreOurs, Server!Alive
<1>4. CASE Server!Request
 <2>1. /\ pc = "request" /\ UNCHANGED <<readiness, port, server, shut>> /\ ~shut.term /\ RepliesAreOurs
       /\ requests \in Seq(Attempts)
   BY <1>4 DEF Server!Request, Server!child, ServerInv, ServerTyped, AttemptsTyped, ServerTold, Server!NotShut
 <2>2. CASE requests' = requests BY <2>1, <2>2 DEF RepliesAreOurs, Server!Alive
 <2>3. ASSUME NEW r \in Attempts, r.from = port, requests' = Append(requests, r) PROVE RepliesAreOurs'
  <3>1. \A i \in DOMAIN requests' : (i \in DOMAIN requests /\ requests'[i] = requests[i]) \/ requests'[i] = r
    BY <2>1, <2>3
  <3> QED BY <2>1, <2>3, <3>1 DEF RepliesAreOurs, Server!Alive
 <2> QED BY <1>4, <2>2, <2>3, RequestEffect
<1>5. CASE Server!Isolate
 <2>1. UNCHANGED <<readiness, port, server, shut>> /\ RepliesAreOurs /\ requests \in Seq(Attempts) /\ Len(requests) = 2
   BY <1>5, IsolateEffect DEF Server!Isolate, Server!child, ServerInv, ServerTyped, AttemptsTyped
 <2>2. DOMAIN requests = DOMAIN requests' /\ \A i \in DOMAIN requests : requests'[i].from = requests[i].from
   BY <1>5, <2>1, IsolateEffect
 <2> QED BY <2>1, <2>2 DEF RepliesAreOurs, Server!Alive
<1>6. CASE Server!Shutdown
 <2>1. /\ UNCHANGED <<readiness, port, server, requests>> /\ RepliesAreOurs
       /\ Server!Alive \/ shut'.term = shut.term
   BY <1>6 DEF Server!Shutdown, Server!child, ServerInv, ServerTyped, RecordsTyped
 <2> QED BY <2>1 DEF RepliesAreOurs, Server!Alive
<1>7. CASE Server!Wait \/ Server!Stop \/ Server!Joined
 <2>1. UNCHANGED <<readiness, requests, port, server>> /\ RepliesAreOurs /\ shut'.term = shut.term
   BY <1>7 DEF Server!Wait, Server!Reaped, Server!Stop, Server!Joined, Server!child, Server!tale, ServerInv,
     ServerTyped, RecordsTyped
 <2> QED BY <2>1 DEF RepliesAreOurs, Server!Alive
<1>8. CASE Server!Kill
 <2>1. UNCHANGED <<readiness, requests>> /\ RepliesAreOurs /\ shut'.term = shut.term
   BY <1>8 DEF Server!Kill, ServerInv, ServerTyped, RecordsTyped
 <2>2. ~Server!Alive' \/ UNCHANGED <<server, port>> BY <1>8 DEF Server!Kill, Server!Alive
 <2> QED BY <2>1, <2>2 DEF RepliesAreOurs, Server!Alive
<1>9. CASE Server!Tell BY <1>9 DEF Server!Tell, Server!child, ServerInv, RepliesAreOurs, Server!Alive
<1>10. CASE Raising
 <2>1. UNCHANGED <<readiness, requests, shut, port>> BY <1>10, RaisingEffect
 <2>2. pc = "spawn" => readiness.bound = FALSE BY DEF ServerInv, ServerTold
 <2>3. server' = server \/ pc = "spawn" BY <1>10, RaisingEffect
 <2> QED BY <2>1, <2>2, <2>3 DEF ServerInv, RepliesAreOurs, Server!Alive
<1>11. CASE Aside
 <2>1. UNCHANGED <<readiness, requests, shut>> /\ RepliesAreOurs /\ ServerPlaced BY <1>11, AsideEffect DEF ServerInv
 <2>2. (Server!Alive' => Server!Alive) /\ (Server!Alive' /\ port = "ours" => port' = "ours")
  <3> USE DEF Server!child, Server!Alive
  <3>1. CASE Server!Bind \/ Server!Load \/ Server!ServerEnds
    BY <2>1, <3>1 DEF Server!Bind, Server!Load, Server!ServerEnds, ServerPlaced
  <3>2. CASE Server!AnotherBinds \/ Server!AnotherLeaves BY <3>2 DEF Server!AnotherBinds, Server!AnotherLeaves
  <3>3. CASE \/ Server!Collect \/ Server!CollectorEnds \/ Server!Output \/ Server!Drift
             \/ Server!CollectorFails \/ Server!Done
    BY <3>3 DEF Server!Collect, Server!CollectorEnds, Server!Output, Server!Drift, Server!CollectorFails,
      Server!Done, Server!vars
  <3> QED BY <1>11, <3>1, <3>2, <3>3 DEF Aside
 <2> QED BY <2>1, <2>2 DEF RepliesAreOurs
<1> QED BY <1>1, <1>2, <1>3, <1>4, <1>5, <1>6, <1>7, <1>8, <1>9, <1>10, <1>11, ServerSteps DEF Late

\* The first failure stays the verdict, whatever fails after it.
LEMMA VerdictIsFirstStep ==
  ASSUME ServerInv, Server!Next
  PROVE  VerdictIsFirst'
<1> USE OperationsAssumption DEF Server!BoundsAssumption, ServerStages, Unstarted, Stopping
<1>1. CASE Early
 <2>1. /\ verdict' = "success" /\ requests' = << >> /\ readiness' = [tried |-> FALSE, ready |-> FALSE, bound |-> FALSE]
       /\ pc' # "request"
   BY <1>1, EarlyEffect DEF ServerInv, ServerTold
 <2> QED BY <2>1 DEF VerdictIsFirst, Failing
<1>2. CASE Server!AwaitReady
  BY <1>2 DEF ServerInv, Server!AwaitReady, Server!Goto, Server!Health, Server!ReadinessEnds, Server!Alive,
    Server!child, Server!captured, Server!tale, ServerTyped, PlacesTyped, AttemptsTyped, Errors, Statuses, Attempts,
    ServerTold, VerdictIsFirst, Failing, Server!StatusOf
<1>3. CASE Server!ReadyDeadline
  BY <1>3 DEF ServerInv, Server!ReadyDeadline, Server!ReadinessEnds, Server!Goto, Server!child, Server!captured,
    Server!tale, ServerTyped, PlacesTyped, AttemptsTyped, Errors, Statuses, Attempts, ServerTold, VerdictIsFirst,
    Failing, Server!StatusOf
<1>4. CASE Server!Request
 <2>1. requests \in Seq(Attempts) /\ UNCHANGED readiness /\ readiness.ready /\ readiness.tried /\ VerdictIsFirst
   BY <1>4 DEF Server!Request, Server!tale, ServerInv, ServerTyped, AttemptsTyped, ServerTold
 <2>2. CASE requests' = requests /\ verdict' = verdict /\ raised' = TRUE /\ pc' = "shutdown"
  <3>1. Failing' = Failing BY <2>2 DEF Failing
  <3> QED BY <1>4, <2>1, <2>2, <3>1, RequestEffect DEF VerdictIsFirst, Server!StatusOf
 <2>3. ASSUME UNCHANGED <<pc, raised>>, Len(requests) < 2, NEW r \in Attempts, r.error # "isolation",
              requests' = Append(requests, r), verdict' = Server!FirstFailure(r.error)
       PROVE  VerdictIsFirst'
  <3>1. pc = "request" /\ pc' = "request" BY <1>4, <2>3 DEF Server!Request
  <3>2. /\ DOMAIN requests = 1 .. Len(requests) /\ DOMAIN requests' = 1 .. (Len(requests) + 1)
        /\ Len(requests) \in Nat
        /\ \A i \in DOMAIN requests : requests'[i] = requests[i]
        /\ requests'[Len(requests) + 1] = r
    BY <2>1, <2>3
  <3>3. Failing' = Failing \cup (IF r.error = "none" THEN {} ELSE {Len(requests) + 1}) BY <2>3, <3>2 DEF Failing
  <3>4. verdict \in {"success", "request-failed", "response-failed"}
        /\ \A i \in DOMAIN requests : requests[i].error # "isolation"
    BY <2>1, <3>1 DEF VerdictIsFirst
  <3>5. \A i \in DOMAIN requests' : requests'[i].error # "isolation" BY <2>3, <3>2, <3>4
  <3>6. r.error \in Errors \ {"isolation"} BY <2>3 DEF Attempts
  <3>7. Server!StatusOf(r.error) \in {"success", "request-failed", "response-failed"}
        /\ (Server!StatusOf(r.error) = "success" <=> r.error = "none")
    BY <3>6 DEF Server!StatusOf, Errors
  <3>8. verdict' \in {"success", "request-failed", "response-failed"} BY <2>3, <3>4, <3>7 DEF Server!FirstFailure
  <3>9. CASE verdict = "success"
   <4>1. Failing = {} /\ verdict' = Server!StatusOf(r.error)
     BY <2>1, <2>3, <3>9 DEF VerdictIsFirst, Server!FirstFailure
   <4>2. verdict' # "success" =>
           /\ Failing' = {Len(requests) + 1}
           /\ Server!StatusOf(requests'[Len(requests) + 1].error) = verdict'
     BY <3>2, <3>3, <3>7, <4>1
   <4>3. verdict' = "success" => Failing' = {} BY <3>3, <3>7, <4>1
   <4> QED BY <2>1, <3>1, <3>2, <3>5, <3>8, <4>2, <4>3 DEF VerdictIsFirst
  <3>10. CASE verdict # "success"
   <4>1. PICK i \in Failing : Server!StatusOf(requests[i].error) = verdict /\ \A j \in Failing : i <= j
     BY <2>1, <3>4, <3>10 DEF VerdictIsFirst
   <4>2. i \in DOMAIN requests /\ i <= Len(requests) /\ i \in Failing' /\ requests'[i] = requests[i]
     BY <3>2, <3>3 DEF Failing
   <4>3. verdict' = verdict /\ \A j \in Failing' : i <= j
     BY <2>3, <3>2, <3>3, <3>10, <4>1, <4>2 DEF Server!FirstFailure
   <4>4. Server!StatusOf(requests'[i].error) = verdict' BY <4>1, <4>2, <4>3
   <4> QED BY <2>1, <3>1, <3>4, <3>5, <3>8, <3>10, <4>2, <4>3, <4>4 DEF VerdictIsFirst
  <3> QED BY <3>9, <3>10
 <2> QED BY <1>4, <2>2, <2>3, RequestEffect
<1>5. CASE Server!Isolate
 <2>1. /\ requests \in Seq(Attempts) /\ readiness.ready /\ readiness.tried /\ VerdictIsFirst /\ Len(requests) = 2
       /\ pc = "request" /\ pc' = "shutdown" /\ UNCHANGED readiness
   BY <1>5, IsolateEffect DEF ServerInv, ServerTyped, AttemptsTyped, ServerTold
 <2>2. DOMAIN requests = 1 .. 2 BY <2>1
 <2>3. /\ verdict \in {"success", "request-failed", "response-failed"}
       /\ \A i \in 1 .. 2 : requests[i].error # "isolation"
   BY <2>1, <2>2 DEF VerdictIsFirst
 <2>4. CASE (\E i \in 1 .. 2 : requests[i].error # "none") /\ UNCHANGED <<requests, verdict>>
  <3>1. Failing' = Failing /\ Failing # {} BY <2>2, <2>3, <2>4 DEF Failing
  <3>2. verdict # "success" BY <2>1, <3>1 DEF VerdictIsFirst
  <3> QED BY <2>1, <2>3, <2>4, <3>1, <3>2 DEF VerdictIsFirst
 <2>5. ASSUME \A i \in 1 .. 2 : requests[i].error = "none",
              requests' \in Seq(Attempts), Len(requests') = 2,
              \A i \in 1 .. 2 : /\ requests'[i].shows = requests[i].shows
                                /\ requests'[i].isolated = (requests[i].shows = {i})
                                /\ requests'[i].error \in {"none", "isolation"},
              verdict' = IF \A i \in 1 .. 2 : requests[i].shows = {i} THEN verdict ELSE "isolation-failed"
       PROVE  VerdictIsFirst'
  <3>1. DOMAIN requests' = 1 .. 2 BY <2>5
  <3>2. Failing = {} /\ Failing' = {} BY <2>2, <2>5, <3>1 DEF Failing
  <3>3. verdict = "success" BY <2>1, <2>3, <3>2 DEF VerdictIsFirst
  <3>4. verdict' \in {"success", "isolation-failed"} BY <2>5, <3>3
  <3>5. verdict' = "success" => \A i \in 1 .. 2 : requests[i].shows = {i} BY <2>5
  <3> QED BY <2>1, <2>5, <3>2, <3>4, <3>5 DEF VerdictIsFirst
 <2> QED BY <1>5, <2>4, <2>5, IsolateEffect
<1>6. CASE Late
 <2>1. /\ UNCHANGED <<readiness, requests, verdict>> /\ pc \notin {"request", "end"} /\ pc' # "request"
       /\ VerdictIsFirst /\ (raised => raised')
   BY <1>6, LateEffect DEF ServerInv, ServerTyped
 <2> QED BY <2>1 DEF VerdictIsFirst, Failing, Server!StatusOf
<1>7. CASE Server!Tell
  BY <1>7 DEF ServerInv, Server!Tell, Server!Goto, Server!Publish, Server!Sample, Server!FinalStatus, Server!child,
    Server!captured, Server!tale, ServerTyped, PlacesTyped, AttemptsTyped, Errors, Statuses, Attempts, ServerTold,
    VerdictIsFirst, Failing, Server!StatusOf
<1>8. CASE Raising
 <2>1. /\ UNCHANGED <<readiness, requests, verdict>> /\ raised' = TRUE /\ pc # "end" /\ pc' # "request"
       /\ VerdictIsFirst
   BY <1>8, RaisingEffect DEF ServerInv
 <2> QED BY <2>1 DEF VerdictIsFirst, Failing, Server!StatusOf
<1>9. CASE Aside
 <2>1. UNCHANGED <<pc, raised, readiness, requests, verdict>> /\ VerdictIsFirst BY <1>9, AsideEffect DEF ServerInv
 <2> QED BY <2>1 DEF VerdictIsFirst, Failing, Server!StatusOf
<1> QED BY <1>1, <1>2, <1>3, <1>4, <1>5, <1>6, <1>7, <1>8, <1>9, ServerSteps

\* A sample is published at the end, of what is then known, or an exception is raised.
LEMMA PublishEffect ==
  ASSUME NEW s, Server!Publish(s), FlagsTyped
  PROVE  \/ sample' = s /\ UNCHANGED raised
         \/ sample' = sample /\ raised' = TRUE
BY DEF Server!Publish, FlagsTyped

\* No sample before the end
LEMMA NoSampleYet == ASSUME ServerInv, pc # "end" PROVE sample = Server!NoSample
BY DEF ServerInv, SampleIsLast

\* A sample is published by the last step, and nothing it tells of changes afterwards.
LEMMA SampleIsLastStep ==
  ASSUME ServerInv, Server!Next
  PROVE  SampleIsLast'
<1> USE OperationsAssumption DEF Server!BoundsAssumption, ServerStages, Unstarted, Stopping
<1>1. CASE \/ Server!Probe \/ Server!Spawn \/ Server!AwaitReady \/ Server!ReadyDeadline \/ Server!Request
           \/ Server!Isolate \/ Late \/ Raising
 <2>1. pc # "end" /\ sample' = sample
  <3>1. CASE Server!Probe \/ Server!Spawn \/ Server!AwaitReady
    BY <3>1 DEF Server!Probe, Server!Spawn, Server!AwaitReady, Server!tale
  <3>2. CASE Server!ReadyDeadline \/ Server!Request \/ Server!Isolate
    BY <3>2 DEF Server!ReadyDeadline, Server!Request, Server!Isolate
  <3>3. CASE Late BY <3>3, LateEffect DEF ServerInv, ServerTyped
  <3>4. CASE Raising BY <3>4, RaisingEffect
  <3> QED BY <1>1, <3>1, <3>2, <3>3, <3>4
 <2> QED BY <2>1, NoSampleYet DEF SampleIsLast, Server!NoSample
<1>2. CASE Server!Incapable
 <2>1. /\ sample = Server!NoSample /\ collector = "idle" /\ seen = written /\ ~capable /\ ~raised /\ ~Spared
       /\ ~readiness.tried /\ requests = << >>
       /\ UNCHANGED <<collector, seen, written, capable, readiness, requests, verdict, shut, server, cut>>
  <3>1. pc = "incapable" BY <1>2 DEF Server!Incapable
  <3> QED BY <1>2, <3>1, NoSampleYet DEF Server!Incapable, Server!child, Server!captured, ServerInv, ServerTyped,
    PlacesTyped, FlagsTyped, ServerPlaced, ServerTold, Spared, Server!NotShut
 <2>2. CASE sample' = sample BY <2>1, <2>2 DEF SampleIsLast, Server!NoSample
 <2>3. CASE sample' # sample
  <3> DEFINE new == Server!Sample("capability-failed")
  <3>1. Server!Publish(new) /\ pc' = "end" BY <1>2, <2>3 DEF Server!Incapable, Server!Goto
  <3>2. sample' = new /\ ~raised' BY <2>1, <2>3, <3>1, PublishEffect DEF ServerInv, ServerTyped
  <3>3. /\ new.status = "capability-failed" /\ new.capable = capable /\ new.readiness = readiness
        /\ new.requests = requests /\ new.lifecycle = shut /\ new.whole = (seen = written) /\ new.code = server
    BY DEF Server!Sample
  <3>4. Spared' = Spared BY <2>1 DEF Spared
  <3> HIDE DEF new
  <3> QED BY <2>1, <3>1, <3>2, <3>3, <3>4 DEF SampleIsLast
 <2> QED BY <2>2, <2>3
<1>3. CASE Server!PortCheck
 <2>1. /\ sample = Server!NoSample /\ collector = "idle" /\ seen = written /\ capable /\ ~raised /\ ~Spared
       /\ UNCHANGED <<collector, seen, written, capable, readiness, requests, verdict, shut, server, cut>>
  <3>1. pc \in {"port", "spawn"} BY <1>3 DEF Server!PortCheck
  <3> QED BY <1>3, <3>1, NoSampleYet DEF Server!PortCheck, Server!child, Server!captured, ServerInv, ServerTyped,
    PlacesTyped, FlagsTyped, ServerPlaced, ServerTold, Spared, Server!NotShut
 <2>2. CASE sample' = sample BY <2>1, <2>2 DEF SampleIsLast, Server!NoSample
 <2>3. CASE sample' # sample
  <3> DEFINE new == Server!Sample("port-unavailable")
  <3>1. Server!Publish(new) /\ pc' = "end" BY <1>3, <2>3 DEF Server!PortCheck, Server!Goto
  <3>2. sample' = new /\ ~raised' BY <2>1, <2>3, <3>1, PublishEffect DEF ServerInv, ServerTyped
  <3>3. /\ new.status = "port-unavailable" /\ new.capable = capable /\ new.readiness = readiness
        /\ new.requests = requests /\ new.lifecycle = shut /\ new.whole = (seen = written) /\ new.code = server
    BY DEF Server!Sample
  <3>4. Spared' = Spared BY <2>1 DEF Spared
  <3> HIDE DEF new
  <3> QED BY <2>1, <3>1, <3>2, <3>3, <3>4 DEF SampleIsLast
 <2> QED BY <2>2, <2>3
<1>4. CASE Server!SpawnFails
 <2>1. /\ sample = Server!NoSample /\ collector = "idle" /\ seen = written /\ capable /\ ~raised /\ ~Spared
       /\ UNCHANGED <<collector, seen, written, capable, readiness, requests, verdict, shut, server, cut>>
  <3>1. pc \in {"port", "spawn"} BY <1>4 DEF Server!SpawnFails
  <3> QED BY <1>4, <3>1, NoSampleYet DEF Server!SpawnFails, Server!child, Server!captured, ServerInv, ServerTyped,
    PlacesTyped, FlagsTyped, ServerPlaced, ServerTold, Spared, Server!NotShut
 <2>2. CASE sample' = sample BY <2>1, <2>2 DEF SampleIsLast, Server!NoSample
 <2>3. CASE sample' # sample
  <3> DEFINE new == Server!Sample("spawn-failed")
  <3>1. Server!Publish(new) /\ pc' = "end" BY <1>4, <2>3 DEF Server!SpawnFails, Server!Goto
  <3>2. sample' = new /\ ~raised' BY <2>1, <2>3, <3>1, PublishEffect DEF ServerInv, ServerTyped
  <3>3. /\ new.status = "spawn-failed" /\ new.capable = capable /\ new.readiness = readiness
        /\ new.requests = requests /\ new.lifecycle = shut /\ new.whole = (seen = written) /\ new.code = server
    BY DEF Server!Sample
  <3>4. Spared' = Spared BY <2>1 DEF Spared
  <3> HIDE DEF new
  <3> QED BY <2>1, <3>1, <3>2, <3>3, <3>4 DEF SampleIsLast
 <2> QED BY <2>2, <2>3
<1>5. CASE Server!Tell
 <2>1. /\ sample = Server!NoSample /\ collector \in {"done", "failed"} /\ capable
       /\ UNCHANGED <<collector, seen, written, capable, readiness, requests, shut, server, cut>>
       /\ verdict' = Server!FinalStatus /\ Server!Publish(Server!Sample(verdict')) /\ pc' = "end" /\ pc = "tell"
  <3>1. pc = "tell" BY <1>5 DEF Server!Tell
  <3> QED BY <1>5, <3>1, NoSampleYet DEF Server!Tell, Server!Goto, Server!child, Server!captured, ServerInv,
    ServerTyped, PlacesTyped, ServerStages, ServerPlaced, ServerTold
 <2>2. CASE sample' = sample BY <2>1, <2>2 DEF SampleIsLast, Server!NoSample
 <2>3. CASE sample' # sample
  <3> DEFINE new == Server!Sample(verdict')
  <3>1. sample' = new /\ UNCHANGED raised
   <4>1. \/ sample' = new /\ UNCHANGED raised
         \/ sample' = sample /\ raised' = TRUE
     BY <2>1, PublishEffect DEF ServerInv, ServerTyped
   <4> QED BY <2>3, <4>1
  <3>2. /\ new.status = verdict' /\ new.capable = capable /\ new.readiness = readiness
        /\ new.requests = requests /\ new.lifecycle = shut /\ new.whole = (seen = written) /\ new.code = server
    BY DEF Server!Sample
  <3>3. Spared' = Spared BY <2>1 DEF Spared
  <3> HIDE DEF new
  <3>4. ~raised BY <2>1 DEF ServerInv, ServerTold
  <3>5. readiness.tried /\ (verdict = "success" => readiness.ready)
    BY <2>1, <3>4 DEF ServerInv, ServerTold, VerdictIsFirst
  <3>6. verdict' # "capture-failed" => collector = "done" /\ seen <= StreamLimit
    BY <2>1 DEF Server!FinalStatus, ServerInv, ServerTyped, PlacesTyped
  <3>7. verdict' = "success" => verdict = "success" /\ Server!Graceful BY <2>1 DEF Server!FinalStatus
  <3>8. Server!Graceful' = Server!Graceful BY <2>1 DEF Server!Graceful
  <3> QED BY <2>1, <3>1, <3>2, <3>3, <3>4, <3>5, <3>6, <3>7, <3>8 DEF SampleIsLast
 <2> QED BY <2>2, <2>3
<1>6. CASE Aside
 <2> SUFFICES ASSUME sample' # Server!NoSample PROVE SampleIsLast' BY DEF SampleIsLast
 <2>1. /\ UNCHANGED <<pc, raised, cut, capable, readiness, requests, verdict, shut, sample>>
       /\ SampleIsLast /\ sample # Server!NoSample
   BY <1>6, AsideEffect DEF ServerInv
 <2>2. pc = "end" /\ ~raised /\ collector \in {"idle", "done", "failed"} BY <2>1 DEF SampleIsLast
 <2>3. (~Server!Alive \/ Spared) /\ Spared' = Spared /\ ~cut BY <2>1, <2>2 DEF ServerInv, ServerPlaced, Spared
 <2>4. seen' = seen /\ collector' = collector /\ (~Spared => written' = written /\ server' = server)
  <3>1. CASE Server!Collect \/ Server!CollectorEnds \/ Server!CollectorFails
    BY <2>2, <3>1 DEF Server!Collect, Server!CollectorEnds, Server!CollectorFails
  <3>2. CASE Server!Bind \/ Server!Load \/ Server!ServerEnds \/ Server!Output
    BY <2>3, <3>2 DEF Server!Bind, Server!Load, Server!ServerEnds, Server!Output, Server!captured, Server!Alive
  <3>3. CASE Server!AnotherBinds \/ Server!AnotherLeaves \/ Server!Drift \/ Server!Done
    BY <3>3 DEF Server!AnotherBinds, Server!AnotherLeaves, Server!Drift, Server!Done, Server!vars,
      Server!captured, Server!child
  <3> QED BY <1>6, <3>1, <3>2, <3>3 DEF Aside
 <2>5. Server!Graceful => ~Spared BY <2>3 DEF Server!Graceful, Spared
 <2>6. Server!Graceful => Server!Graceful' BY <2>1, <2>4, <2>5 DEF Server!Graceful
 <2> QED BY <2>1, <2>2, <2>3, <2>4, <2>6 DEF SampleIsLast
<1> QED BY <1>1, <1>2, <1>3, <1>4, <1>5, <1>6, ServerSteps DEF Early

\* A llama-server case starts with nothing told and no server.
LEMMA ServerStarts == ASSUME Server!Init PROVE ServerInv
<1> USE OperationsAssumption DEF Server!Init, Server!BoundsAssumption
<1>1. 0 \in 0 .. MaxBytes /\ 0 \in 0 .. 0 /\ 0 \in 0 .. MaxServerTrouble OBVIOUS
<1>2. PlacesTyped BY <1>1 DEF PlacesTyped, ServerStages, Ports, Statuses
<1>3. FlagsTyped /\ RecordsTyped BY DEF FlagsTyped, RecordsTyped, Server!NotShut
<1>4. AttemptsTyped /\ Failing = {} /\ DOMAIN requests = {} BY DEF AttemptsTyped, Failing
<1>5. ServerPlaced /\ ServerTold
  BY DEF ServerPlaced, ServerTold, Unstarted, Stopping, ServerStages, Server!Alive, Server!NotShut
<1>6. RepliesAreOurs BY <1>4 DEF RepliesAreOurs
<1>7. VerdictIsFirst BY <1>4 DEF VerdictIsFirst
<1>8. SampleIsLast BY DEF SampleIsLast
<1> QED BY <1>2, <1>3, <1>4, <1>5, <1>6, <1>7, <1>8 DEF ServerInv, ServerTyped

\* Every step of a llama-server case keeps its invariant.
LEMMA ServerKept == ASSUME ServerInv, Server!Next PROVE ServerInv'
BY PlacesTypedStep, FlagsTypedStep, RecordsTypedStep, AttemptsTypedStep, ServerPlacedStep, ServerToldStep,
  RepliesAreOursStep, VerdictIsFirstStep, SampleIsLastStep DEF ServerInv, ServerTyped

\* A step of another system leaves the case as it is.
LEMMA ServerStutters == ASSUME ServerInv, UNCHANGED Server!vars PROVE ServerInv'
<1> USE DEF Server!vars, ServerInv
<1>1. ServerTyped' BY DEF ServerTyped, PlacesTyped, FlagsTyped, RecordsTyped, AttemptsTyped
<1>2. ServerPlaced' /\ ServerTold' /\ RepliesAreOurs'
  BY DEF ServerPlaced, ServerTold, RepliesAreOurs, Server!Alive, Spared
<1>3. VerdictIsFirst' BY DEF VerdictIsFirst, Failing
<1>4. SampleIsLast' BY DEF SampleIsLast, Spared, Server!Graceful
<1> QED BY <1>1, <1>2, <1>3, <1>4

----------------------------------------
(* What the invariant of a llama-server case says *)

\* A sample is one of three kinds: of missing capabilities, of a server that never was, of a server
\* that ran.
LEMMA SampleKinds ==
  ASSUME ServerInv, sample # Server!NoSample
  PROVE  /\ pc = "end" /\ ~raised /\ (Spared => shut.kill /\ shut.error)
         /\ sample.capable = capable /\ sample.readiness = readiness /\ sample.requests = requests
         /\ sample.lifecycle = shut /\ (~Spared => sample.whole = (seen = written) /\ sample.code = server)
         /\ \/ /\ sample.status = "capability-failed" /\ ~capable /\ ~readiness.tried /\ requests = << >>
               /\ seen = written /\ ~Spared
            \/ sample.status \in {"port-unavailable", "spawn-failed"} /\ capable /\ seen = written /\ ~Spared
            \/ /\ sample.status = verdict /\ verdict \in Statuses /\ capable /\ readiness.tried
               /\ verdict # "capture-failed" =>
                    collector = "done" /\ seen <= StreamLimit /\ (~Spared => seen = written)
               /\ verdict = "success" => readiness.ready /\ Server!Graceful /\ ~Spared
<1>1. SampleIsLast BY DEF ServerInv
<1>2. pc = "end" /\ ~raised BY <1>1 DEF SampleIsLast
<1>3. Spared => shut.kill /\ shut.error BY <1>2 DEF ServerInv, ServerPlaced, Spared
<1>4. collector = "done" => seen = written \/ Spared BY DEF ServerInv, ServerPlaced
<1>5. verdict \in Statuses BY DEF ServerInv, ServerTyped, PlacesTyped
<1>6. Server!Graceful => ~Spared BY <1>3 DEF Server!Graceful
<1> HIDE DEF Spared
<1> QED BY <1>1, <1>2, <1>3, <1>4, <1>5, <1>6 DEF SampleIsLast

\* The attempts of a success are isolated, whole and two.
LEMMA SuccessIsWhole ==
  ASSUME ServerInv, sample # Server!NoSample, sample.status = "success"
  PROVE  /\ readiness.ready /\ Server!Graceful /\ Len(requests) = 2 /\ verdict = "success" /\ ~Spared
         /\ \A i \in 1 .. 2 : /\ requests[i].shows = {i} /\ requests[i].isolated
                              /\ readiness.bound => requests[i].from = "ours"
<1>1. verdict = "success" /\ readiness.ready /\ Server!Graceful /\ pc = "end" /\ ~raised /\ ~Spared BY SampleKinds
<1>2. Len(requests) = 2 /\ \A i \in 1 .. 2 : requests[i].shows = {i} /\ requests[i].isolated
  BY <1>1 DEF ServerInv, VerdictIsFirst
<1>3. DOMAIN requests = 1 .. 2 BY <1>2 DEF ServerInv, ServerTyped, AttemptsTyped
<1>4. readiness.bound => \A i \in 1 .. 2 : requests[i].from = "ours"
  BY <1>1, <1>3 DEF ServerInv, RepliesAreOurs, Server!Graceful
<1> QED BY <1>1, <1>2, <1>4

\* Every variable of a llama-server case keeps its range.
LEMMA ServerTypes == ASSUME ServerInv PROVE Server!TypeOK
BY DEF ServerInv, ServerTyped, PlacesTyped, FlagsTyped, RecordsTyped, AttemptsTyped, ServerPlaced, ServerStages,
  Ports, Server!TypeOK

\* A success is of our server alone.
LEMMA OursAlone == ASSUME ServerInv PROVE Server!SuccessIsOurs
<1> SUFFICES ASSUME sample.status = "success"
             PROVE  \A i \in 1 .. 2 : (readiness.bound => requests[i].from = "ours") /\ requests[i].shows = {i}
  BY DEF Server!SuccessIsOurs
<1>1. sample # Server!NoSample BY DEF Server!NoSample
<1> QED BY <1>1, SuccessIsWhole

\* A sample's fields agree with its status.
LEMMA ConsistentSample == ASSUME ServerInv PROVE Server!SampleIsConsistent
<1> SUFFICES ASSUME sample # Server!NoSample PROVE Server!SampleIsConsistent BY DEF Server!SampleIsConsistent
<1>1. (sample.status = "capability-failed") = ~sample.capable
 <2>1. capable \in BOOLEAN BY DEF ServerInv, ServerTyped, FlagsTyped
 <2> QED BY <2>1, SampleKinds DEF Statuses
<1>2. ~sample.capable => ~sample.readiness.tried /\ sample.requests = << >> BY SampleKinds
<1>3. ASSUME sample.status = "success"
      PROVE  /\ sample.readiness.ready /\ Len(sample.requests) = 2
             /\ \A i \in 1 .. 2 : sample.requests[i].isolated
             /\ sample.lifecycle = [Server!NotShut EXCEPT !.term = TRUE] /\ sample.code = "exited"
 <2>1. /\ Server!Graceful /\ readiness.ready /\ Len(requests) = 2 /\ ~Spared
       /\ \A i \in 1 .. 2 : requests[i].isolated
   BY <1>3, SuccessIsWhole
 <2>2. shut \in [term : BOOLEAN, kill : BOOLEAN, unexpected : BOOLEAN, error : BOOLEAN]
   BY DEF ServerInv, ServerTyped, RecordsTyped
 <2>3. shut.term = TRUE /\ shut.kill = FALSE /\ shut.unexpected = FALSE /\ shut.error = FALSE /\ server = "exited"
  <3>1. shut.term \in BOOLEAN /\ shut.kill \in BOOLEAN /\ shut.unexpected \in BOOLEAN /\ shut.error \in BOOLEAN BY <2>2
  <3> QED BY <2>1, <3>1 DEF Server!Graceful
 <2>4. shut = [term |-> TRUE, kill |-> FALSE, unexpected |-> FALSE, error |-> FALSE] BY <2>2, <2>3
 <2>5. shut = [Server!NotShut EXCEPT !.term = TRUE]
  <3>1. Server!NotShut = [term |-> FALSE, kill |-> FALSE, unexpected |-> FALSE, error |-> FALSE] BY DEF Server!NotShut
  <3>2. /\ [Server!NotShut EXCEPT !.term = TRUE]
              \in [term : BOOLEAN, kill : BOOLEAN, unexpected : BOOLEAN, error : BOOLEAN]
        /\ [Server!NotShut EXCEPT !.term = TRUE].term = TRUE
        /\ [Server!NotShut EXCEPT !.term = TRUE].kill = FALSE
        /\ [Server!NotShut EXCEPT !.term = TRUE].unexpected = FALSE
        /\ [Server!NotShut EXCEPT !.term = TRUE].error = FALSE
    BY <3>1
  <3> QED BY <2>2, <2>3, <3>2
 <2> QED BY <2>1, <2>3, <2>5, SampleKinds
<1> QED BY <1>1, <1>2, <1>3 DEF Server!SampleIsConsistent

\* What was captured is whole, or the status tells that it is not.
LEMMA WholeCapture == ASSUME ServerInv PROVE Server!CaptureIsWhole
<1> SUFFICES ASSUME sample # Server!NoSample PROVE Server!CaptureIsWhole BY DEF Server!CaptureIsWhole
<1>1. CASE Spared BY <1>1, SampleKinds DEF Server!CaptureIsWhole
<1>2. CASE ~Spared BY <1>2, SampleKinds DEF Server!CaptureIsWhole
<1> QED BY <1>1, <1>2

\* The status is the first failure.
LEMMA FirstFailureTold == ASSUME ServerInv PROVE Server!StatusIsFirstFailure
<1> DEFINE failed == {i \in 1 .. Len(requests) : Server!StatusOf(requests[i].error) # "success"
                                                /\ requests[i].error # "isolation"}
<1>1. failed = Failing
 <2>1. requests \in Seq(Attempts) BY DEF ServerInv, ServerTyped, AttemptsTyped
 <2>2. DOMAIN requests = 1 .. Len(requests) /\ \A i \in DOMAIN requests : requests[i].error \in Errors
  <3>1. DOMAIN requests = 1 .. Len(requests) BY <2>1, LenProperties
  <3>2. \A i \in DOMAIN requests : requests[i] \in Attempts BY <2>1, <3>1, ElementOfSeq
  <3> QED BY <3>1, <3>2 DEF Attempts
 <2>3. \A e \in Errors : Server!StatusOf(e) = "success" <=> e = "none" BY DEF Errors, Server!StatusOf
 <2> QED BY <2>2, <2>3 DEF Failing
<1> SUFFICES ASSUME sample.status \in Statuses
             PROVE  /\ sample.status = "readiness-failed" => ~readiness.ready /\ requests = << >>
                    /\ sample.status \in {"request-failed", "response-failed"} =>
                         \E i \in failed : /\ Server!StatusOf(requests[i].error) = sample.status
                                           /\ \A j \in failed : i <= j
                    /\ sample.status \in {"success", "isolation-failed", "shutdown-failed"} =>
                         readiness.ready /\ failed = {}
                    /\ sample.status # "capture-failed" => collector = "done" /\ seen <= StreamLimit
  BY DEF Server!StatusIsFirstFailure, Statuses
<1>2. sample # Server!NoSample BY DEF Server!NoSample, Statuses
<1>3. /\ sample.status = verdict /\ readiness.tried
      /\ verdict # "capture-failed" => collector = "done" /\ seen <= StreamLimit
  BY <1>2, SampleKinds DEF Statuses
<1>4. VerdictIsFirst BY DEF ServerInv
<1> QED BY <1>1, <1>3, <1>4 DEF VerdictIsFirst

\* A server outlives its case only by an exception that passed it by or a SIGKILL that failed.
LEMMA ServerIsDead == ASSUME ServerInv PROVE Server!ServerDoesNotOutlive
<1> SUFFICES ASSUME pc = "end", Server!Alive, ~cut
             PROVE  shut.kill /\ shut.error /\ sample.status # "success"
  BY DEF Server!ServerDoesNotOutlive, Server!Ended
<1>1. Spared /\ shut.kill /\ shut.error BY DEF ServerInv, ServerPlaced, Stopping, Spared
<1>2. sample = Server!NoSample => sample.status # "success" BY DEF Server!NoSample
<1>3. sample # Server!NoSample => sample.status # "success" BY <1>1, SampleKinds DEF Statuses
<1> QED BY <1>1, <1>2, <1>3

\* ServerInv is an invariant, whoever takes the port, whatever is answered and however the server
\* ends.
THEOREM ServerInvariance == Spec => [](system = "server" => ServerInv)
<1>1. Init => (system = "server" => ServerInv) BY ServerStarts DEF Init
<1>2. (system = "server" => ServerInv) /\ [Next]_vars => (system = "server" => ServerInv)'
 <2> SUFFICES ASSUME system = "server" => ServerInv, [Next]_vars, system' = "server" PROVE ServerInv' OBVIOUS
 <2>1. CASE UNCHANGED vars
  <3>1. system = "server" /\ UNCHANGED Server!vars BY <2>1 DEF vars, serverVars, Server!vars
  <3> QED BY <3>1, ServerStutters
 <2>2. CASE Next
  <3>1. Server!Next /\ system = "server" BY <2>2 DEF Next
  <3> QED BY <3>1, ServerKept
 <2> QED BY <2>1, <2>2
<1> QED BY <1>1, <1>2, PTL DEF Spec

\* ServerSampleIsTruthful: the sample of a llama-server case is one its validator accepts, tells the
\* first failure and is of the server that the case started.
THEOREM ServerSampleTruthful == Spec => []ServerSampleIsTruthful
<1>1. (system = "server" => ServerInv) => ServerSampleIsTruthful
  BY ServerTypes, OursAlone, ConsistentSample, WholeCapture, FirstFailureTold DEF ServerSampleIsTruthful
<1> QED BY <1>1, ServerInvariance, PTL

\* NothingIsLeftAlive: no group that was terminated and no server outlives the call.
THEOREM NothingLeftAlive == Spec => []NothingIsLeftAlive
<1>1. (system = "process" => ProcessInv) /\ (system = "server" => ServerInv) => NothingIsLeftAlive
  BY GroupIsDead, ServerIsDead DEF NothingIsLeftAlive
<1> QED BY <1>1, ProcessInvariance, ServerInvariance, PTL

----------------------------------------
(* The invariant of a case of the other adapters *)

\* Steps of a case, and how a child of it ends
CaseStages == Case!Children \cup {"before second", "probed", "before work", "settle", "end"}
Endings    == {"exited", "timed_out", "capture_failed", "spawn_failed"}

\* Variables in their ranges, and no child foul as long as the inputs are intact
CaseTyped ==
  /\ kind \in {"backend-ops", "llama-bench"} /\ raised \in BOOLEAN /\ intact \in BOOLEAN /\ pc \in CaseStages
  /\ Case!Ran \subseteq Case!Children /\ \A c \in Case!Ran : results[c].outcome \in Endings
  /\ foul \subseteq Case!Ran
  /\ intact => foul = {}

\* The children run in their order, and the work only when the probes found the capabilities.
RanInOrder ==
  /\ pc = "help" => Case!Ran = {}
  /\ pc \in {"before second", "second"} => Case!Ran = {"help"}
  /\ pc \in {"probed", "before work", "work"} => Case!Ran = {"help", "second"}
  /\ pc = "settle" => Case!Ran = Case!Children
  /\ "work" \in Case!Ran \/ pc \in {"before work", "work"} => Case!Capability = Case!NoSample

\* A result whose evidence write_portable refuses: control bytes, or one blob of two media types
Blamed ==
  \/ \E c \in Case!Ran : results[c].out.text.is = "control" \/ results[c].err.text.is = "control"
  \/ /\ kind = "backend-ops" /\ "work" \in Case!Ran /\ results.work.out.text # Case!Empty
     /\ results.work.out.text \in {results.help.out.text, results.second.out.text, results.work.err.text}

\* A sample is the capability or the verdict of what ran, and only drift or a refusal leaves none.
CaseSampled ==
  /\ sample # Case!NoSample =>
       /\ pc = "end" /\ foul = {}
       /\ \/ Case!Ran = {"help", "second"} /\ sample = Case!Capability
          \/ Case!Ran = Case!Children /\ sample = Case!Verdict(results.work)
  /\ pc = "end" /\ sample = Case!NoSample => ~intact \/ Blamed

\* An entry a child's result was published as
Published(c, p) ==
  \/ Case!Worth(results[c].out) /\ p = [text |-> results[c].out.text, media |-> Case!MediaOf(c)]
  \/ Case!Worth(results[c].err) /\ p = [text |-> results[c].err.text, media |-> "text/plain"]

\* Portable evidence is what the children printed, and no bytes have two media types.
PortableIsOfResults ==
  /\ \A p \in portable : \E c \in Case!Ran : Published(c, p)
  /\ \A p, q \in portable : p.text = q.text => p.media = q.media

\* The invariant of a case of the other adapters.
CaseInv == CaseTyped /\ RanInOrder /\ CaseSampled /\ PortableIsOfResults

----------------------------------------
(* What the operators of a case return *)

\* What may be wrong with a result, and the statuses it gives the test and the measurement
DefectNames    == {"capture-failed", "spawn-failed", "timed-out", "output-oversized", "encoding-failed"}
DefectStatuses == {"capture-failed", "spawn-failed", "timed-out", "oversized-output", "encoding-failed"}

\* The category of a result: a defect, or a child that ended with both of its streams exact.
LEMMA CategoryOf ==
  ASSUME NEW r, r.outcome \in Endings
  PROVE  /\ Case!ErrorCategory(r) \in DefectNames \cup {"nonzero-exit", "none"}
         /\ Case!ErrorCategory(r) \in {"nonzero-exit", "none"} => r.outcome = "exited" /\ r.out.exact /\ r.err.exact
         /\ Case!ErrorCategory(r) = "none" /\ kind = "llama-bench" => r.code = 0
         /\ Case!ErrorCategory(r) = "nonzero-exit" => kind = "llama-bench" /\ r.code # 0
BY DEF Case!ErrorCategory, Endings, DefectNames

\* The worst of some defects is one of them.
LEMMA WorstDefect ==
  ASSUME NEW rs, Case!Defects(rs) # {}
  PROVE  Case!Worst(rs) \in DefectNames
<1> DEFINE D == Case!Defects(rs)
<1>1. D \subseteq 1 .. 5 BY DEF Case!Defects, Case!DefectOrder
<1>2. \E i \in D : \A j \in D : i <= j
 <2>1. CASE 1 \in D BY <1>1, <2>1
 <2>2. CASE 1 \notin D /\ 2 \in D BY <1>1, <2>2
 <2>3. CASE 1 \notin D /\ 2 \notin D /\ 3 \in D BY <1>1, <2>3
 <2>4. CASE 1 \notin D /\ 2 \notin D /\ 3 \notin D BY <1>1, <2>4
 <2> QED BY <2>1, <2>2, <2>3, <2>4
<1>3. PICK i \in D : i = CHOOSE k \in D : \A j \in D : k <= j BY <1>2
<1>4. Case!Worst(rs) = Case!DefectOrder[i] /\ i \in 1 .. 5 BY <1>1, <1>3 DEF Case!Worst
<1> QED BY <1>4 DEF Case!DefectOrder, DefectNames

\* Where there are no defects, no result has one.
LEMMA NoDefect ==
  ASSUME NEW rs, Case!Defects(rs) = {}, NEW r \in rs
  PROVE  Case!ErrorCategory(r) \notin DefectNames
<1> SUFFICES ASSUME NEW d \in DefectNames, Case!ErrorCategory(r) = d PROVE FALSE OBVIOUS
<1>1. PICK i \in 1 .. 5 : Case!DefectOrder[i] = d BY DEF DefectNames, Case!DefectOrder
<1>2. i \in Case!Defects(rs) BY <1>1 DEF Case!Defects, Case!DefectOrder
<1> QED BY <1>2

\* The probes of backend-ops: capable, defective, or without the capability.
LEMMA BackendCapable ==
  ASSUME NEW h, NEW l, h.outcome \in Endings, l.outcome \in Endings
  PROVE  LET s == Case!BackendCapability(h, l)
         IN  \/ s = Case!NoSample /\ h.code = 1 /\ Case!Clean(h) /\ Case!Clean(l) /\ l.out.text.is = "all operations"
             \/ s # Case!NoSample /\ s.reason = "none" /\ s.status \in DefectStatuses
             \/ s # Case!NoSample /\ s.reason # "none" /\ s.status = "capability-failed"
<1>1. CASE Case!Defects({h, l}) # {}
 <2>1. Case!BackendCapability(h, l) = [status |-> Case!DefectStatus(Case!Worst({h, l})), reason |-> "none"]
   BY <1>1 DEF Case!BackendCapability
 <2>2. Case!DefectStatus(Case!Worst({h, l})) \in DefectStatuses
   BY <1>1, WorstDefect DEF Case!DefectStatus, DefectNames, DefectStatuses
 <2>3. Case!BackendCapability(h, l).status \in DefectStatuses /\ Case!BackendCapability(h, l).reason = "none"
   BY <2>1, <2>2
 <2>4. Case!NoSample.status \notin DefectStatuses BY DEF Case!NoSample, DefectStatuses
 <2> QED BY <2>3, <2>4
<1>2. CASE Case!Defects({h, l}) = {} BY <1>2 DEF Case!BackendCapability, Case!NoSample
<1> QED BY <1>1, <1>2

\* The probes of llama-bench: one that ended well and one refused as pinned, or no capability.
LEMMA BenchCapable ==
  ASSUME NEW h, NEW v, h.outcome \in Endings, v.outcome \in Endings, kind = "llama-bench"
  PROVE  LET s == Case!BenchCapability(h, v)
         IN  \/ /\ s = Case!NoSample /\ h.code = 0 /\ v.code = 1 /\ v.err.text.is = "no such parameter"
                /\ h.outcome = "exited" /\ h.out.exact /\ h.err.exact
                /\ v.outcome = "exited" /\ v.out.exact /\ v.err.exact
             \/ s # Case!NoSample /\ s.reason # "success" /\ s.status = "capability-failed"
<1>1. CASE Case!Defects({h, v}) # {}
 <2>1. Case!BenchCapability(h, v) = [status |-> "capability-failed", reason |-> Case!Worst({h, v})]
   BY <1>1 DEF Case!BenchCapability
 <2>2. Case!Worst({h, v}) # "success" BY <1>1, WorstDefect DEF DefectNames
 <2>3. /\ Case!BenchCapability(h, v).status = "capability-failed"
       /\ Case!BenchCapability(h, v).reason # "success"
   BY <2>1, <2>2
 <2>4. Case!NoSample.status # "capability-failed" BY DEF Case!NoSample
 <2> QED BY <2>3, <2>4
<1>2. CASE Case!Defects({h, v}) = {}
 <2>1. Case!ErrorCategory(h) \in {"nonzero-exit", "none"} BY <1>2, NoDefect, CategoryOf
 <2>2. Case!ErrorCategory(v) \in {"nonzero-exit", "none"} BY <1>2, NoDefect, CategoryOf
 <2>3. Case!ErrorCategory(h) = "none" => h.code = 0 BY CategoryOf
 <2>4. h.outcome = "exited" /\ h.out.exact /\ h.err.exact /\ v.outcome = "exited" /\ v.out.exact /\ v.err.exact
   BY <2>1, <2>2, CategoryOf
 <2> QED BY <1>2, <2>1, <2>3, <2>4 DEF Case!BenchCapability, Case!NoSample
<1> QED BY <1>1, <1>2

\* The verdict of backend-ops: a defect, a child or a parser that failed, or what the gate says.
LEMMA TestVerdict ==
  ASSUME NEW r, r.outcome \in Endings, kind = "backend-ops"
  PROVE  LET s == Case!ClassifyTest(r)
         IN  /\ s # Case!NoSample /\ s.reason = "none"
             /\ \/ s.status \in DefectStatuses /\ s.gate = "none"
                \/ /\ s.status = "child-failed" \/ (s.status = "parse-failed" /\ s.rows = << >>)
                   /\ s.gate = "none" /\ Case!ErrorCategory(r) = "none"
                \/ /\ s.status = IF s.gate = "passed" THEN "passed" ELSE "hard-gate-failed"
                   /\ s.gate = Case!GateReason(r.out.text.rows)
                   /\ Case!ErrorCategory(r) = "none" /\ r.code = 0 /\ Case!ParsesAsRows(r.out.text)
<1>1. CASE Case!ErrorCategory(r) # "none"
 <2>1. Case!DefectStatus(Case!ErrorCategory(r)) \in DefectStatuses
   BY <1>1, CategoryOf DEF Case!DefectStatus, DefectNames, DefectStatuses
 <2> QED BY <1>1, <2>1 DEF Case!ClassifyTest, Case!NoSample, DefectStatuses
<1>2. CASE Case!ErrorCategory(r) = "none"
 <2>1. r.out.exact BY <1>2, CategoryOf
 <2> HIDE DEF Case!ErrorCategory
 <2> QED BY <1>2, <2>1 DEF Case!ClassifyTest, Case!NoSample
<1> QED BY <1>1, <1>2

\* The verdict of llama-bench, each with a category
LEMMA BenchVerdict ==
  ASSUME NEW r, r.outcome \in Endings, kind = "llama-bench"
  PROVE  LET s == Case!ClassifyBench(r)
         IN  /\ s # Case!NoSample /\ s.status # "capability-failed"
             /\ s.status = "success" <=> s.reason = "success"
             /\ s.status = "success" => Case!ErrorCategory(r) = "none" /\ r.out.text.is = "measured"
             /\ Case!BenchCategory(<<s.status, s.reason>>) # "adapter-failed"
<1>1. Case!ErrorCategory(r) \in DefectNames \cup {"nonzero-exit", "none"} BY CategoryOf
<1>2. CASE Case!ErrorCategory(r) \in {"output-oversized", "encoding-failed"}
  BY <1>2 DEF Case!ClassifyBench, Case!NoSample, Case!BenchCategory
<1>3. CASE Case!ErrorCategory(r) \in {"capture-failed", "spawn-failed", "timed-out", "nonzero-exit"}
  BY <1>3 DEF Case!ClassifyBench, Case!NoSample, Case!BenchCategory
<1>4. CASE Case!ErrorCategory(r) = "none" BY <1>4 DEF Case!ClassifyBench, Case!NoSample, Case!BenchCategory
<1> QED BY <1>1, <1>2, <1>3, <1>4 DEF DefectNames

\* What a gate that is passed has seen in rows that parse
LEMMA GatePassed ==
  ASSUME NEW rows, Case!GateReason(rows) = "passed"
  PROVE  /\ \A x \in Case!Range(rows) : x.bound /\ x.supported = "1" /\ x.error = ""
         /\ \A op \in Asked : \E x \in Case!Range(rows) : x.op = op
BY DEF Case!GateReason

\* Rows that parse are some, and of the case.
LEMMA RowsThatParse ==
  ASSUME NEW text, Case!ParsesAsRows(text)
  PROVE  /\ Case!GateReason(text.rows) \notin {"no-rows", "wrong-backend"}
         /\ \A x \in Case!Range(text.rows) : x.op \in Asked
<1>1. text.rows # << >> /\ \A x \in Case!Range(text.rows) : x.bound /\ x.op \in Asked BY DEF Case!ParsesAsRows
<1> QED BY <1>1 DEF Case!GateReason

----------------------------------------
(* Steps of a case *)

\* The entries of a result are its streams that are worth it, stdout first.
LEMMA EntriesOf ==
  ASSUME NEW c, NEW r
  PROVE  LET es  == Case!Entries(c, r)
             out == [text |-> r.out.text, media |-> Case!MediaOf(c)]
             err == [text |-> r.err.text, media |-> "text/plain"]
         IN  /\ Len(es) \in 0 .. 2 /\ Case!Range(es) = {es[i] : i \in 1 .. Len(es)}
             /\ \A i \in 1 .. Len(es) : \/ Case!Worth(r.out) /\ es[i] = out /\ i = 1
                                        \/ Case!Worth(r.err) /\ es[i] = err
             /\ Len(es) = 2 => es[1] = out /\ es[2] = err /\ Case!Worth(r.out) /\ Case!Worth(r.err)
<1> DEFINE out == [text |-> r.out.text, media |-> Case!MediaOf(c)]
           err == [text |-> r.err.text, media |-> "text/plain"]
<1>1. Case!Range(Case!Entries(c, r)) = {Case!Entries(c, r)[i] : i \in 1 .. Len(Case!Entries(c, r))} BY DEF Case!Range
<1>2. CASE Case!Worth(r.out) /\ Case!Worth(r.err)
 <2>1. Case!Entries(c, r) = <<out>> \o <<err>> BY <1>2 DEF Case!Entries
 <2> HIDE DEF out, err
 <2>2. /\ <<out>> \in Seq({out, err}) /\ Len(<<out>>) = 1 /\ <<out>>[1] = out
       /\ <<err>> \in Seq({out, err}) /\ Len(<<err>>) = 1 /\ <<err>>[1] = err
   OBVIOUS
 <2>3. Len(Case!Entries(c, r)) = 2 /\ Case!Entries(c, r)[1] = out /\ Case!Entries(c, r)[2] = err
   BY <2>1, <2>2, ConcatProperties
 <2> QED BY <1>1, <1>2, <2>3 DEF out, err
<1>3. CASE Case!Worth(r.out) /\ ~Case!Worth(r.err)
 <2>1. Case!Entries(c, r) = <<out>> \o << >> BY <1>3 DEF Case!Entries
 <2> HIDE DEF out
 <2>2. Case!Entries(c, r) = <<out>> BY <2>1
 <2>3. Len(Case!Entries(c, r)) = 1 /\ Case!Entries(c, r)[1] = out BY <2>2
 <2> QED BY <1>1, <1>3, <2>3 DEF out
<1>4. CASE ~Case!Worth(r.out) /\ Case!Worth(r.err)
 <2>1. Case!Entries(c, r) = << >> \o <<err>> BY <1>4 DEF Case!Entries
 <2> HIDE DEF err
 <2>2. Case!Entries(c, r) = <<err>> BY <2>1
 <2>3. Len(Case!Entries(c, r)) = 1 /\ Case!Entries(c, r)[1] = err BY <2>2
 <2> QED BY <1>1, <1>4, <2>3 DEF err
<1>5. CASE ~Case!Worth(r.out) /\ ~Case!Worth(r.err)
 <2>1. Case!Entries(c, r) = << >> \o << >> BY <1>5 DEF Case!Entries
 <2>2. Case!Entries(c, r) = << >> BY <2>1
 <2>3. Len(Case!Entries(c, r)) = 0 BY <2>2
 <2> QED BY <1>1, <2>3
<1> QED BY <1>2, <1>3, <1>4, <1>5

\* A child adds its result and the entries before the first one that is refused.
LEMMA ChildEffect ==
  ASSUME CaseInv, NEW c \in Case!Children, Case!RunChild(c)
  PROVE  \E r : /\ r.outcome \in Endings
                /\ pc = c /\ c \notin Case!Ran
                /\ Case!Ran' = Case!Ran \cup {c} /\ results'[c] = r
                /\ \A d \in Case!Ran : results'[d] = results[d]
                /\ portable' = portable \cup Case!Accepted(Case!Entries(c, r))
                /\ \/ pc' = Case!NextOf(c) /\ UNCHANGED raised
                   \/ /\ pc' = "end" /\ raised' = TRUE
                      /\ Case!Accepted(Case!Entries(c, r)) # Case!Range(Case!Entries(c, r))
<1>1. PICK r \in Case!Results(c) :
             /\ results' = [x \in Case!Ran \cup {c} |-> IF x = c THEN r ELSE results[x]]
             /\ portable' = portable \cup Case!Accepted(Case!Entries(c, r))
             /\ IF Case!Accepted(Case!Entries(c, r)) = Case!Range(Case!Entries(c, r))
                  THEN pc' = Case!NextOf(c) /\ UNCHANGED raised
                  ELSE pc' = "end" /\ raised' = TRUE
  BY DEF Case!RunChild, Case!Ran
<1>2. r.outcome \in Endings
 <2> DEFINE O == Case!Streams(Case!Printable(c))
            E == Case!Streams({Case!Empty, Case!Plain("usage")}
                              \cup IF c = "second" THEN {Case!Plain("no such parameter")} ELSE {})
            R == [outcome : {"exited", "timed_out", "capture_failed"}, code : 0 .. 1, out : O, err : E]
            N == [outcome |-> "spawn_failed", code |-> 9, out |-> [text |-> Case!Empty, exact |-> TRUE],
                  err |-> [text |-> Case!Empty, exact |-> TRUE]]
 <2>1. Case!Results(c) = R \cup {N} BY Zenon DEF Case!Results
 <2>2. N.outcome = "spawn_failed" OBVIOUS
 <2> HIDE DEF O, E
 <2>3. \A x \in R : x.outcome \in {"exited", "timed_out", "capture_failed"} OBVIOUS
 <2> HIDE DEF R, N
 <2> QED BY <2>1, <2>2, <2>3 DEF Endings
<1>3. pc = c BY DEF Case!RunChild
<1>4. c \notin Case!Ran BY <1>3 DEF CaseInv, RanInOrder, Case!Children
<1>5. Case!Ran' = Case!Ran \cup {c} /\ results'[c] = r /\ \A d \in Case!Ran : results'[d] = results[d]
  BY <1>1, <1>4 DEF Case!Ran
<1> QED BY <1>1, <1>2, <1>3, <1>4, <1>5

\* Entries that are accepted keep what is published of one media type each.
LEMMA AcceptedAgree ==
  ASSUME NEW c, NEW r, \A p, q \in portable : p.text = q.text => p.media = q.media,
         NEW p \in portable \cup Case!Accepted(Case!Entries(c, r)),
         NEW q \in portable \cup Case!Accepted(Case!Entries(c, r)), p.text = q.text
  PROVE  p.media = q.media
<1> DEFINE es == Case!Entries(c, r)
<1>1. Len(es) \in Nat BY EntriesOf
<1>2. ASSUME NEW x \in Case!Accepted(es)
      PROVE  \E i \in 1 .. Len(es) : x = es[i] /\ ~Case!Refused(es[i], portable \cup Case!Before(es, i))
 <2>1. PICK i \in 1 .. Len(es) : x = es[i] /\ \A j \in 1 .. i : ~Case!Refused(es[j], portable \cup Case!Before(es, j))
   BY <1>2 DEF Case!Accepted
 <2>2. i \in 1 .. i BY <1>1
 <2> QED BY <2>1, <2>2
<1>3. ASSUME NEW x \in Case!Accepted(es), NEW y \in portable, x.text = y.text PROVE x.media = y.media
  BY <1>2, <1>3 DEF Case!Refused
<1>4. ASSUME NEW i \in 1 .. Len(es), NEW j \in 1 .. Len(es), j < i, es[i].text = es[j].text,
             ~Case!Refused(es[i], portable \cup Case!Before(es, i))
      PROVE  es[i].media = es[j].media
 <2>1. es[j] \in Case!Before(es, i) BY <1>1, <1>4 DEF Case!Before
 <2> QED BY <1>4, <2>1 DEF Case!Refused
<1>5. CASE p \in Case!Accepted(es) /\ q \in Case!Accepted(es)
 <2>1. PICK i \in 1 .. Len(es) : p = es[i] /\ ~Case!Refused(es[i], portable \cup Case!Before(es, i)) BY <1>2, <1>5
 <2>2. PICK j \in 1 .. Len(es) : q = es[j] /\ ~Case!Refused(es[j], portable \cup Case!Before(es, j)) BY <1>2, <1>5
 <2>3. i < j \/ j < i \/ i = j BY <1>1
 <2> QED BY <1>4, <2>1, <2>2, <2>3
<1> QED BY <1>3, <1>5

\* An entry is refused for its control bytes or for a blob of another media type, which was
\* published before or is the other stream of the child.
LEMMA RefusalIsBlamed ==
  ASSUME NEW c, NEW r, Case!Accepted(Case!Entries(c, r)) # Case!Range(Case!Entries(c, r))
  PROVE  \/ r.out.text.is = "control" \/ r.err.text.is = "control"
         \/ \E p \in portable : Case!Worth(r.out) /\ p.text = r.out.text /\ p.media # Case!MediaOf(c)
         \/ \E p \in portable : Case!Worth(r.err) /\ p.text = r.err.text /\ p.media # "text/plain"
         \/ Case!Worth(r.out) /\ r.out.text = r.err.text /\ Case!MediaOf(c) # "text/plain"
<1> DEFINE es == Case!Entries(c, r)
<1>1. Len(es) \in 0 .. 2 BY EntriesOf
<1>2. PICK j \in 1 .. Len(es) : Case!Refused(es[j], portable \cup Case!Before(es, j))
 <2> SUFFICES ASSUME \A j \in 1 .. Len(es) : ~Case!Refused(es[j], portable \cup Case!Before(es, j))
              PROVE  Case!Accepted(es) = Case!Range(es)
   OBVIOUS
 <2>1. {i \in 1 .. Len(es) : \A j \in 1 .. i : ~Case!Refused(es[j], portable \cup Case!Before(es, j))} = 1 .. Len(es)
  <3>1. \A i \in 1 .. Len(es) : \A j \in 1 .. i : j \in 1 .. Len(es) BY <1>1
  <3> QED BY <3>1
 <2> QED BY <2>1 DEF Case!Accepted, Case!Range
<1>3. \/ Case!Worth(r.out) /\ es[j] = [text |-> r.out.text, media |-> Case!MediaOf(c)] /\ j = 1
      \/ Case!Worth(r.err) /\ es[j] = [text |-> r.err.text, media |-> "text/plain"]
  BY EntriesOf
<1>4. ASSUME NEW p \in Case!Before(es, j), p.text = es[j].text, p.media # es[j].media
      PROVE  Case!Worth(r.out) /\ r.out.text = r.err.text /\ Case!MediaOf(c) # "text/plain"
 <2>1. PICK i \in 1 .. j - 1 : p = es[i] BY DEF Case!Before
 <2>2. i = 1 /\ j = 2 /\ Len(es) = 2
  <3>1. Len(es) = 0 \/ Len(es) = 1 \/ Len(es) = 2 BY <1>1
  <3> QED BY <1>2, <2>1, <3>1
 <2>3. /\ es[1] = [text |-> r.out.text, media |-> Case!MediaOf(c)] /\ Case!Worth(r.out)
       /\ es[2] = [text |-> r.err.text, media |-> "text/plain"]
   BY <2>2, EntriesOf
 <2> QED BY <1>4, <2>1, <2>2, <2>3
<1>5. \/ es[j].text.is = "control"
      \/ \E p \in portable : p.text = es[j].text /\ p.media # es[j].media
      \/ \E p \in Case!Before(es, j) : p.text = es[j].text /\ p.media # es[j].media
  BY <1>2 DEF Case!Refused
<1> HIDE DEF es
<1>6. CASE es[j].text.is = "control" BY <1>3, <1>6
<1>7. CASE \E p \in portable : p.text = es[j].text /\ p.media # es[j].media BY <1>3, <1>7
<1> QED BY <1>4, <1>5, <1>6, <1>7

\* A child that runs keeps the invariant: its result joins those before it.
LEMMA RunChildKept ==
  ASSUME CaseInv, NEW c \in Case!Children, Case!RunChild(c)
  PROVE  CaseInv'
<1>1. PICK r : /\ r.outcome \in Endings
               /\ pc = c /\ c \notin Case!Ran
               /\ Case!Ran' = Case!Ran \cup {c} /\ results'[c] = r
               /\ \A d \in Case!Ran : results'[d] = results[d]
               /\ portable' = portable \cup Case!Accepted(Case!Entries(c, r))
               /\ \/ pc' = Case!NextOf(c) /\ UNCHANGED raised
                  \/ /\ pc' = "end" /\ raised' = TRUE
                     /\ Case!Accepted(Case!Entries(c, r)) # Case!Range(Case!Entries(c, r))
  BY ChildEffect
<1>2. UNCHANGED <<kind, intact, sample>> /\ foul' = IF intact THEN foul ELSE foul \cup {c} BY DEF Case!RunChild
<1>3. sample = Case!NoSample BY <1>1 DEF CaseInv, CaseSampled, Case!Children
<1>4. CaseTyped'
 <2>1. pc' \in CaseStages /\ raised' \in BOOLEAN BY <1>1 DEF CaseInv, CaseTyped, CaseStages, Case!Children, Case!NextOf
 <2>2. Case!Ran' \subseteq Case!Children /\ \A d \in Case!Ran' : results'[d].outcome \in Endings
   BY <1>1 DEF CaseInv, CaseTyped
 <2>3. foul' \subseteq Case!Ran' /\ (intact => foul' = {}) BY <1>1, <1>2 DEF CaseInv, CaseTyped
 <2> QED BY <1>2, <2>1, <2>2, <2>3 DEF CaseInv, CaseTyped, Case!Children
<1>5. "work" \in Case!Ran' \/ pc' \in {"before work", "work"} => c = "work" /\ Case!Capability = Case!NoSample
  BY <1>1 DEF CaseInv, RanInOrder, Case!NextOf, Case!Children
<1>6. "work" \in Case!Ran' => /\ results'.help = results.help /\ results'.second = results.second
                              /\ Case!Ran = {"help", "second"} /\ Case!Capability' = Case!NoSample
 <2> HAVE "work" \in Case!Ran'
 <2>1. c = "work" /\ Case!Capability = Case!NoSample /\ Case!Ran = {"help", "second"}
   BY <1>1, <1>5 DEF CaseInv, RanInOrder
 <2>2. results'.help = results.help /\ results'.second = results.second BY <1>1, <2>1
 <2>3. {results'.help, results'.second} = {results.help, results.second} /\ kind' = kind BY <1>2, <2>2
 <2>4. Case!Defects({results.help, results.second})' = Case!Defects({results.help, results.second})
   BY <2>3 DEF Case!Defects, Case!ErrorCategory
 <2>5. Case!Worst({results.help, results.second})' = Case!Worst({results.help, results.second}) BY <2>4 DEF Case!Worst
 <2>6. /\ Case!ErrorCategory(results.help)' = Case!ErrorCategory(results.help)
       /\ Case!ErrorCategory(results.second)' = Case!ErrorCategory(results.second)
   BY <2>2, <2>3 DEF Case!ErrorCategory
 <2>7. Case!BackendCapability(results.help, results.second)' = Case!BackendCapability(results.help, results.second)
   BY <2>2, <2>4, <2>5 DEF Case!BackendCapability, Case!Clean
 <2>8. Case!BenchCapability(results.help, results.second)' = Case!BenchCapability(results.help, results.second)
   BY <2>2, <2>4, <2>5, <2>6 DEF Case!BenchCapability
 <2> QED BY <2>1, <2>2, <2>3, <2>7, <2>8 DEF Case!Capability
<1>7. RanInOrder' BY <1>1, <1>5, <1>6 DEF CaseInv, RanInOrder, Case!NextOf, Case!Children
<1>8. \A x : Case!Worth(x)' = Case!Worth(x) BY <1>2 DEF Case!Worth
<1>9. \A d : Case!MediaOf(d)' = Case!MediaOf(d) BY <1>2 DEF Case!MediaOf
<1>10. PortableIsOfResults'
 <2>1. ASSUME NEW p \in portable PROVE \E d \in Case!Ran' : Published(d, p)'
  <3>1. PICK d \in Case!Ran : Published(d, p) BY <2>1 DEF CaseInv, PortableIsOfResults
  <3>2. Published(d, p)' BY <1>1, <1>2, <3>1 DEF Published, Case!Worth, Case!MediaOf
  <3> QED BY <1>1, <3>1, <3>2
 <2>2. ASSUME NEW p \in Case!Accepted(Case!Entries(c, r)) PROVE Published(c, p)'
  <3>1. PICK i \in 1 .. Len(Case!Entries(c, r)) : p = Case!Entries(c, r)[i] BY DEF Case!Accepted
  <3>2. \/ Case!Worth(r.out) /\ p = [text |-> r.out.text, media |-> Case!MediaOf(c)]
        \/ Case!Worth(r.err) /\ p = [text |-> r.err.text, media |-> "text/plain"]
    BY <3>1, EntriesOf
  <3> QED BY <1>1, <1>2, <3>2 DEF Published, Case!Worth, Case!MediaOf
 <2>3. \A p \in portable' : \E d \in Case!Ran' : Published(d, p)' BY <1>1, <2>1, <2>2
 <2>4. \A p, q \in portable' : p.text = q.text => p.media = q.media
   BY <1>1, AcceptedAgree DEF CaseInv, PortableIsOfResults
 <2> QED BY <2>3, <2>4 DEF PortableIsOfResults
<1>11. ASSUME Case!Accepted(Case!Entries(c, r)) # Case!Range(Case!Entries(c, r)) PROVE Blamed'
 <2>1. CASE r.out.text.is = "control" \/ r.err.text.is = "control" BY <1>1, <2>1 DEF Blamed
 <2>2. ASSUME NEW p \in portable
       PROVE  \E d \in Case!Ran :
                \/ /\ Case!Worth(results[d].out) /\ p.text = results[d].out.text /\ p.media = Case!MediaOf(d)
                \/ /\ Case!Worth(results[d].err) /\ p.text = results[d].err.text /\ p.media = "text/plain"
  <3>1. PICK d \in Case!Ran : Published(d, p) BY <2>2 DEF CaseInv, PortableIsOfResults
  <3> QED BY <3>1 DEF Published
 <2>3. \A d \in Case!Ran : Case!MediaOf(d) = "text/plain" BY <1>1 DEF CaseInv, RanInOrder, Case!MediaOf, Case!Children
 <2>4. \A p \in portable : p.media = "text/plain" BY <2>2, <2>3
 <2>5. CASE Case!MediaOf(c) = "text/plain" BY <1>11, <2>1, <2>4, <2>5, RefusalIsBlamed
 <2>6. CASE Case!MediaOf(c) # "text/plain"
  <3>1. kind = "backend-ops" /\ c = "work" BY <2>6 DEF Case!MediaOf
  <3>2. /\ Case!Ran = {"help", "second"} /\ results'.help = results.help /\ results'.second = results.second
        /\ results'.work = r
    BY <1>1, <1>6, <3>1
  <3>3. results.help.err.text = Case!Empty /\ results.second.err.text = Case!Empty
   <4>1. Case!BackendCapability(results.help, results.second) = Case!NoSample BY <1>1, <1>5, <3>1 DEF Case!Capability
   <4>2. results.help.outcome \in Endings /\ results.second.outcome \in Endings BY <3>2 DEF CaseInv, CaseTyped
   <4>3. Case!Clean(results.help) /\ Case!Clean(results.second) BY <4>1, <4>2, BackendCapable
   <4> QED BY <4>3 DEF Case!Clean
  <3>4. ASSUME NEW p \in portable, p.text = r.out.text
        PROVE  r.out.text \in {results.help.out.text, results.second.out.text}
    BY <2>2, <3>1, <3>2, <3>3, <3>4 DEF Case!Worth
  <3>5. \/ Case!Worth(r.out) /\ (r.out.text = r.err.text \/ \E p \in portable : p.text = r.out.text)
        \/ r.out.text.is = "control" \/ r.err.text.is = "control"
    BY <1>11, <2>4, RefusalIsBlamed
  <3>6. CASE /\ Case!Worth(r.out)
             /\ r.out.text \in {results.help.out.text, results.second.out.text, r.err.text}
    BY <1>1, <1>2, <3>1, <3>2, <3>6 DEF Blamed, Case!Worth
  <3> QED BY <2>1, <3>4, <3>5, <3>6
 <2> QED BY <2>5, <2>6
<1>12. CaseSampled'
 <2>1. pc' # "end" \/ Blamed' BY <1>1, <1>11 DEF Case!NextOf
 <2> QED BY <1>2, <1>3, <2>1 DEF CaseSampled
<1> QED BY <1>4, <1>7, <1>10, <1>12 DEF CaseInv

\* What no action but RunChild changes
LEMMA SameResults ==
  ASSUME UNCHANGED <<kind, results, portable>>
  PROVE  /\ Case!Ran' = Case!Ran /\ Case!Capability' = Case!Capability
         /\ Case!Verdict(results.work)' = Case!Verdict(results.work)
         /\ Blamed' = Blamed /\ PortableIsOfResults' = PortableIsOfResults
<1>1. Case!Ran' = Case!Ran BY DEF Case!Ran
<1>2. Case!Capability' = Case!Capability
  BY DEF Case!Capability, Case!BackendCapability, Case!BenchCapability, Case!Defects, Case!ErrorCategory, Case!Worst
<1>3. Case!Verdict(results.work)' = Case!Verdict(results.work)
  BY DEF Case!Verdict, Case!ClassifyTest, Case!ClassifyBench, Case!ErrorCategory
<1>4. Blamed' = Blamed BY <1>1 DEF Blamed
<1>5. PortableIsOfResults' = PortableIsOfResults BY <1>1 DEF PortableIsOfResults, Published, Case!Worth, Case!MediaOf
<1> QED BY <1>1, <1>2, <1>3, <1>4, <1>5

\* The invariant of a case is about its results, its place and its sample.
LEMMA CaseParts ==
  ASSUME CaseInv, UNCHANGED <<kind, results, portable>>, raised' \in BOOLEAN, intact' \in BOOLEAN,
         foul' \in {foul, {}}, intact' => intact \/ foul' = {}, pc' \in CaseStages, RanInOrder', CaseSampled'
  PROVE  CaseInv'
<1>1. Case!Ran' = Case!Ran /\ PortableIsOfResults' BY SameResults DEF CaseInv
<1>2. CaseTyped' BY <1>1 DEF CaseInv, CaseTyped
<1> QED BY <1>1, <1>2 DEF CaseInv

\* A step of another system leaves the case as it is.
LEMMA CaseStutters == ASSUME CaseInv, UNCHANGED Case!vars PROVE CaseInv'
<1>1. UNCHANGED <<kind, pc, raised, intact, results, foul, portable, sample>> BY DEF Case!vars
<1>2. /\ Case!Ran' = Case!Ran /\ Case!Capability' = Case!Capability /\ Blamed' = Blamed
      /\ Case!Verdict(results.work)' = Case!Verdict(results.work)
  BY <1>1, SameResults
<1>3. RanInOrder' BY <1>1, <1>2 DEF CaseInv, RanInOrder
<1>4. CaseSampled' BY <1>1, <1>2 DEF CaseInv, CaseSampled
<1> QED BY <1>1, <1>3, <1>4, CaseParts DEF CaseInv, CaseTyped

\* A probed case is never without a status.
LEMMA VerdictIsSample ==
  ASSUME CaseInv, pc = "settle"
  PROVE  Case!Verdict(results.work) # Case!NoSample
<1>1. results.work.outcome \in Endings /\ kind \in {"backend-ops", "llama-bench"}
  BY DEF CaseInv, CaseTyped, RanInOrder, Case!Children
<1> QED BY <1>1, TestVerdict, BenchVerdict DEF Case!Verdict

\* Every step of a case keeps its invariant.
LEMMA CaseKept == ASSUME CaseInv, Case!Next PROVE CaseInv'
<1> USE DEF CaseStages, Case!Children
<1>1. ASSUME NEW c \in Case!Children, Case!RunChild(c) PROVE CaseInv' BY <1>1, RunChildKept
<1>2. ASSUME NEW c \in {"second", "work"}, Case!Verify(c) PROVE CaseInv'
 <2>1. /\ UNCHANGED <<kind, intact, results, foul, portable, sample>>
       /\ pc = IF c = "second" THEN "before second" ELSE "before work"
       /\ IF intact THEN pc' = c /\ UNCHANGED raised ELSE pc' = "end" /\ raised' = TRUE
   BY <1>2 DEF Case!Verify, Case!Raise
 <2>2. Case!Ran' = Case!Ran /\ Case!Capability' = Case!Capability /\ sample = Case!NoSample
   BY <2>1, SameResults DEF CaseInv, CaseSampled
 <2>3. RanInOrder' BY <2>1, <2>2 DEF CaseInv, RanInOrder
 <2>4. CaseSampled' BY <2>1, <2>2 DEF CaseSampled
 <2>5. raised' \in BOOLEAN /\ intact' \in BOOLEAN /\ pc' \in CaseStages BY <2>1 DEF CaseInv, CaseTyped
 <2> QED BY <2>1, <2>3, <2>4, <2>5, CaseParts
<1>3. CASE Case!Evaluate
 <2>1. /\ UNCHANGED <<kind, intact, results, foul, portable>> /\ pc = "probed"
       /\ \/ Case!Capability = Case!NoSample /\ pc' = "before work" /\ UNCHANGED <<raised, sample>>
          \/ /\ Case!Capability # Case!NoSample /\ intact /\ pc' = "end"
             /\ sample' = Case!Capability /\ UNCHANGED raised
          \/ ~intact /\ pc' = "end" /\ raised' = TRUE /\ UNCHANGED sample
   BY <1>3 DEF Case!Evaluate, Case!Raise
 <2>2. Case!Ran' = Case!Ran /\ Case!Capability' = Case!Capability /\ sample = Case!NoSample
   BY <2>1, SameResults DEF CaseInv, CaseSampled
 <2>3. Case!Ran = {"help", "second"} /\ (intact => foul = {}) BY <2>1 DEF CaseInv, RanInOrder, CaseTyped
 <2>4. RanInOrder' BY <2>1, <2>2, <2>3 DEF RanInOrder
 <2>5. CaseSampled' BY <2>1, <2>2, <2>3 DEF CaseSampled
 <2>6. raised' \in BOOLEAN /\ intact' \in BOOLEAN /\ pc' \in CaseStages BY <2>1 DEF CaseInv, CaseTyped
 <2> QED BY <2>1, <2>4, <2>5, <2>6, CaseParts
<1>4. CASE Case!Settle
 <2>1. /\ UNCHANGED <<kind, intact, results, foul, portable>> /\ pc = "settle" /\ pc' = "end"
       /\ \/ intact /\ sample' = Case!Verdict(results.work) /\ UNCHANGED raised
          \/ ~intact /\ raised' = TRUE /\ UNCHANGED sample
   BY <1>4 DEF Case!Settle, Case!Raise
 <2>2. /\ Case!Ran' = Case!Ran /\ Case!Capability' = Case!Capability /\ sample = Case!NoSample
       /\ Case!Verdict(results.work)' = Case!Verdict(results.work)
   BY <2>1, SameResults DEF CaseInv, CaseSampled
 <2>3. Case!Ran = Case!Children /\ (intact => foul = {}) /\ Case!Capability = Case!NoSample
   BY <2>1 DEF CaseInv, RanInOrder, CaseTyped
 <2>4. RanInOrder' BY <2>1, <2>2, <2>3 DEF RanInOrder
 <2>5. CaseSampled' BY <2>1, <2>2, <2>3, VerdictIsSample DEF CaseSampled
 <2>6. raised' \in BOOLEAN /\ intact' \in BOOLEAN /\ pc' \in CaseStages BY <2>1 DEF CaseInv, CaseTyped
 <2> QED BY <2>1, <2>4, <2>5, <2>6, CaseParts
<1>5. CASE Case!Drift
 <2>1. UNCHANGED <<kind, pc, raised, results, foul, portable, sample>> /\ pc # "end" /\ intact' = FALSE
   BY <1>5 DEF Case!Drift
 <2>2. Case!Ran' = Case!Ran /\ Case!Capability' = Case!Capability BY <2>1, SameResults
 <2>3. RanInOrder' BY <2>1, <2>2 DEF CaseInv, RanInOrder
 <2>4. CaseSampled' BY <2>1 DEF CaseInv, CaseSampled
 <2>5. raised' \in BOOLEAN /\ pc' \in CaseStages BY <2>1 DEF CaseInv, CaseTyped
 <2> QED BY <2>1, <2>3, <2>4, <2>5, CaseParts
<1>6. CASE Case!Restore
 <2>1. UNCHANGED <<kind, pc, raised, results, portable, sample>> /\ pc # "end" /\ intact' = TRUE /\ foul' = {}
   BY <1>6 DEF Case!Restore
 <2>2. Case!Ran' = Case!Ran /\ Case!Capability' = Case!Capability BY <2>1, SameResults
 <2>3. RanInOrder' BY <2>1, <2>2 DEF CaseInv, RanInOrder
 <2>4. CaseSampled' BY <2>1 DEF CaseInv, CaseSampled
 <2>5. raised' \in BOOLEAN /\ pc' \in CaseStages BY <2>1 DEF CaseInv, CaseTyped
 <2> QED BY <2>1, <2>3, <2>4, <2>5, CaseParts
<1>7. CASE UNCHANGED Case!vars BY <1>7, CaseStutters
<1> QED BY <1>1, <1>2, <1>3, <1>4, <1>5, <1>6, <1>7 DEF Case!Next, Case!Done

\* A case starts with nothing run.
LEMMA CaseStarts == ASSUME Case!Init PROVE CaseInv
<1>1. Case!Ran = {} BY DEF Case!Init, Case!Ran
<1>2. CaseTyped /\ RanInOrder BY <1>1 DEF Case!Init, CaseTyped, RanInOrder, CaseStages, Case!Children
<1>3. CaseSampled /\ PortableIsOfResults BY DEF Case!Init, CaseSampled, PortableIsOfResults
<1> QED BY <1>2, <1>3 DEF CaseInv

----------------------------------------
(* What the invariant of a case says *)

\* A sample is what the probes or the work gave.
LEMMA CaseSample ==
  ASSUME CaseInv, sample # Case!NoSample
  PROVE  /\ foul = {} /\ kind \in {"backend-ops", "llama-bench"}
         /\ results.help.outcome \in Endings /\ results.second.outcome \in Endings
         /\ \/ "work" \notin Case!Ran /\ sample = Case!Capability
            \/ /\ "work" \in Case!Ran /\ results.work.outcome \in Endings
               /\ Case!Capability = Case!NoSample /\ sample = Case!Verdict(results.work)
<1>1. /\ foul = {}
      /\ \/ Case!Ran = {"help", "second"} /\ sample = Case!Capability
         \/ Case!Ran = Case!Children /\ sample = Case!Verdict(results.work)
  BY DEF CaseInv, CaseSampled
<1> QED BY <1>1 DEF CaseInv, CaseTyped, RanInOrder, Case!Children

\* Every variable of a case keeps its range.
LEMMA CaseTypes == ASSUME CaseInv PROVE Case!TypeOK
BY DEF CaseInv, CaseTyped, PortableIsOfResults, CaseStages, Case!TypeOK

\* A sample is of no child that ran while the inputs were not as named.
LEMMA IntactSample == ASSUME CaseInv PROVE Case!SampleIsOfIntactInputs
BY CaseSample DEF Case!SampleIsOfIntactInputs

\* A pass is earned.
LEMMA EarnedPass == ASSUME CaseInv PROVE Case!PassIsEarned
<1> SUFFICES ASSUME sample.status = "passed" PROVE Case!PassIsEarned BY DEF Case!PassIsEarned
<1> DEFINE r == results.work
<1>1. sample # Case!NoSample BY DEF Case!NoSample
<1>2. kind = "backend-ops" /\ Case!Capability = Case!NoSample /\ sample = Case!Verdict(r) /\ r.outcome \in Endings
 <2>1. ~(sample = Case!Capability)
  <3>1. CASE kind = "backend-ops" BY <1>1, <3>1, CaseSample, BackendCapable DEF Case!Capability, DefectStatuses
  <3>2. CASE kind = "llama-bench" BY <1>1, <3>2, CaseSample, BenchCapable DEF Case!Capability
  <3> QED BY <1>1, <3>1, <3>2, CaseSample
 <2>2. kind = "llama-bench" => Case!ClassifyBench(r).status # "passed" BY DEF Case!ClassifyBench
 <2> QED BY <1>1, <2>1, <2>2, CaseSample DEF Case!Verdict
<1>3. sample = Case!ClassifyTest(r) BY <1>2 DEF Case!Verdict
<1>4. /\ Case!ErrorCategory(r) = "none" /\ r.code = 0 /\ Case!ParsesAsRows(r.out.text)
      /\ Case!GateReason(r.out.text.rows) = "passed"
  BY <1>2, <1>3, TestVerdict DEF DefectStatuses
<1>5. r.outcome = "exited" /\ r.out.exact /\ r.err.exact BY <1>2, <1>4, CategoryOf
<1>6. /\ \A x \in Case!Range(r.out.text.rows) : x.bound /\ x.supported = "1" /\ x.error = "" /\ x.op \in Asked
      /\ \A op \in Asked : \E x \in Case!Range(r.out.text.rows) : x.op = op
  BY <1>4, GatePassed, RowsThatParse
<1>7. results.help.code = 1 /\ results.second.out.text.is = "all operations"
  BY <1>1, <1>2, CaseSample, BackendCapable DEF Case!Capability
<1> QED BY <1>4, <1>5, <1>6, <1>7 DEF Case!PassIsEarned

\* A measurement is earned.
LEMMA EarnedMeasurement == ASSUME CaseInv PROVE Case!MeasurementIsEarned
<1> SUFFICES ASSUME sample.status = "success" PROVE Case!MeasurementIsEarned BY DEF Case!MeasurementIsEarned
<1> DEFINE r == results.work
<1>1. sample # Case!NoSample BY DEF Case!NoSample
<1>2. kind = "llama-bench" /\ Case!Capability = Case!NoSample /\ sample = Case!Verdict(r) /\ r.outcome \in Endings
 <2>1. ~(sample = Case!Capability)
  <3>1. CASE kind = "backend-ops" BY <1>1, <3>1, CaseSample, BackendCapable DEF Case!Capability, DefectStatuses
  <3>2. CASE kind = "llama-bench" BY <1>1, <3>2, CaseSample, BenchCapable DEF Case!Capability
  <3> QED BY <1>1, <3>1, <3>2, CaseSample
 <2>2. kind = "backend-ops" /\ r.outcome \in Endings => Case!ClassifyTest(r).status # "success"
   BY TestVerdict DEF DefectStatuses
 <2> QED BY <1>1, <2>1, <2>2, CaseSample DEF Case!Verdict
<1>3. sample = Case!ClassifyBench(r) BY <1>2 DEF Case!Verdict
<1>4. Case!ErrorCategory(r) = "none" /\ r.out.text.is = "measured" BY <1>2, <1>3, BenchVerdict
<1>5. r.outcome = "exited" /\ r.out.exact /\ r.err.exact /\ r.code = 0 BY <1>2, <1>4, CategoryOf
<1>6. /\ results.help.code = 0 /\ results.second.code = 1 /\ results.second.err.text.is = "no such parameter"
      /\ results.help.outcome = "exited" /\ results.help.out.exact /\ results.help.err.exact
      /\ results.second.outcome = "exited" /\ results.second.out.exact /\ results.second.err.exact
  BY <1>1, <1>2, CaseSample, BenchCapable DEF Case!Capability
<1> QED BY <1>4, <1>5, <1>6 DEF Case!MeasurementIsEarned, Case!Children

\* A sample's fields agree with its status, and the suite has a category for it.
LEMMA ConsistentCase == ASSUME CaseInv PROVE Case!SampleIsConsistent
<1> SUFFICES ASSUME sample # Case!NoSample PROVE Case!SampleIsConsistent BY DEF Case!SampleIsConsistent
<1>1. ASSUME kind = "backend-ops", "work" \notin Case!Ran PROVE Case!SampleIsConsistent
 <2>1. \/ sample.reason = "none" /\ sample.status \in DefectStatuses
       \/ sample.reason # "none" /\ sample.status = "capability-failed"
  <3>1. /\ sample = Case!BackendCapability(results.help, results.second)
        /\ results.help.outcome \in Endings /\ results.second.outcome \in Endings
    BY <1>1, CaseSample DEF Case!Capability
  <3> QED BY <3>1, BackendCapable
 <2>2. Case!BackendCategory(sample.status) # "adapter-failed"
  <3>1. CASE sample.status = "capability-failed" BY <3>1 DEF Case!BackendCategory
  <3>2. CASE sample.status \in DefectStatuses BY <3>2 DEF Case!BackendCategory, DefectStatuses
  <3> QED BY <2>1, <3>1, <3>2
 <2> QED BY <1>1, <2>1, <2>2 DEF Case!SampleIsConsistent, DefectStatuses
<1>2. ASSUME kind = "backend-ops", "work" \in Case!Ran PROVE Case!SampleIsConsistent
 <2>1. sample = Case!ClassifyTest(results.work) /\ results.work.outcome \in Endings
   BY <1>2, CaseSample DEF Case!Verdict
 <2>2. /\ sample.reason = "none"
       /\ \/ sample.status \in DefectStatuses /\ sample.gate = "none"
          \/ /\ sample.status = "child-failed" \/ (sample.status = "parse-failed" /\ sample.rows = << >>)
             /\ sample.gate = "none" /\ Case!ErrorCategory(results.work) = "none"
          \/ /\ sample.status = IF sample.gate = "passed" THEN "passed" ELSE "hard-gate-failed"
             /\ sample.gate = Case!GateReason(results.work.out.text.rows)
             /\ Case!ErrorCategory(results.work) = "none" /\ Case!ParsesAsRows(results.work.out.text)
   BY <1>2, <2>1, TestVerdict
 <2>3. CASE sample.status \in DefectStatuses /\ sample.gate = "none"
  <3>1. Case!BackendCategory(sample.status) # "adapter-failed" BY <2>3 DEF Case!BackendCategory, DefectStatuses
  <3> QED BY <1>2, <2>2, <2>3, <3>1 DEF Case!SampleIsConsistent, DefectStatuses
 <2>4. CASE /\ sample.status = "child-failed" \/ (sample.status = "parse-failed" /\ sample.rows = << >>)
            /\ sample.gate = "none" /\ Case!ErrorCategory(results.work) = "none"
  <3>1. Case!BackendCategory(sample.status) # "adapter-failed" BY <2>4 DEF Case!BackendCategory
  <3> QED BY <1>2, <2>2, <2>4, <3>1 DEF Case!SampleIsConsistent
 <2>5. CASE /\ sample.status = IF sample.gate = "passed" THEN "passed" ELSE "hard-gate-failed"
            /\ sample.gate = Case!GateReason(results.work.out.text.rows)
            /\ Case!ErrorCategory(results.work) = "none" /\ Case!ParsesAsRows(results.work.out.text)
  <3>1. sample.gate \notin {"no-rows", "wrong-backend"} BY <2>5, RowsThatParse
  <3>2. sample.gate # "none" BY <2>5 DEF Case!GateReason
  <3>3. sample.status \in {"passed", "hard-gate-failed"} /\ (sample.status = "passed" <=> sample.gate = "passed")
    BY <2>5
  <3>4. Case!BackendCategory(sample.status) # "adapter-failed" BY <3>3 DEF Case!BackendCategory
  <3> QED BY <1>2, <2>2, <2>5, <3>1, <3>2, <3>3, <3>4 DEF Case!SampleIsConsistent
 <2> QED BY <2>2, <2>3, <2>4, <2>5
<1>3. ASSUME kind = "llama-bench", "work" \notin Case!Ran PROVE Case!SampleIsConsistent
 <2>1. sample.status = "capability-failed" /\ sample.reason # "success"
  <3>1. /\ sample = Case!BenchCapability(results.help, results.second)
        /\ results.help.outcome \in Endings /\ results.second.outcome \in Endings
    BY <1>3, CaseSample DEF Case!Capability
  <3> QED BY <1>3, <3>1, BenchCapable
 <2>2. Case!BenchCategory(<<sample.status, sample.reason>>) # "adapter-failed" BY <2>1 DEF Case!BenchCategory
 <2> QED BY <1>3, <2>1, <2>2 DEF Case!SampleIsConsistent
<1>4. ASSUME kind = "llama-bench", "work" \in Case!Ran PROVE Case!SampleIsConsistent
 <2>1. sample = Case!ClassifyBench(results.work) /\ results.work.outcome \in Endings
   BY <1>4, CaseSample DEF Case!Verdict
 <2>2. /\ sample.status # "capability-failed" /\ (sample.status = "success" <=> sample.reason = "success")
       /\ Case!BenchCategory(<<sample.status, sample.reason>>) # "adapter-failed"
   BY <1>4, <2>1, BenchVerdict
 <2> QED BY <1>4, <2>2 DEF Case!SampleIsConsistent
<1> QED BY <1>1, <1>2, <1>3, <1>4, CaseSample

\* Only drift and refused evidence leave no sample.
LEMMA SampledOutcomes == ASSUME CaseInv PROVE Case!OutcomesHaveSamples
<1>1. \A c \in Case!Ran : results[c].out.text.is = "control" \/ results[c].err.text.is = "control" =>
        \E stream \in {"out", "err"} : results[c][stream].text.is = "control"
  OBVIOUS
<1> QED BY <1>1 DEF CaseInv, CaseSampled, Blamed, Case!OutcomesHaveSamples

\* CaseInv is an invariant, whatever the children do and print and whenever the inputs drift.
THEOREM CaseInvariance == Spec => [](system = "case" => CaseInv)
<1>1. Init => (system = "case" => CaseInv) BY CaseStarts DEF Init
<1>2. (system = "case" => CaseInv) /\ [Next]_vars => (system = "case" => CaseInv)'
 <2> SUFFICES ASSUME system = "case" => CaseInv, [Next]_vars, system' = "case" PROVE CaseInv' OBVIOUS
 <2>1. CASE UNCHANGED vars
  <3>1. system = "case" /\ UNCHANGED Case!vars BY <2>1 DEF vars, caseVars, Case!vars
  <3> QED BY <3>1, CaseStutters
 <2>2. CASE Next
  <3>1. Case!Next /\ system = "case" BY <2>2 DEF Next
  <3> QED BY <3>1, CaseKept
 <2> QED BY <2>1, <2>2
<1> QED BY <1>1, <1>2, PTL DEF Spec

\* CaseSampleIsTruthful: the sample of a backend-ops or llama-bench case is one its validator
\* accepts, a pass or a measurement is earned, and only drift and refused evidence leave none.
THEOREM CaseSampleTruthful == Spec => []CaseSampleIsTruthful
<1>1. (system = "case" => CaseInv) => CaseSampleIsTruthful
  BY CaseTypes, IntactSample, EarnedPass, EarnedMeasurement, ConsistentCase, SampledOutcomes DEF CaseSampleIsTruthful
<1> QED BY <1>1, CaseInvariance, PTL


----------------------------------------
(* The invariant of portable evidence *)

\* Steps of a write that is past its load, of those the steps before its entry is there and the
\* steps after its blob is durable; steps of a finalization or recovery past its load
Writing   == {"check", "blob", "blob.mkdir", "blob.fill", "blob.rename", "blob.sync", "entry", "entry.mkdir",
              "entry.fill", "entry.rename", "entry.sync"}
Accepted  == Writing \ {"check", "entry.sync"}
Publishing == {"entry", "entry.mkdir", "entry.fill", "entry.rename", "entry.sync"}
Reconciling == {"orphans", "remove", "remove.sync", "done"}

\* What a power failure may make of the two directories; the directories that are new, and those
\* that are written to
EntryStates == entriesBefore \cup {entries}
BlobStates  == blobsBefore \cup {blobs}
Fresh       == unsynced \ unsure
Used        == made \ Fresh

EntryTemp == [entry : Portable!EntryType, sequence : Nat, whole : BOOLEAN]
BlobTemp  == [blob : Portable!Blobs, whole : BOOLEAN]
EntryDirectory == [done : Seq(Portable!EntryType), temps : Seq(EntryTemp)]
BlobDirectory  == [done : SUBSET Portable!Blobs, temps : Seq(BlobTemp)]

\* Every variable keeps to its range, and so does all that a power failure may bring back.
EvidenceTyped ==
  /\ at \in Portable!Steps /\ by \in {"write", "finalization", "recovery"} /\ offer \in Offers
  /\ EntryStates \subseteq EntryDirectory /\ BlobStates \subseteq BlobDirectory
  /\ made \subseteq {"portable", "blobs", "entries"} /\ unsure \subseteq unsynced /\ unsynced \subseteq made
  /\ orphans \subseteq Portable!Blobs /\ returned \subseteq Portable!EntryType
  /\ lost \in BOOLEAN /\ trouble \in 0 .. MaxPortableTrouble

\* A directory that may be lost is empty, unless its fsync failed: then it takes two troubles.
DirectoriesKept ==
  /\ made # {} => "portable" \in made
  /\ {"portable", "entries"} \subseteq Used \/ (entries = Portable!NoEntries /\ entriesBefore = {})
  /\ {"portable", "blobs"} \subseteq Used \/ (blobs = Portable!NoBlobs /\ blobsBefore = {})
  /\ Fresh # {} => at \in {"blob.mkdir", "entry.mkdir", "dead"} \/ by = "recovery"
  /\ at = "blob.mkdir" => Fresh = IF "blobs" \in made THEN {"blobs"} ELSE {"portable"}
  /\ at = "entry.mkdir" => Fresh = {"entries"}
  /\ unsure # {} => trouble >= 1
  /\ lost => trouble >= 2

\* Whose code runs, and what it has established by the step it is at.
CallPlaced ==
  /\ at \in Writing \cup {"session"} => by = "write"
  /\ at \in Reconciling \cup {"stuck"} => by # "write"
  /\ by = "write" /\ at \notin {"session", "dead"} => offer.fits
  /\ at \in Accepted => Portable!Acceptable(offer)
  /\ at \in Publishing => blobsBefore = {}
  /\ at \in Publishing \cup {"blob.sync"} => offer.blob \in blobs.done
  /\ at = "entry.sync" => Portable!Entry(offer) \in Portable!Range(entries.done)
  /\ at \in {"remove", "remove.sync"} => orphans = blobs.done \ Portable!BlobsOf(entries.done)
  /\ at \in Reconciling \cup {"load.sync"} => Portable!BlobsOf(entries.done) \subseteq blobs.done

\* One entry is written at a time, of the offer; without trouble nothing but its write is unsynced.
EntryTempsPlaced ==
  /\ at \in (Writing \cup Reconciling \cup {"load.sync"}) \ {"entry.fill", "entry.rename"} =>
       entries.temps = << >>
  /\ at \in {"entry.fill", "entry.rename"} =>
       entries.temps # << >> /\ entries.temps[1].entry = Portable!Entry(offer)
  /\ trouble = 0 /\ at \notin {"entry.fill", "entry.rename", "entry.sync"} =>
       entriesBefore = {} /\ entries.temps = << >>

\* A blob temp is being written or was left by some trouble.
BlobTempsCounted ==
  /\ at \in {"blob.fill", "blob.rename"} => blobs.temps # << >>
  /\ at \notin {"blob.fill", "blob.rename"} => Len(blobs.temps) <= trouble
  /\ at \in {"remove", "remove.sync"} => Len(blobs.temps) <= 1
  /\ \A bs \in BlobStates : Len(bs.temps) <= trouble + 1

\* Entries that keep the policy, and at most the temp of the one that is next
LegalState(es) ==
  /\ Portable!PolicyOf(es.done) /\ Len(es.temps) <= 1
  /\ es.temps # << >> =>
       /\ es.temps[1].sequence = Len(es.done) + 1
       /\ es.temps[1].entry.path \notin Portable!PathsOf(es.done)

\* The entries a power failure may go back to are legal and hold all that was returned, no directory
\* being lost.
EntriesLegal ==
  \A es \in EntryStates :
    /\ LegalState(es) /\ Portable!Range(es.done) \subseteq Portable!Range(entries.done)
    /\ lost \/ returned \subseteq Portable!Range(es.done)

\* The blobs of the entries survive; that of a temp does unless two troubles come together.
EntriesBacked ==
  lost \/ \A bs \in BlobStates :
    /\ Portable!BlobsOf(entries.done) \subseteq bs.done
    /\ entries.temps # << >> /\ trouble < 2 => entries.temps[1].entry.blob \in bs.done
    /\ trouble = 0 => \A es \in EntryStates : es.temps # << >> => es.temps[1].entry.blob \in bs.done

EvidenceInv ==
  /\ EvidenceTyped /\ DirectoriesKept /\ CallPlaced /\ EntryTempsPlaced /\ BlobTempsCounted
  /\ EntriesLegal /\ EntriesBacked /\ Portable!RecordIsExact /\ Portable!RefusalsHaveACause

----------------------------------------
(* What a step does to the two directories *)

\* An entry more makes one path and at most one blob more.
LEMMA EntryAppended ==
  ASSUME NEW es \in Seq(Portable!EntryType), NEW e \in Portable!EntryType
  PROVE  /\ Append(es, e) \in Seq(Portable!EntryType) /\ Append(es, e) # << >>
         /\ Len(Append(es, e)) = Len(es) + 1
         /\ Portable!Range(Append(es, e)) = Portable!Range(es) \cup {e}
         /\ Portable!PathsOf(Append(es, e)) = Portable!PathsOf(es) \cup {e.path}
         /\ Portable!BlobsOf(Append(es, e)) = Portable!BlobsOf(es) \cup {e.blob}
<1>1. /\ Append(es, e) \in Seq(Portable!EntryType) /\ Append(es, e) # << >>
      /\ Len(Append(es, e)) = Len(es) + 1 /\ Len(es) \in Nat
      /\ \A i \in 1 .. Len(es) : Append(es, e)[i] = es[i]
      /\ Append(es, e)[Len(es) + 1] = e
  BY AppendProperties
<1>2. DOMAIN es = 1 .. Len(es) /\ DOMAIN Append(es, e) = 1 .. Len(es) + 1 BY <1>1
<1>3. Portable!Range(Append(es, e)) = Portable!Range(es) \cup {e} BY <1>1, <1>2 DEF Portable!Range
<1> QED BY <1>1, <1>3 DEF Portable!PathsOf, Portable!BlobsOf

\* The library operators of the instance are those of this module.
LEMMA PortableCardinality == ASSUME NEW S PROVE Portable!Cardinality(S) = Cardinality(S)
BY DEF Portable!Cardinality, Cardinality

\* A sequence that has one element at most, and has one
LEMMA OnlyOne ==
  ASSUME NEW S, NEW s \in Seq(S), s # << >>, Len(s) <= 1
  PROVE  Len(s) = 1 /\ s[1] \in S /\ s = <<s[1]>>
<1>1. Len(s) \in Nat /\ Len(s) # 0 OBVIOUS
<1>2. \A n \in Nat : n # 0 /\ n <= 1 => n = 1 OBVIOUS
<1>3. Len(s) = 1 BY <1>1, <1>2
<1> QED BY <1>3

\* What filling makes of a temp, and adding and filling one of the directory
LEMMA FilledTemp ==
  ASSUME NEW t \in EntryTemp
  PROVE  /\ [t EXCEPT !.whole = TRUE] = [entry |-> t.entry, sequence |-> t.sequence, whole |-> TRUE]
         /\ [<<t>> EXCEPT ![1].whole = TRUE] = <<[t EXCEPT !.whole = TRUE]>>
<1> DEFINE filled == [t EXCEPT !.whole = TRUE]
<1>1. filled = [entry |-> t.entry, sequence |-> t.sequence, whole |-> TRUE]
 <2>1. filled \in [entry : Portable!EntryType, sequence : Nat, whole : BOOLEAN] BY DEF EntryTemp
 <2>2. filled.entry = t.entry /\ filled.sequence = t.sequence /\ filled.whole = TRUE BY DEF EntryTemp
 <2> HIDE DEF filled
 <2>3. filled = [entry |-> filled.entry, sequence |-> filled.sequence, whole |-> filled.whole] BY <2>1
 <2> QED BY <2>2, <2>3, Zenon
<1>2. ASSUME NEW u PROVE [<<t>> EXCEPT ![1] = u] = <<u>> OBVIOUS
<1>3. [<<t>> EXCEPT ![1].whole = TRUE] = [<<t>> EXCEPT ![1] = [t EXCEPT !.whole = TRUE]] OBVIOUS
<1> QED BY <1>1, <1>2, <1>3

LEMMA OtherTemps ==
  ASSUME NEW d \in EntryDirectory, NEW ts
  PROVE  [d EXCEPT !.temps = ts] = [done |-> d.done, temps |-> ts]
BY DEF EntryDirectory

\* A sequence of entries has finitely many paths and blobs.
LEMMA EntriesAreFinite ==
  ASSUME NEW es \in Seq(Portable!EntryType)
  PROVE  IsFiniteSet(Portable!PathsOf(es)) /\ IsFiniteSet(Portable!BlobsOf(es))
<1> DEFINE ps == [i \in 1 .. Len(es) |-> es[i].path]
           bs == [i \in 1 .. Len(es) |-> es[i].blob]
<1>1. Len(es) \in Nat /\ DOMAIN es = 1 .. Len(es) OBVIOUS
<1>2. ps \in Seq(Portable!PathsOf(es)) /\ Len(ps) = Len(es) BY <1>1 DEF Portable!PathsOf, Portable!Range
<1>3. bs \in Seq(Portable!BlobsOf(es)) /\ Len(bs) = Len(es) BY <1>1 DEF Portable!BlobsOf, Portable!Range
<1>4. \A p \in Portable!PathsOf(es) : \E n \in 1 .. Len(ps) : ps[n] = p
  BY <1>1, <1>2 DEF Portable!PathsOf, Portable!Range
<1>5. \A b \in Portable!BlobsOf(es) : \E n \in 1 .. Len(bs) : bs[n] = b
  BY <1>1, <1>3 DEF Portable!BlobsOf, Portable!Range
<1> HIDE DEF ps, bs
<1> QED BY <1>2, <1>3, <1>4, <1>5 DEF IsFiniteSet

\* What write_portable accepts keeps the policy.
LEMMA PolicyIsKept ==
  ASSUME NEW o \in Offers, o.fits, entries.done \in Seq(Portable!EntryType),
         Portable!PolicyOf(entries.done), Portable!Acceptable(o)
  PROVE  Portable!PolicyOf(Append(entries.done, Portable!Entry(o)))
<1> DEFINE es  == entries.done
           e   == Portable!Entry(o)
           new == Append(es, e)
<1>1. e \in Portable!EntryType /\ e.path = o.path /\ e.blob = o.blob /\ e.media = o.media /\ e.fits
  BY DEF Portable!Entry, Portable!EntryType
<1>2. /\ new # << >> /\ Len(new) = Len(es) + 1 /\ Len(es) \in Nat
      /\ Portable!Range(new) = Portable!Range(es) \cup {e}
      /\ Portable!PathsOf(new) = Portable!PathsOf(es) \cup {o.path}
      /\ Portable!BlobsOf(new) = Portable!BlobsOf(es) \cup {o.blob}
  BY <1>1, EntryAppended
<1>3. MaxEntries \in Nat BY OperationsAssumption DEF Portable!OfferAssumption
<1>4. /\ o.path \notin Portable!PathsOf(es)
      /\ \A x \in Portable!Range(es) : x.blob = o.blob => x.media = o.media
      /\ Len(es) < MaxEntries
      /\ Portable!Aggregate(Portable!BlobsOf(new)) <= MaxAggregate
      /\ Cardinality(Portable!BlobsOf(new)) + Len(es) + 1 <= MaxFiles
 <2>1. /\ o.path \notin Portable!PathsOf(es)
       /\ \A x \in Portable!Range(es) : x.blob = o.blob => x.media = o.media
       /\ Portable!WithinLimits(o)
   BY DEF Portable!Acceptable
 <2>2. /\ Len(es) < MaxEntries
       /\ Portable!Aggregate(Portable!BlobsOf(es) \cup {o.blob}) <= MaxAggregate
       /\ Cardinality(Portable!BlobsOf(es) \cup {o.blob}) + Len(es) + 1 <= MaxFiles
   BY <2>1, PortableCardinality DEF Portable!WithinLimits
 <2> HIDE DEF es, new
 <2> QED BY <1>2, <2>1, <2>2
<1>5. Cardinality(Portable!PathsOf(new)) = Len(new)
 <2>1. Cardinality(Portable!PathsOf(es)) = Len(es) BY PortableCardinality DEF Portable!PolicyOf
 <2>2. IsFiniteSet(Portable!PathsOf(es)) BY EntriesAreFinite
 <2> HIDE DEF new, es
 <2>3. Cardinality(Portable!PathsOf(es) \cup {o.path}) = Cardinality(Portable!PathsOf(es)) + 1
   BY <1>4, <2>2, FS_AddElement
 <2> QED BY <1>2, <2>1, <2>3
<1>6. Cardinality(Portable!BlobsOf(new)) + Len(new) <= MaxFiles
 <2>1. Cardinality(Portable!BlobsOf(new)) \in Nat
  <3>1. IsFiniteSet(Portable!BlobsOf(new)) BY <1>1, EntriesAreFinite, EntryAppended
  <3> QED BY <3>1, FS_CardinalityType
 <2> QED BY <1>2, <1>4, <2>1
<1>7. Portable!SingleMedia(new) /\ \A x \in Portable!Range(new) : x.fits
  BY <1>1, <1>2, <1>4 DEF Portable!SingleMedia, Portable!PolicyOf
<1> QED
 <2>1. Len(new) <= MaxEntries BY <1>2, <1>3, <1>4
 <2> HIDE DEF new, es, e
 <2>2. Portable!PolicyOf(new) BY <1>4, <1>5, <1>6, <1>7, <2>1, PortableCardinality DEF Portable!PolicyOf
 <2> QED BY <2>2 DEF new, es, e

\* What may become of the entries: their changes are synced, the temp is removed, written or renamed
\* to a committed entry, or the power fails.
EntriesSame  == entries' = entries /\ EntryStates' \subseteq EntryStates
EntriesMore  == EntryStates' \subseteq EntryStates \cup {entries'}
TempOf(whole) == [entry |-> Portable!Entry(offer), sequence |-> Len(entries.done) + 1, whole |-> whole]
TempRemoved  == EntriesMore /\ entries' = [done |-> entries.done, temps |-> << >>]
TempWritten  ==
  /\ EntriesMore /\ at \in {"entry", "entry.fill"}
  /\ \E whole \in BOOLEAN : entries' = [done |-> entries.done, temps |-> <<TempOf(whole)>>]
TempRenamed  ==
  /\ EntriesMore /\ at = "entry.rename"
  /\ entries' = [done |-> Append(entries.done, Portable!Entry(offer)), temps |-> << >>]
EntriesLost  ==
  /\ entries' \in EntryStates \/ (lost' /\ entries' = Portable!NoEntries)
  /\ EntryStates' = {entries'} /\ trouble' = trouble + 1

\* And of the blobs: likewise, but that orphans are removed
BlobsSame  == blobs' = blobs /\ BlobStates' \subseteq BlobStates
BlobsMore  == BlobStates' \subseteq BlobStates \cup {blobs'} /\ blobs' \in BlobDirectory
BlobTemps(n) == BlobsMore /\ blobs'.done = blobs.done /\ Len(blobs'.temps) = n
BlobRenamed ==
  /\ BlobsMore /\ at = "blob.rename"
  /\ blobs'.done = blobs.done \cup {offer.blob} /\ Len(blobs'.temps) = Len(blobs.temps) - 1
OrphanGone ==
  /\ BlobsMore /\ at = "remove" /\ blobs'.temps = blobs.temps
  /\ \E b \in orphans : blobs'.done = blobs.done \ {b}
BlobsLost  ==
  /\ blobs' \in BlobStates \/ (lost' /\ blobs' = Portable!NoBlobs)
  /\ BlobStates' = {blobs'} /\ trouble' = trouble + 1

\* Steps that leave the directories as they are, that make or sync one of them, and that sync what
\* is in one
Idle ==
  \/ Portable!Load \/ Portable!LoadRefused \/ Portable!Check \/ Portable!ReuseBlob \/ Portable!Recover
  \/ Portable!ListBlobs \/ Portable!Settle \/ Portable!Call \/ Portable!End \/ Portable!Kill \/ Portable!Done
Making ==
  \/ Portable!MakeDirectory("blob", "blobs") \/ Portable!SyncDirectory("blob", "blobs")
  \/ Portable!MakeDirectory("entry", "entries") \/ Portable!SyncDirectory("entry", "entries")
Syncing == Portable!SyncLoad \/ Portable!SyncBlob \/ Portable!SyncRemoval \/ Portable!Return
Changing ==
  \/ Portable!RemoveEntryTemp \/ Portable!CreateBlob \/ Portable!FillBlob \/ Portable!RenameBlob
  \/ Portable!CreateEntry \/ Portable!FillEntry \/ Portable!RenameEntry
  \/ Portable!RemoveOrphan \/ Portable!RemoveBlobTemp

\* Every step is one of these, a failing call or a power failure.
LEMMA EvidenceSteps ==
  ASSUME Portable!Next
  PROVE  Idle \/ Making \/ Syncing \/ Changing \/ Portable!Error \/ Portable!PowerFailure
BY DEF Portable!Next, Portable!Step, Idle, Making, Syncing, Changing

\* What they leave alone
LEMMA IdleEffect ==
  ASSUME Idle
  PROVE  /\ UNCHANGED <<entries, blobs, entriesBefore, blobsBefore, made, unsynced, unsure, lost, returned>>
         /\ trouble' = trouble \/ (trouble' = trouble + 1 /\ Portable!Kill)
BY DEF Idle, Portable!Load, Portable!LoadRefused, Portable!Check, Portable!ReuseBlob, Portable!Recover,
  Portable!ListBlobs, Portable!Settle, Portable!Call, Portable!End, Portable!Kill, Portable!Done, Portable!Trouble,
  Portable!vars, Portable!diskVars, Portable!dirVars

LEMMA MakingEffect ==
  ASSUME Making
  PROVE  /\ UNCHANGED <<by, offer, entries, blobs, entriesBefore, blobsBefore, lost, orphans, returned, trouble>>
         /\ \/ at = "blob" /\ at' = "blob.mkdir"
            \/ at = "blob.mkdir" /\ at' = "blob"
            \/ at = "entry" /\ at' = "entry.mkdir"
            \/ at = "entry.mkdir" /\ at' = "entry"
<1>1. Portable!MkdirOf["blob"] = "blob.mkdir" /\ Portable!MkdirOf["entry"] = "entry.mkdir" BY DEF Portable!MkdirOf
<1> QED BY <1>1 DEF Making, Portable!MakeDirectory, Portable!SyncDirectory, Portable!Goto, Portable!callVars,
  Portable!diskVars

LEMMA SyncingEffect ==
  ASSUME Syncing
  PROVE  /\ UNCHANGED <<by, offer, entries, blobs, made, unsynced, unsure, lost, orphans, trouble>>
         /\ entriesBefore' \in {entriesBefore, {}} /\ blobsBefore' \in {blobsBefore, {}}
         /\ EntryStates' \subseteq EntryStates /\ BlobStates' \subseteq BlobStates
BY DEF Syncing, Portable!SyncLoad, Portable!SyncBlob, Portable!SyncRemoval, Portable!Return, Portable!callVars,
  Portable!dirVars, EntryStates, BlobStates

LEMMA ChangingEffect ==
  ASSUME Changing
  PROVE  /\ UNCHANGED <<by, offer, made, unsynced, unsure, lost, returned, trouble>>
         /\ \/ UNCHANGED <<blobs, blobsBefore>> /\ entriesBefore' = entriesBefore \cup {entries}
            \/ UNCHANGED <<entries, entriesBefore>> /\ blobsBefore' = blobsBefore \cup {blobs}
            \/ UNCHANGED <<entries, entriesBefore, blobs, blobsBefore>>
BY DEF Changing, Portable!RemoveEntryTemp, Portable!CreateBlob, Portable!FillBlob, Portable!RenameBlob,
  Portable!CreateEntry, Portable!FillEntry, Portable!RenameEntry, Portable!RemoveOrphan, Portable!RemoveBlobTemp,
  Portable!Entries, Portable!InBlobs, Portable!callVars, Portable!dirVars

\* A failing call changes one of the directories at most, and leaves its process.
LEMMA ErrorEffect ==
  ASSUME Portable!Error
  PROVE  /\ UNCHANGED <<by, offer, made, unsynced, lost, orphans, returned>> /\ trouble' = trouble + 1
         /\ at \notin {"session", "dead", "stuck", "done"} /\ at' = IF by = "write" THEN "session" ELSE "dead"
         /\ unsure' = IF at \in {"blob.mkdir", "entry.mkdir"} THEN unsynced ELSE unsure
         /\ (blobs' = blobs /\ blobsBefore' = blobsBefore) \/ at \in {"blob.fill", "blob.rename"}
         /\ (entries' = entries /\ entriesBefore' = entriesBefore) \/ at \in {"entry.fill", "entry.rename"}
<1>1. Portable!Range(Portable!MkdirOf) = {"blob.mkdir", "entry.mkdir"} BY DEF Portable!Range, Portable!MkdirOf
<1> QED BY <1>1 DEF Portable!Error, Portable!Running, Portable!Trouble, Portable!Failed, Portable!Goto,
  Portable!callVars

\* A power failure undoes changes, or takes a directory that had been written to.
LEMMA PowerEffect ==
  ASSUME EvidenceInv, Portable!PowerFailure
  PROVE  /\ EntriesLost /\ BlobsLost /\ at' = "dead" /\ UNCHANGED <<by, offer, orphans, returned>>
         /\ entriesBefore' = {} /\ blobsBefore' = {} /\ unsynced' = {} /\ unsure' = {} /\ made' \subseteq made
         /\ lost => lost'
         /\ "portable" \notin made' => made' = {}
         /\ "entries" \in made' \/ entries' = Portable!NoEntries
         /\ "blobs" \in made' \/ blobs' = Portable!NoBlobs
<1>1. PICK away \in SUBSET unsynced :
        LET gone == IF "portable" \in away THEN made ELSE away IN
        /\ made' = made \ gone /\ lost' = (lost \/ unsure \cap gone # {})
        /\ entries' \in IF "entries" \in gone THEN {Portable!NoEntries} ELSE entriesBefore \cup {entries}
        /\ blobs' \in IF "blobs" \in gone THEN {Portable!NoBlobs} ELSE blobsBefore \cup {blobs}
  BY DEF Portable!PowerFailure
<1> DEFINE gone == IF "portable" \in away THEN made ELSE away
<1>2. /\ made # {} => "portable" \in made
      /\ {"portable", "entries"} \subseteq Used \/ (entries = Portable!NoEntries /\ entriesBefore = {})
      /\ {"portable", "blobs"} \subseteq Used \/ (blobs = Portable!NoBlobs /\ blobsBefore = {})
      /\ unsure \subseteq unsynced /\ unsynced \subseteq made /\ lost \in BOOLEAN
  BY DEF EvidenceInv, EvidenceTyped, DirectoriesKept
<1>3. /\ at' = "dead" /\ trouble' = trouble + 1 /\ UNCHANGED <<by, offer, orphans, returned>>
      /\ entriesBefore' = {} /\ blobsBefore' = {} /\ unsynced' = {} /\ unsure' = {}
  BY DEF Portable!PowerFailure, Portable!Trouble, Portable!Goto, Portable!callVars
<1>4. lost => lost' BY <1>1
<1>5. made' \subseteq made /\ ("portable" \notin made' => made' = {}) BY <1>1, <1>2
<1>6. ASSUME "entries" \in gone, entries # Portable!NoEntries \/ entriesBefore # {} PROVE lost'
  BY <1>1, <1>2, <1>6 DEF Used, Fresh
<1>7. ASSUME "blobs" \in gone, blobs # Portable!NoBlobs \/ blobsBefore # {} PROVE lost'
  BY <1>1, <1>2, <1>7 DEF Used, Fresh
<1>8. EntriesLost BY <1>1, <1>3, <1>6 DEF EntriesLost, EntryStates
<1>9. BlobsLost BY <1>1, <1>3, <1>7 DEF BlobsLost, BlobStates
<1>10. "entries" \in made' \/ entries' = Portable!NoEntries BY <1>1, <1>2 DEF Used
<1>11. "blobs" \in made' \/ blobs' = Portable!NoBlobs BY <1>1, <1>2 DEF Used
<1> QED BY <1>3, <1>4, <1>5, <1>8, <1>9, <1>10, <1>11

\* What is in the directories
LEMMA DiskTypes ==
  ASSUME EvidenceInv
  PROVE  /\ entries \in [done : Seq(Portable!EntryType), temps : Seq(EntryTemp)] /\ entries.temps \in Seq(EntryTemp)
         /\ blobs \in [done : SUBSET Portable!Blobs, temps : Seq(BlobTemp)] /\ blobs.temps \in Seq(BlobTemp)
<1>1. /\ entries \in [done : Seq(Portable!EntryType), temps : Seq(EntryTemp)]
      /\ blobs \in [done : SUBSET Portable!Blobs, temps : Seq(BlobTemp)]
  BY DEF EvidenceInv, EvidenceTyped, EntryStates, EntryDirectory, BlobStates, BlobDirectory
<1> QED BY <1>1

\* A rename takes the temp along.
LEMMA EntriesShorter ==
  ASSUME EvidenceInv, at = "entry.rename"
  PROVE  Portable!Shorter(entries) = [done |-> entries.done, temps |-> << >>]
<1>1. entries.temps # << >> /\ Len(entries.temps) <= 1
  BY DEF EvidenceInv, EntryTempsPlaced, EntriesLegal, LegalState, EntryStates
<1>2. entries \in [done : Seq(Portable!EntryType), temps : Seq(EntryTemp)] /\ entries.temps \in Seq(EntryTemp)
  BY DiskTypes
<1>3. Len(entries.temps) = 1 BY <1>1, <1>2, OnlyOne
<1>4. Portable!Front(entries.temps) = << >> BY <1>2, <1>3 DEF Portable!Front
<1> QED BY <1>2, <1>4 DEF Portable!Shorter

\* Likewise of the blobs
LEMMA BlobsShorter ==
  ASSUME EvidenceInv, at = "blob.rename"
  PROVE  /\ Portable!Shorter(blobs) \in BlobDirectory /\ Portable!Shorter(blobs).done = blobs.done
         /\ Len(Portable!Shorter(blobs).temps) = Len(blobs.temps) - 1
<1>1. blobs.temps # << >> BY DEF EvidenceInv, BlobTempsCounted
<1>2. Portable!Front(blobs.temps) \in Seq(BlobTemp) /\ Len(Portable!Front(blobs.temps)) = Len(blobs.temps) - 1
 <2>1. blobs.temps \in Seq(BlobTemp) BY DiskTypes
 <2> QED BY <1>1, <2>1 DEF Portable!Front
<1> QED BY DiskTypes, <1>2 DEF Portable!Shorter, BlobDirectory

\* Filling leaves as many temps.
LEMMA BlobsFilled ==
  ASSUME EvidenceInv, at = "blob.fill"
  PROVE  /\ Portable!Filled(blobs) \in BlobDirectory /\ Portable!Filled(blobs).done = blobs.done
         /\ Len(Portable!Filled(blobs).temps) = Len(blobs.temps)
<1>0. blobs \in [done : SUBSET Portable!Blobs, temps : Seq(BlobTemp)] BY DiskTypes
<1>1. blobs.temps # << >> BY DEF EvidenceInv, BlobTempsCounted
<1> DEFINE n == Len(blobs.temps)
<1>2. n \in 1 .. n /\ blobs.temps[n] \in BlobTemp BY <1>0, <1>1
<1>3. [blobs.temps[n] EXCEPT !.whole = TRUE] \in BlobTemp BY <1>2 DEF BlobTemp
<1>4. [blobs.temps EXCEPT ![n].whole = TRUE] \in Seq(BlobTemp) /\ Len([blobs.temps EXCEPT ![n].whole = TRUE]) = n
 <2>1. blobs.temps \in [1 .. n -> BlobTemp] /\ n \in Nat BY <1>0
 <2>2. [blobs.temps EXCEPT ![n].whole = TRUE] \in [1 .. n -> BlobTemp] BY <1>3, <2>1
 <2> HIDE DEF n
 <2> QED BY <2>1, <2>2
<1> QED BY <1>0, <1>4 DEF Portable!Filled, BlobDirectory

\* Every step does one of these to the entries, and adds only what was accepted.
LEMMA EntriesEffect ==
  ASSUME EvidenceInv, Portable!Next
  PROVE  /\ EntriesSame \/ TempRemoved \/ TempWritten \/ TempRenamed \/ EntriesLost
         /\ EntriesSame \/ TempRemoved \/ EntriesLost \/ at \in Accepted
<1>0. entries \in [done : Seq(Portable!EntryType), temps : Seq(EntryTemp)] /\ entries.temps \in Seq(EntryTemp)
 <2>1. entries \in [done : Seq(Portable!EntryType), temps : Seq(EntryTemp)]
   BY DEF EvidenceInv, EvidenceTyped, EntryDirectory, EntryStates
 <2> QED BY <2>1
<1>1. CASE Portable!RemoveEntryTemp
  BY <1>1 DEF Portable!RemoveEntryTemp, Portable!Entries, EntriesMore, TempRemoved, EntryStates, EvidenceInv,
    EvidenceTyped, EntryDirectory
<1>2. CASE Portable!CreateEntry
 <2>1. at = "entry" /\ entries.temps = << >> BY <1>2 DEF Portable!CreateEntry, EvidenceInv, EntryTempsPlaced, Writing
 <2>2. entries' = [entries EXCEPT !.temps = Append(@, TempOf(FALSE))]
   BY <1>2 DEF Portable!CreateEntry, Portable!Entries, Portable!WithTemp, TempOf
 <2>3. entries' = [done |-> entries.done, temps |-> <<TempOf(FALSE)>>]
  <3>1. Append(entries.temps, TempOf(FALSE)) = <<TempOf(FALSE)>> BY <2>1
  <3>2. entries \in EntryDirectory BY <1>0 DEF EntryDirectory
  <3> QED BY <2>2, <3>1, <3>2, OtherTemps
 <2>4. EntriesMore BY <1>2 DEF Portable!CreateEntry, Portable!Entries, EntriesMore, EntryStates
 <2> QED BY <2>1, <2>3, <2>4 DEF TempWritten, Accepted, Writing
<1>3. ASSUME at = "entry.fill", entries' = Portable!Filled(entries), entriesBefore' = entriesBefore \cup {entries}
      PROVE  TempWritten
 <2>1. entries.temps # << >> /\ entries.temps[1].entry = Portable!Entry(offer) /\ Len(entries.temps) <= 1
       /\ entries.temps[1].sequence = Len(entries.done) + 1
   BY <1>3 DEF EvidenceInv, EntryTempsPlaced, EntriesLegal, LegalState, EntryStates
 <2>2. entries \in [done : Seq(Portable!EntryType), temps : Seq(EntryTemp)] /\ entries.temps \in Seq(EntryTemp) BY <1>0
 <2>3. Len(entries.temps) = 1 /\ entries.temps[1] \in EntryTemp BY <2>1, <2>2, OnlyOne
 <2>4. Portable!Filled(entries).temps = [entries.temps EXCEPT ![1].whole = TRUE] BY <2>2, <2>3 DEF Portable!Filled
 <2>5. [entries.temps[1] EXCEPT !.whole = TRUE] = TempOf(TRUE) BY <2>1, <2>3, FilledTemp DEF TempOf
 <2>6. [entries.temps EXCEPT ![1].whole = TRUE] = <<TempOf(TRUE)>>
  <3>1. entries.temps = <<entries.temps[1]>> BY <2>1, <2>2, OnlyOne
  <3> QED BY <2>3, <2>5, <3>1, FilledTemp
 <2>7. entries' = [done |-> entries.done, temps |-> <<TempOf(TRUE)>>] BY <1>3, <2>2, <2>4, <2>6 DEF Portable!Filled
 <2> QED BY <1>3, <2>7 DEF TempWritten, EntriesMore, EntryStates
<1>4. CASE Portable!FillEntry BY <1>3, <1>4 DEF Portable!FillEntry, Portable!Entries, Accepted, Writing
<1>5. CASE Portable!RenameEntry
 <2>1. entries' = [[done |-> entries.done, temps |-> << >>] EXCEPT !.done = Append(@, Portable!Entry(offer))]
   BY EntriesShorter, <1>5 DEF Portable!RenameEntry, Portable!Entries
 <2> QED BY <1>5, <2>1 DEF Portable!RenameEntry, Portable!Entries, TempRenamed, EntriesMore, EntryStates, Accepted,
   Writing
<1>6. CASE Portable!Error
 <2>1. /\ entries' \in Portable!Failed(entries, "entry.fill", "entry.rename")
       /\ entriesBefore' = IF entries' = entries THEN entriesBefore ELSE entriesBefore \cup {entries}
   BY <1>6 DEF Portable!Error
 <2>2. CASE entries' = entries BY <2>1, <2>2 DEF EntriesSame, EntryStates
 <2>3. CASE entries' # entries /\ at = "entry.fill" BY <1>3, <2>1, <2>3 DEF Portable!Failed, Accepted, Writing
 <2>4. CASE entries' # entries /\ at = "entry.rename"
   BY EntriesShorter, <2>1, <2>4 DEF Portable!Failed, TempRemoved, EntriesMore, EntryStates
 <2> QED BY <2>1, <2>2, <2>3, <2>4 DEF Portable!Failed
<1>7. CASE Portable!PowerFailure BY <1>7, PowerEffect
<1>8. CASE Idle \/ Making \/ Syncing BY <1>8, IdleEffect, MakingEffect, SyncingEffect DEF EntriesSame, EntryStates
<1>9. CASE Portable!CreateBlob \/ Portable!FillBlob \/ Portable!RenameBlob \/ Portable!RemoveOrphan \/ Portable!RemoveBlobTemp
  BY <1>9 DEF Portable!CreateBlob, Portable!FillBlob, Portable!RenameBlob, Portable!RemoveOrphan,
    Portable!RemoveBlobTemp, EntriesSame, EntryStates
<1> QED BY <1>1, <1>2, <1>4, <1>5, <1>6, <1>7, <1>8, <1>9, EvidenceSteps DEF Changing

\* And one of these to the blobs.
LEMMA BlobsEffect ==
  ASSUME EvidenceInv, Portable!Next
  PROVE  \/ BlobsSame \/ BlobRenamed \/ OrphanGone \/ BlobsLost
         \/ at = "blob" /\ at' = "blob.fill" /\ BlobTemps(Len(blobs.temps) + 1)
         \/ at = "blob.fill" /\ BlobTemps(Len(blobs.temps))
         \/ at = "blob.rename" /\ trouble' = trouble + 1 /\ BlobTemps(Len(blobs.temps) - 1)
         \/ at = "remove" /\ at' = "remove.sync" /\ BlobTemps(0)
<1>0. blobs \in [done : SUBSET Portable!Blobs, temps : Seq(BlobTemp)]
  BY DEF EvidenceInv, EvidenceTyped, BlobDirectory, BlobStates
<1>1. CASE Portable!CreateBlob
 <2>1. [blob |-> offer.blob, whole |-> FALSE] \in BlobTemp BY DEF BlobTemp, Portable!Blobs, EvidenceInv, EvidenceTyped
 <2>2. blobs' = [blobs EXCEPT !.temps = Append(@, [blob |-> offer.blob, whole |-> FALSE])]
   BY <1>1 DEF Portable!CreateBlob, Portable!InBlobs, Portable!WithTemp
 <2>3. blobs' \in BlobDirectory /\ blobs'.done = blobs.done /\ Len(blobs'.temps) = Len(blobs.temps) + 1
  <3>1. blobs.temps \in Seq(BlobTemp) BY <1>0
  <3> DEFINE ts == Append(blobs.temps, [blob |-> offer.blob, whole |-> FALSE])
  <3>2. ts \in Seq(BlobTemp) /\ Len(ts) = Len(blobs.temps) + 1 BY <2>1, <3>1, AppendProperties
  <3>3. blobs' = [blobs EXCEPT !.temps = ts] BY <2>2
  <3> HIDE DEF ts
  <3> QED BY <1>0, <3>2, <3>3 DEF BlobDirectory
 <2> QED BY <1>1, <2>3 DEF Portable!CreateBlob, Portable!InBlobs, Portable!Goto, BlobTemps, BlobsMore, BlobStates
<1>2. CASE Portable!FillBlob
  BY BlobsFilled, <1>2 DEF Portable!FillBlob, Portable!InBlobs, BlobTemps, BlobsMore, BlobStates
<1>3. CASE Portable!RenameBlob
 <2>1. blobs' = [Portable!Shorter(blobs) EXCEPT !.done = @ \cup {offer.blob}] /\ at = "blob.rename"
   BY <1>3 DEF Portable!RenameBlob, Portable!InBlobs
 <2>2. offer.blob \in Portable!Blobs BY DEF Portable!Blobs, EvidenceInv, EvidenceTyped
 <2>3. /\ blobs' \in BlobDirectory /\ blobs'.done = blobs.done \cup {offer.blob}
       /\ Len(blobs'.temps) = Len(blobs.temps) - 1
   BY BlobsShorter, <2>1, <2>2 DEF BlobDirectory
 <2> QED BY <1>3, <2>1, <2>3 DEF Portable!RenameBlob, Portable!InBlobs, BlobRenamed, BlobsMore, BlobStates
<1>4. CASE Portable!RemoveOrphan
 <2>1. PICK b \in orphans : blobs' = [blobs EXCEPT !.done = @ \ {b}]
   BY <1>4 DEF Portable!RemoveOrphan, Portable!InBlobs
 <2>2. blobs' \in BlobDirectory /\ blobs'.temps = blobs.temps /\ blobs'.done = blobs.done \ {b}
   BY <1>0, <2>1 DEF BlobDirectory
 <2> QED BY <1>4, <2>2 DEF Portable!RemoveOrphan, Portable!InBlobs, OrphanGone, BlobsMore, BlobStates
<1>5. CASE Portable!RemoveBlobTemp
 <2>1. CASE blobs' = [blobs EXCEPT !.temps = << >>] /\ blobsBefore' = blobsBefore \cup {blobs}
  <3>0. << >> \in Seq(BlobTemp) /\ Len(<< >>) = 0 OBVIOUS
  <3>1. blobs' \in BlobDirectory /\ blobs'.done = blobs.done /\ Len(blobs'.temps) = 0
    BY <1>0, <2>1, <3>0 DEF BlobDirectory
  <3>2. at = "remove" /\ (at' = "remove.sync" \/ UNCHANGED blobs) BY <1>5 DEF Portable!RemoveBlobTemp, Portable!Goto
  <3> QED BY <2>1, <3>1, <3>2 DEF BlobTemps, BlobsMore, BlobsSame, BlobStates
 <2>2. CASE UNCHANGED <<blobs, blobsBefore>> BY <2>2 DEF BlobsSame, BlobStates
 <2> QED BY <1>5, <2>1, <2>2 DEF Portable!RemoveBlobTemp, Portable!InBlobs
<1>6. CASE Portable!Error
 <2>1. /\ blobs' \in Portable!Failed(blobs, "blob.fill", "blob.rename") /\ trouble' = trouble + 1
       /\ blobsBefore' = IF blobs' = blobs THEN blobsBefore ELSE blobsBefore \cup {blobs}
   BY <1>6 DEF Portable!Error, Portable!Trouble
 <2>2. CASE blobs' = blobs BY <2>1, <2>2 DEF BlobsSame, BlobStates
 <2>3. CASE blobs' # blobs /\ at = "blob.fill"
   BY BlobsFilled, <2>1, <2>3 DEF Portable!Failed, BlobTemps, BlobsMore, BlobStates
 <2>4. CASE blobs' # blobs /\ at = "blob.rename"
   BY BlobsShorter, <2>1, <2>4 DEF Portable!Failed, BlobTemps, BlobsMore, BlobStates
 <2> QED BY <2>1, <2>2, <2>3, <2>4 DEF Portable!Failed
<1>7. CASE Portable!PowerFailure BY <1>7, PowerEffect
<1>8. CASE Idle \/ Making \/ Syncing BY <1>8, IdleEffect, MakingEffect, SyncingEffect DEF BlobsSame, BlobStates
<1>9. CASE Portable!RemoveEntryTemp \/ Portable!CreateEntry \/ Portable!FillEntry \/ Portable!RenameEntry
  BY <1>9 DEF Portable!RemoveEntryTemp, Portable!CreateEntry, Portable!FillEntry, Portable!RenameEntry, BlobsSame,
    BlobStates
<1> QED BY <1>1, <1>2, <1>3, <1>4, <1>5, <1>6, <1>7, <1>8, <1>9, EvidenceSteps DEF Changing

----------------------------------------
(* Steps of portable evidence *)

\* Every step keeps the rest in its range.
LEMMA ScalarsStep ==
  ASSUME EvidenceInv, Portable!Next
  PROVE  /\ at' \in Portable!Steps /\ by' \in {"write", "finalization", "recovery"} /\ offer' \in Offers
         /\ made' \subseteq {"portable", "blobs", "entries"} /\ unsure' \subseteq unsynced' /\ unsynced' \subseteq made'
         /\ orphans' \subseteq Portable!Blobs /\ returned' \subseteq Portable!EntryType
         /\ lost' \in BOOLEAN /\ trouble' \in 0 .. MaxPortableTrouble
<1>1. /\ at \in Portable!Steps /\ by \in {"write", "finalization", "recovery"} /\ offer \in Offers
      /\ made \subseteq {"portable", "blobs", "entries"} /\ unsure \subseteq unsynced /\ unsynced \subseteq made
      /\ orphans \subseteq Portable!Blobs /\ returned \subseteq Portable!EntryType
      /\ lost \in BOOLEAN /\ trouble \in 0 .. MaxPortableTrouble /\ MaxPortableTrouble \in Nat
  BY OperationsAssumption DEF EvidenceInv, EvidenceTyped, Portable!OfferAssumption
<1>2. at' \in Portable!Steps /\ by' \in {"write", "finalization", "recovery"} /\ offer' \in Offers
  BY <1>1 DEF Portable!Next, Portable!Step, Portable!MakeDirectory, Portable!SyncDirectory, Portable!Load,
    Portable!LoadRefused, Portable!RemoveEntryTemp, Portable!SyncLoad, Portable!Check, Portable!ReuseBlob,
    Portable!CreateBlob, Portable!FillBlob, Portable!RenameBlob, Portable!SyncBlob, Portable!CreateEntry,
    Portable!FillEntry, Portable!RenameEntry, Portable!Return, Portable!Recover, Portable!ListBlobs,
    Portable!RemoveOrphan, Portable!RemoveBlobTemp, Portable!SyncRemoval, Portable!Settle, Portable!Call,
    Portable!End, Portable!Error, Portable!Kill, Portable!PowerFailure, Portable!Done, Portable!vars,
    Portable!callVars, Portable!Goto, Portable!AfterLoad, Portable!Raised, Portable!MkdirOf, Portable!Steps
<1>3. /\ made' \subseteq {"portable", "blobs", "entries"} /\ unsure' \subseteq unsynced' /\ unsynced' \subseteq made'
      /\ lost' \in BOOLEAN
 <2>1. CASE Idle \/ Syncing \/ Changing BY <1>1, <2>1, IdleEffect, SyncingEffect, ChangingEffect
 <2>2. CASE Making BY <1>1, <2>2 DEF Making, Portable!MakeDirectory, Portable!SyncDirectory, Portable!Missing
 <2>3. CASE Portable!Error BY <1>1, <2>3, ErrorEffect
 <2>4. CASE Portable!PowerFailure BY <1>1, <2>4, PowerEffect DEF Portable!PowerFailure
 <2> QED BY <2>1, <2>2, <2>3, <2>4, EvidenceSteps
<1>4. trouble' \in 0 .. MaxPortableTrouble
 <2>1. trouble' = trouble \/ Portable!Trouble BY IdleEffect, MakingEffect, SyncingEffect, ChangingEffect, EvidenceSteps
   DEF Portable!Kill, Portable!Error, Portable!PowerFailure
 <2> QED BY <1>1, <2>1 DEF Portable!Trouble
<1>5. returned' \subseteq Portable!EntryType
 <2>1. Portable!Entry(offer) \in Portable!EntryType BY <1>1 DEF Portable!EntryType
 <2>2. returned' \in {returned, returned \cup {Portable!Entry(offer)}}
   BY IdleEffect, MakingEffect, ChangingEffect, ErrorEffect, PowerEffect, EvidenceSteps
   DEF Syncing, Portable!SyncLoad, Portable!SyncBlob, Portable!SyncRemoval, Portable!Return
 <2> QED BY <1>1, <2>1, <2>2
<1>6. orphans' \subseteq Portable!Blobs
 <2>1. blobs.done \subseteq Portable!Blobs BY DiskTypes
 <2>2. CASE Making \/ Syncing \/ Portable!Error \/ Portable!PowerFailure
   BY <1>1, <2>2, MakingEffect, SyncingEffect, ErrorEffect, PowerEffect
 <2>3. CASE Idle
   BY <1>1, <2>1, <2>3 DEF Idle, Portable!Load, Portable!LoadRefused, Portable!Check, Portable!ReuseBlob,
     Portable!Recover, Portable!ListBlobs, Portable!Settle, Portable!Call, Portable!End, Portable!Kill,
     Portable!Done, Portable!vars
 <2>4. CASE Changing
   BY <1>1, <2>4 DEF Changing, Portable!RemoveEntryTemp, Portable!CreateBlob, Portable!FillBlob,
     Portable!RenameBlob, Portable!CreateEntry, Portable!FillEntry, Portable!RenameEntry, Portable!RemoveOrphan,
     Portable!RemoveBlobTemp
 <2> QED BY <2>2, <2>3, <2>4, EvidenceSteps
<1> QED BY <1>2, <1>3, <1>4, <1>5, <1>6

\* A directory is synced before anything is put there, and recovery makes none.
LEMMA DirectoriesStep ==
  ASSUME EvidenceInv, Portable!Next
  PROVE  DirectoriesKept'
<1>1. /\ EvidenceTyped /\ DirectoriesKept /\ trouble \in Nat
      /\ at \in Writing \cup {"session"} => by = "write"
      /\ at \in {"blob.fill", "blob.rename"} => blobs.temps # << >>
      /\ at \in {"entry.fill", "entry.rename"} => entries.temps # << >>
      /\ at = "remove" => orphans = blobs.done \ Portable!BlobsOf(entries.done)
      /\ at = "entry" => offer.blob \in blobs.done
  BY DEF EvidenceInv, EvidenceTyped, CallPlaced, BlobTempsCounted, EntryTempsPlaced, Publishing
<1>2. /\ blobs.temps # << >> \/ blobs.done # {} => {"portable", "blobs"} \subseteq Used
      /\ entries.temps # << >> => {"portable", "entries"} \subseteq Used
  BY <1>1 DEF DirectoriesKept, Portable!NoBlobs, Portable!NoEntries
<1>3. CASE Idle
 <2>1. Fresh' = Fresh /\ Used' = Used BY <1>3, IdleEffect DEF Fresh, Used
 <2>2. at \in {"blob.mkdir", "entry.mkdir", "dead"} \/ by = "recovery" => at' = "dead" \/ by' = "recovery"
   BY <1>1, <1>3 DEF Idle, Portable!Load, Portable!LoadRefused, Portable!Check, Portable!ReuseBlob,
     Portable!Recover, Portable!ListBlobs, Portable!Settle, Portable!Call, Portable!End, Portable!Kill,
     Portable!Done, Portable!vars, Portable!callVars, Portable!Goto, Writing
 <2>3. at' \notin {"blob.mkdir", "entry.mkdir"}
   BY <1>3 DEF Idle, Portable!Load, Portable!LoadRefused, Portable!Check, Portable!ReuseBlob, Portable!Recover,
     Portable!ListBlobs, Portable!Settle, Portable!Call, Portable!End, Portable!Kill, Portable!Done,
     Portable!vars, Portable!Goto, Portable!AfterLoad, Portable!Raised
 <2> QED BY <1>1, <1>3, <2>1, <2>2, <2>3, IdleEffect DEF DirectoriesKept
<1>4. CASE Making
 <2> USE MakingEffect DEF DirectoriesKept, Fresh, Used, EvidenceTyped, Writing, Portable!MkdirOf, Portable!Goto,
       Portable!Missing, Portable!ParentOf
 <2>1. CASE Portable!MakeDirectory("blob", "blobs") BY <1>1, <1>4, <2>1 DEF Portable!MakeDirectory
 <2>2. CASE Portable!SyncDirectory("blob", "blobs") BY <1>1, <1>4, <2>2 DEF Portable!SyncDirectory
 <2>3. CASE Portable!MakeDirectory("entry", "entries")
  <3>1. at = "entry" /\ at' = "entry.mkdir" /\ by = "write" BY <1>1, <2>3 DEF Portable!MakeDirectory
  <3>2. "portable" \in made BY <1>1, <1>2, <3>1
  <3>3. made' = made \cup {"entries"} /\ unsynced' = unsynced \cup {"entries"} /\ "entries" \notin made
    BY <2>3, <3>2 DEF Portable!MakeDirectory
  <3>4. unsure' = unsure BY <2>3 DEF Portable!MakeDirectory
  <3>5. Fresh = {} /\ "entries" \notin unsure BY <1>1, <3>1, <3>3
  <3>6. Fresh' = {"entries"} /\ Used' = Used BY <3>3, <3>4, <3>5
  <3> QED BY <1>1, <1>4, <3>1, <3>2, <3>3, <3>4, <3>6
 <2>4. CASE Portable!SyncDirectory("entry", "entries") BY <1>1, <1>4, <2>4 DEF Portable!SyncDirectory
 <2> QED BY <1>4, <2>1, <2>2, <2>3, <2>4 DEF Making
<1>5. CASE Syncing
 <2>1. Fresh' = Fresh /\ Used' = Used BY <1>5, SyncingEffect DEF Fresh, Used
 <2>2. at \notin {"blob.mkdir", "entry.mkdir", "dead"} /\ at' \notin {"blob.mkdir", "entry.mkdir"}
   BY <1>5 DEF Syncing, Portable!SyncLoad, Portable!SyncBlob, Portable!SyncRemoval, Portable!Return,
     Portable!Goto, Portable!AfterLoad
 <2> QED BY <1>1, <1>5, <2>1, <2>2, SyncingEffect DEF DirectoriesKept
<1>6. CASE Changing
 <2>1. Fresh' = Fresh /\ Used' = Used BY <1>6, ChangingEffect DEF Fresh, Used
 <2>2. at \notin {"blob.mkdir", "entry.mkdir", "dead"} /\ at' \notin {"blob.mkdir", "entry.mkdir"}
   BY <1>6 DEF Changing, Portable!RemoveEntryTemp, Portable!CreateBlob, Portable!FillBlob, Portable!RenameBlob,
     Portable!CreateEntry, Portable!FillEntry, Portable!RenameEntry, Portable!RemoveOrphan,
     Portable!RemoveBlobTemp, Portable!Goto
 <2>3. \/ UNCHANGED <<entries, entriesBefore>> \/ {"portable", "entries"} \subseteq Used
   BY <1>1, <1>2, <1>6, ChangingEffect DEF Changing, Portable!RemoveEntryTemp, Portable!TempAccepted,
     Portable!CreateBlob, Portable!FillBlob, Portable!RenameBlob, Portable!CreateEntry, Portable!FillEntry,
     Portable!RenameEntry, Portable!RemoveOrphan, Portable!RemoveBlobTemp, Portable!Missing, DirectoriesKept,
     Used, Writing
 <2>4. \/ UNCHANGED <<blobs, blobsBefore>> \/ {"portable", "blobs"} \subseteq Used
   BY <1>1, <1>2, <1>6, ChangingEffect DEF Changing, Portable!RemoveEntryTemp, Portable!CreateBlob,
     Portable!FillBlob, Portable!RenameBlob, Portable!CreateEntry, Portable!FillEntry, Portable!RenameEntry,
     Portable!RemoveOrphan, Portable!RemoveBlobTemp, Portable!Missing, DirectoriesKept, Used, Writing
 <2> QED BY <1>1, <1>6, <2>1, <2>2, <2>3, <2>4, ChangingEffect DEF DirectoriesKept
<1>7. CASE Portable!Error
 <2>1. Fresh' \subseteq Fresh /\ Used \subseteq Used' BY <1>1, <1>7, ErrorEffect DEF Fresh, Used, EvidenceTyped
 <2>2. Fresh' = {} \/ at' = "dead" \/ by' = "recovery" BY <1>1, <1>7, ErrorEffect DEF Fresh, DirectoriesKept
 <2>3. (UNCHANGED <<blobs, blobsBefore>> \/ {"portable", "blobs"} \subseteq Used)
       /\ (UNCHANGED <<entries, entriesBefore>> \/ {"portable", "entries"} \subseteq Used)
   BY <1>1, <1>2, <1>7, ErrorEffect
 <2>4. at' \notin {"blob.mkdir", "entry.mkdir"} /\ UNCHANGED <<made, lost>> /\ trouble' = trouble + 1
   BY <1>7, ErrorEffect
 <2> QED BY <1>1, <2>1, <2>2, <2>3, <2>4 DEF DirectoriesKept
<1>8. CASE Portable!PowerFailure
 <2>1. Fresh' = {} /\ Used' = made' BY <1>8, PowerEffect DEF Fresh, Used
 <2>2. lost' => trouble' >= 2 BY <1>1, <1>8 DEF DirectoriesKept, Portable!PowerFailure, Portable!Trouble, EvidenceTyped
 <2> QED BY <1>1, <1>8, <2>1, <2>2, PowerEffect DEF DirectoriesKept
<1> QED BY <1>3, <1>4, <1>5, <1>6, <1>7, <1>8, EvidenceSteps

\* What is in a directory stays of its type.
LEMMA EvidenceTypedStep ==
  ASSUME EvidenceInv, Portable!Next
  PROVE  EvidenceTyped'
<1>0. Portable!NoEntries \in EntryDirectory /\ Portable!NoBlobs \in BlobDirectory
 <2>1. << >> \in Seq(Portable!EntryType) /\ << >> \in Seq(EntryTemp) /\ << >> \in Seq(BlobTemp) OBVIOUS
 <2> QED BY <2>1 DEF Portable!NoEntries, Portable!NoBlobs, EntryDirectory, BlobDirectory
<1>1. /\ entries \in [done : Seq(Portable!EntryType), temps : Seq(EntryTemp)]
      /\ EntryStates \subseteq EntryDirectory /\ BlobStates \subseteq BlobDirectory /\ offer \in Offers
  BY DEF EvidenceInv, EvidenceTyped, EntryStates, EntryDirectory
<1>2. Portable!Entry(offer) \in Portable!EntryType BY <1>1 DEF Portable!EntryType
<1>3. ASSUME NEW whole \in BOOLEAN PROVE <<TempOf(whole)>> \in Seq(EntryTemp)
 <2>1. Len(entries.done) + 1 \in Nat BY <1>1
 <2>2. TempOf(whole) \in EntryTemp BY <1>2, <2>1 DEF TempOf, EntryTemp
 <2> QED BY <2>2
<1>4. EntryStates' \subseteq EntryDirectory
 <2>1. CASE EntriesSame \/ EntriesLost BY <1>0, <1>1, <2>1 DEF EntriesSame, EntriesLost
 <2>2. CASE TempRemoved
  <3>1. << >> \in Seq(EntryTemp) OBVIOUS
  <3>2. entries' \in EntryDirectory BY <1>1, <2>2, <3>1 DEF TempRemoved, EntryDirectory
  <3> QED BY <1>1, <2>2, <3>2 DEF TempRemoved, EntriesMore
 <2>3. CASE TempWritten
  <3>1. entries' \in EntryDirectory BY <1>1, <1>3, <2>3 DEF TempWritten, EntryDirectory
  <3> QED BY <1>1, <2>3, <3>1 DEF TempWritten, EntriesMore
 <2>4. CASE TempRenamed
  <3>1. << >> \in Seq(EntryTemp) /\ Append(entries.done, Portable!Entry(offer)) \in Seq(Portable!EntryType)
    BY <1>1, <1>2
  <3>2. entries' \in EntryDirectory BY <2>4, <3>1 DEF TempRenamed, EntryDirectory
  <3> QED BY <1>1, <2>4, <3>2 DEF TempRenamed, EntriesMore
 <2> QED BY <2>1, <2>2, <2>3, <2>4, EntriesEffect
<1>5. BlobStates' \subseteq BlobDirectory
  BY <1>0, <1>1, BlobsEffect DEF BlobsSame, BlobsMore, BlobTemps, BlobRenamed, OrphanGone, BlobsLost
<1> QED BY <1>4, <1>5, ScalarsStep DEF EvidenceTyped

\* An entry is returned once it is durable.
LEMMA ReturnedEffect ==
  ASSUME EvidenceInv, Portable!Next
  PROVE  \/ returned' = returned
         \/ /\ returned' = returned \cup {Portable!Entry(offer)} /\ entries' = entries /\ EntryStates' = {entries}
            /\ Portable!Entry(offer) \in Portable!Range(entries.done) /\ at = "entry.sync"
<1>1. CASE Portable!Return BY <1>1 DEF Portable!Return, EvidenceInv, CallPlaced, EntryStates
<1>2. CASE Portable!SyncLoad \/ Portable!SyncBlob \/ Portable!SyncRemoval
  BY <1>2 DEF Portable!SyncLoad, Portable!SyncBlob, Portable!SyncRemoval
<1>3. CASE ~Syncing BY <1>3, IdleEffect, MakingEffect, ChangingEffect, ErrorEffect, PowerEffect, EvidenceSteps
<1> QED BY <1>1, <1>2, <1>3 DEF Syncing

\* No step takes back a trouble, and only a power failure changes both directories.
LEMMA TroubleEffect ==
  ASSUME EvidenceInv, Portable!Next
  PROVE  /\ trouble \in Nat /\ trouble' \in {trouble, trouble + 1}
         /\ lost => lost'
         /\ EntriesSame \/ BlobsSame \/ (EntriesLost /\ BlobsLost)
<1>1. trouble \in Nat BY DEF EvidenceInv, EvidenceTyped
<1>2. ASSUME (entries' = entries /\ EntryStates' = EntryStates) \/ (blobs' = blobs /\ BlobStates' = BlobStates)
      PROVE  EntriesSame \/ BlobsSame
  BY <1>2 DEF EntriesSame, BlobsSame
<1>3. CASE Idle \/ Making \/ Changing
  BY <1>1, <1>2, <1>3, IdleEffect, MakingEffect, ChangingEffect DEF EntryStates, BlobStates
<1>4. CASE Syncing BY <1>1, <1>4, SyncingEffect DEF EntriesSame
<1>5. CASE Portable!Error BY <1>1, <1>2, <1>5, ErrorEffect DEF EntryStates, BlobStates
<1>6. CASE Portable!PowerFailure BY <1>1, <1>6, PowerEffect DEF EntriesLost
<1> QED BY <1>3, <1>4, <1>5, <1>6, EvidenceSteps

\* A directory without entries keeps the policy.
LEMMA NothingIsLegal == LegalState(Portable!NoEntries)
<1>1. Portable!Range(<< >>) = {} /\ Portable!PathsOf(<< >>) = {} BY DEF Portable!Range, Portable!PathsOf
<1>2. Portable!Cardinality({}) = 0 /\ Len(<< >>) = 0 BY PortableCardinality, FS_EmptySet
<1>3. Portable!PolicyOf(<< >>) BY <1>1, <1>2 DEF Portable!PolicyOf, Portable!SingleMedia
<1> QED BY <1>2, <1>3 DEF LegalState, Portable!NoEntries

\* Whatever the power takes back, what was returned is there, within the policy.
LEMMA EntriesLegalStep ==
  ASSUME EvidenceInv, Portable!Next
  PROVE  EntriesLegal'
<1>1. /\ entries.done \in Seq(Portable!EntryType) /\ offer \in Offers
      /\ entries \in EntryStates /\ EntriesLegal
  BY DEF EvidenceInv, EvidenceTyped, EntryStates, EntryDirectory
<1>2. lost => lost' BY TroubleEffect
<1>3. CASE EntriesSame BY <1>1, <1>2, <1>3, ReturnedEffect DEF EntriesSame, EntriesLegal
<1>4. CASE EntriesLost
 <2>1. \A es \in EntryStates' : es = entries' BY <1>4 DEF EntriesLost
 <2>2. CASE entries' \in EntryStates
  <3>1. returned' = returned \/ lost \/ returned' \subseteq Portable!Range(entries'.done)
    BY ReturnedEffect, <1>1 DEF EntriesLegal
  <3> QED BY <1>1, <1>2, <2>1, <2>2, <3>1 DEF EntriesLegal
 <2>3. CASE entries' = Portable!NoEntries /\ lost'
  <3>1. LegalState(Portable!NoEntries) BY NothingIsLegal
  <3> QED BY <2>1, <2>3, <3>1 DEF EntriesLegal
 <2> QED BY <1>4, <2>2, <2>3 DEF EntriesLost
<1>5. CASE TempRemoved
 <2>1. entries'.done = entries.done /\ entries'.temps = << >> BY <1>5 DEF TempRemoved
 <2>2. LegalState(entries') BY <1>1, <2>1 DEF EntriesLegal, LegalState
 <2> QED BY <1>1, <1>2, <1>5, <2>1, <2>2, ReturnedEffect DEF TempRemoved, EntriesMore, EntriesLegal
<1>6. CASE TempWritten
 <2>1. PICK whole \in BOOLEAN : entries' = [done |-> entries.done, temps |-> <<TempOf(whole)>>] BY <1>6 DEF TempWritten
 <2>2. /\ entries'.done = entries.done /\ entries'.temps = <<TempOf(whole)>>
       /\ entries'.temps[1] = TempOf(whole) /\ Len(entries'.temps) = 1
   BY <2>1
 <2>3. TempOf(whole).sequence = Len(entries.done) + 1 /\ TempOf(whole).entry.path = offer.path
   BY DEF TempOf, Portable!Entry
 <2>4. offer.path \notin Portable!PathsOf(entries.done)
   BY <1>6 DEF TempWritten, EvidenceInv, CallPlaced, Accepted, Writing, Portable!Acceptable
 <2> QED
  <3>1. returned' = returned BY <1>6, ReturnedEffect DEF TempWritten
  <3>2. LegalState(entries') /\ (lost \/ returned' \subseteq Portable!Range(entries'.done))
    BY <1>1, <2>2, <2>3, <2>4, <3>1 DEF EntriesLegal, LegalState
  <3>3. EntryStates' \subseteq EntryStates \cup {entries'} BY <1>6 DEF TempWritten, EntriesMore
  <3> QED BY <1>1, <1>2, <2>2, <3>1, <3>2, <3>3 DEF EntriesLegal
<1>7. CASE TempRenamed
 <2>1. entries'.done = Append(entries.done, Portable!Entry(offer)) /\ entries'.temps = << >> BY <1>7 DEF TempRenamed
 <2>2. offer.fits /\ Portable!Acceptable(offer) BY <1>7 DEF TempRenamed, EvidenceInv, CallPlaced, Accepted, Writing
 <2>3. Portable!PolicyOf(entries'.done) BY <1>1, <2>1, <2>2, PolicyIsKept DEF EntriesLegal, LegalState
 <2>4. Portable!Range(entries.done) \subseteq Portable!Range(entries'.done)
  <3>1. Portable!Entry(offer) \in Portable!EntryType BY <1>1 DEF Portable!EntryType
  <3> QED BY <1>1, <2>1, <3>1, EntryAppended
 <2> QED
  <3>1. returned' = returned BY <1>7, ReturnedEffect DEF TempRenamed
  <3>2. EntryStates' \subseteq EntryStates \cup {entries'} BY <1>7 DEF TempRenamed, EntriesMore
  <3>3. LegalState(entries') /\ (lost \/ returned' \subseteq Portable!Range(entries'.done))
    BY <1>1, <2>1, <2>3, <2>4, <3>1 DEF EntriesLegal, LegalState
  <3> QED BY <1>1, <1>2, <2>4, <3>1, <3>2, <3>3 DEF EntriesLegal
<1> QED BY <1>3, <1>4, <1>5, <1>6, <1>7, EntriesEffect

\* No blob is removed that an entry needs, or a temp without two troubles.
LEMMA EntriesBackedStep ==
  ASSUME EvidenceInv, Portable!Next
  PROVE  EntriesBacked'
<1> SUFFICES ASSUME ~lost' PROVE EntriesBacked' BY DEF EntriesBacked
<1>0. ~lost BY TroubleEffect
<1>1. /\ entries.done \in Seq(Portable!EntryType) /\ offer \in Offers /\ EntriesBacked /\ EntriesLegal
      /\ entries \in EntryStates /\ blobs \in BlobStates
  BY DEF EvidenceInv, EvidenceTyped, EntryStates, BlobStates, EntryDirectory
<1>2. trouble \in Nat /\ trouble' \in {trouble, trouble + 1} BY TroubleEffect
<1>3. CASE EntriesLost /\ BlobsLost
 <2>1. Portable!BlobsOf(entries'.done) \subseteq Portable!BlobsOf(entries.done)
   BY <1>0, <1>1, <1>3 DEF EntriesLost, EntriesLegal, Portable!BlobsOf
 <2> QED BY <1>0, <1>1, <1>2, <1>3, <2>1 DEF EntriesLost, BlobsLost, EntriesBacked
<1>4. CASE EntriesSame
 <2>1. CASE BlobsSame BY <1>0, <1>1, <1>2, <1>4, <2>1 DEF EntriesSame, BlobsSame, EntriesBacked
 <2>2. CASE BlobsMore /\ blobs.done \subseteq blobs'.done
   BY <1>0, <1>1, <1>2, <1>4, <2>2 DEF EntriesSame, BlobsMore, EntriesBacked
 <2>3. CASE OrphanGone
  <3>1. PICK b \in orphans : blobs'.done = blobs.done \ {b} BY <2>3 DEF OrphanGone
  <3>2. /\ b \notin Portable!BlobsOf(entries.done) /\ entries.temps = << >>
        /\ trouble = 0 => entriesBefore = {}
    BY <2>3 DEF OrphanGone, EvidenceInv, CallPlaced, EntryTempsPlaced, Reconciling
  <3>3. trouble = 0 => EntryStates = {entries} BY <3>2 DEF EntryStates
  <3> QED BY <1>0, <1>1, <1>2, <1>4, <2>3, <3>1, <3>2, <3>3 DEF EntriesSame, OrphanGone, BlobsMore, EntriesBacked
 <2>4. CASE BlobsLost BY <1>0, <1>1, <1>2, <1>4, <2>4 DEF EntriesSame, BlobsLost, EntriesBacked
 <2> QED BY <2>1, <2>2, <2>3, <2>4, BlobsEffect DEF BlobTemps, BlobRenamed
<1>5. CASE BlobsSame
 <2>1. CASE TempRemoved
  <3>1. entries'.done = entries.done /\ entries'.temps = << >> BY <2>1 DEF TempRemoved
  <3> QED BY <1>0, <1>1, <1>2, <1>5, <2>1, <3>1 DEF TempRemoved, EntriesMore, BlobsSame, EntriesBacked
 <2>2. ASSUME TempWritten \/ TempRenamed
       PROVE  BlobStates' = {blobs} /\ offer.blob \in blobs.done
  <3>1. BlobStates = {blobs} /\ offer.blob \in blobs.done
    BY <2>2 DEF TempWritten, TempRenamed, EvidenceInv, CallPlaced, Publishing, BlobStates
  <3> QED BY <1>5, <3>1 DEF BlobsSame, BlobStates
 <2>3. CASE TempWritten
  <3>1. PICK whole \in BOOLEAN : entries' = [done |-> entries.done, temps |-> <<TempOf(whole)>>]
    BY <2>3 DEF TempWritten
  <3>2. entries'.done = entries.done /\ entries'.temps[1].entry.blob = offer.blob BY <3>1 DEF TempOf, Portable!Entry
  <3> QED BY <1>0, <1>1, <1>2, <2>2, <2>3, <3>2 DEF TempWritten, EntriesMore, EntriesBacked
 <2>4. CASE TempRenamed
  <3>1. entries'.done = Append(entries.done, Portable!Entry(offer)) /\ entries'.temps = << >> BY <2>4 DEF TempRenamed
  <3>2. Portable!BlobsOf(entries'.done) = Portable!BlobsOf(entries.done) \cup {offer.blob}
    BY <1>0, <1>1, <3>1, EntryAppended DEF Portable!EntryType, Portable!Entry
  <3> QED BY <1>0, <1>1, <1>2, <2>2, <2>4, <3>1, <3>2 DEF TempRenamed, EntriesMore, EntriesBacked
 <2>5. CASE EntriesLost
  <3>1. Portable!BlobsOf(entries'.done) \subseteq Portable!BlobsOf(entries.done)
    BY <1>0, <1>1, <2>5 DEF EntriesLost, EntriesLegal, Portable!BlobsOf
  <3> QED BY <1>0, <1>1, <1>2, <1>5, <2>5, <3>1 DEF EntriesLost, BlobsSame, EntriesBacked
 <2> QED BY <1>4, <2>1, <2>3, <2>4, <2>5, EntriesEffect
<1> QED BY <1>3, <1>4, <1>5, TroubleEffect

\* The committed entries change by a rename and by a power failure.
LEMMA DoneKept ==
  ASSUME EvidenceInv, Portable!Next
  PROVE  entries'.done = entries.done \/ TempRenamed \/ EntriesLost
BY EntriesEffect DEF EntriesSame, TempRemoved, TempWritten

\* What was acceptable stays so.
LEMMA AcceptableKept ==
  ASSUME Portable!Acceptable(offer), entries'.done = entries.done, offer' = offer
  PROVE  Portable!Acceptable(offer)'
BY DEF Portable!Acceptable, Portable!WithinLimits

\* What a call has established stays so until it returns.
LEMMA CallPlacedStep ==
  ASSUME EvidenceInv, Portable!Next
  PROVE  CallPlaced'
<1>1. CallPlaced /\ offer \in Offers /\ blobs \in [done : SUBSET Portable!Blobs, temps : Seq(BlobTemp)]
  BY DiskTypes DEF EvidenceInv, EvidenceTyped
<1>2. Portable!Loadable => Portable!BlobsOf(entries.done) \subseteq blobs.done
  BY DEF Portable!Loadable, Portable!Backed, Portable!BlobsOf
<1>3. CASE Idle
  BY <1>1, <1>2, <1>3, IdleEffect, AcceptableKept DEF CallPlaced, Writing, Reconciling, Accepted, Publishing, Idle,
    Portable!Load, Portable!LoadRefused, Portable!Check, Portable!ReuseBlob, Portable!Recover, Portable!ListBlobs,
    Portable!Settle, Portable!Call, Portable!End, Portable!Kill, Portable!Done, Portable!vars, Portable!callVars,
    Portable!Goto, Portable!AfterLoad, Portable!Raised
<1>4. CASE Making
  BY <1>1, <1>4, MakingEffect, AcceptableKept DEF CallPlaced, Writing, Reconciling, Accepted, Publishing
<1>5. CASE Syncing
  BY <1>1, <1>5, SyncingEffect, AcceptableKept DEF CallPlaced, Writing, Reconciling, Accepted, Publishing, Syncing,
    Portable!SyncLoad, Portable!SyncBlob, Portable!SyncRemoval, Portable!Return, Portable!Goto, Portable!AfterLoad
<1>6. CASE Portable!Error BY <1>1, <1>6, ErrorEffect DEF CallPlaced, Writing, Reconciling, Accepted, Publishing
<1>7. CASE Portable!PowerFailure BY <1>7, PowerEffect DEF CallPlaced, Writing, Reconciling, Accepted, Publishing
<1>8. CASE Changing
 <2> USE ChangingEffect, AcceptableKept DEF CallPlaced, Writing, Reconciling, Accepted, Publishing, Portable!Goto
 <2>1. CASE Portable!RemoveEntryTemp
  <3>1. entries'.done = entries.done BY <2>1, DiskTypes DEF Portable!RemoveEntryTemp, Portable!Entries
  <3> QED BY <1>1, <1>2, <1>8, <2>1, <3>1 DEF Portable!RemoveEntryTemp, Portable!BlobsOf
 <2>2. CASE Portable!CreateBlob BY <1>1, <1>8, <2>2 DEF Portable!CreateBlob
 <2>3. CASE Portable!FillBlob BY <1>1, <1>8, <2>3 DEF Portable!FillBlob
 <2>4. CASE Portable!RenameBlob
  <3>1. /\ at = "blob.rename" /\ at' = "blob.sync" /\ UNCHANGED <<by, offer, entries, orphans>>
        /\ blobs' = [Portable!Shorter(blobs) EXCEPT !.done = @ \cup {offer.blob}]
    BY <1>8, <2>4 DEF Portable!RenameBlob, Portable!InBlobs
  <3>2. Portable!Shorter(blobs) \in [done : SUBSET Portable!Blobs, temps : Seq(BlobTemp)]
    BY <3>1, DiskTypes, BlobsShorter DEF BlobDirectory
  <3>3. offer.blob \in blobs'.done BY <3>1, <3>2
  <3> QED BY <1>1, <3>1, <3>3
 <2>5. CASE Portable!CreateEntry
  <3>1. entries'.done = entries.done BY <2>5, DiskTypes DEF Portable!CreateEntry, Portable!Entries, Portable!WithTemp
  <3> QED BY <1>1, <1>8, <2>5, <3>1 DEF Portable!CreateEntry
 <2>6. CASE Portable!FillEntry
  <3>1. entries'.done = entries.done BY <2>6, DiskTypes DEF Portable!FillEntry, Portable!Entries, Portable!Filled
  <3> QED BY <1>1, <1>8, <2>6, <3>1 DEF Portable!FillEntry
 <2>7. CASE Portable!RenameEntry
  <3>1. at = "entry.rename" /\ at' = "entry.sync" /\ UNCHANGED <<by, offer, blobs, blobsBefore, orphans>>
    BY <1>8, <2>7 DEF Portable!RenameEntry
  <3>2. Portable!Entry(offer)' \in Portable!Range(entries'.done)
   <4>1. Portable!Entry(offer) \in Portable!EntryType /\ Portable!Entry(offer)' = Portable!Entry(offer)
     BY <1>1, <3>1 DEF Portable!EntryType, Portable!Entry
   <4>2. entries' = [Portable!Shorter(entries) EXCEPT !.done = Append(@, Portable!Entry(offer))]
     BY <2>7 DEF Portable!RenameEntry, Portable!Entries
   <4>3. entries'.done = Append(entries.done, Portable!Entry(offer)) BY <3>1, <4>2, EntriesShorter
   <4> QED BY <4>1, <4>3, DiskTypes, EntryAppended
  <3> QED BY <1>1, <3>1, <3>2
 <2>8. CASE Portable!RemoveOrphan
  <3>1. PICK b \in orphans : blobs' = [blobs EXCEPT !.done = @ \ {b}] /\ orphans' = orphans \ {b}
    BY <2>8 DEF Portable!RemoveOrphan, Portable!InBlobs
  <3>2. blobs'.done = blobs.done \ {b} BY <1>1, <3>1
  <3> QED BY <1>1, <1>8, <2>8, <3>1, <3>2 DEF Portable!RemoveOrphan
 <2>9. CASE Portable!RemoveBlobTemp
  <3>1. blobs'.done = blobs.done BY <1>1, <2>9 DEF Portable!RemoveBlobTemp, Portable!InBlobs
  <3> QED BY <1>1, <1>8, <2>9, <3>1 DEF Portable!RemoveBlobTemp
 <2> QED BY <1>8, <2>1, <2>2, <2>3, <2>4, <2>5, <2>6, <2>7, <2>8, <2>9 DEF Changing
<1> QED BY <1>3, <1>4, <1>5, <1>6, <1>7, <1>8, EvidenceSteps

\* A temp is there from its creation to its rename, or some trouble has left it.
LEMMA EntryTempsStep ==
  ASSUME EvidenceInv, Portable!Next
  PROVE  EntryTempsPlaced'
<1>1. EntryTempsPlaced /\ trouble \in Nat /\ entries.temps \in Seq(EntryTemp)
  BY DiskTypes DEF EvidenceInv, EvidenceTyped
<1>2. CASE Idle
  BY <1>1, <1>2, IdleEffect DEF EntryTempsPlaced, Writing, Reconciling, Idle, Portable!Load, Portable!LoadRefused,
    Portable!Check, Portable!ReuseBlob, Portable!Recover, Portable!ListBlobs, Portable!Settle, Portable!Call,
    Portable!End, Portable!Kill, Portable!Done, Portable!vars, Portable!Goto, Portable!AfterLoad, Portable!Raised,
    Portable!Trouble
<1>3. CASE Making BY <1>1, <1>3, MakingEffect DEF EntryTempsPlaced, Writing, Reconciling
<1>4. CASE Syncing
  BY <1>1, <1>4, SyncingEffect DEF EntryTempsPlaced, Writing, Reconciling, Syncing, Portable!SyncLoad,
    Portable!SyncBlob, Portable!SyncRemoval, Portable!Return, Portable!Goto, Portable!AfterLoad
<1>5. CASE Portable!Error BY <1>1, <1>5, ErrorEffect DEF EntryTempsPlaced, Writing, Reconciling
<1>6. CASE Portable!PowerFailure
 <2>1. trouble' = trouble + 1 BY <1>6, PowerEffect DEF EntriesLost
 <2> QED BY <1>1, <1>6, <2>1, PowerEffect DEF EntryTempsPlaced, Writing, Reconciling
<1>7. CASE Changing
 <2> USE ChangingEffect DEF EntryTempsPlaced, Writing, Reconciling, Portable!Goto
 <2>1. CASE Portable!RemoveEntryTemp
  <3>1. at = "load" /\ at' = "load.sync" /\ UNCHANGED <<offer, trouble>> /\ entries' = [entries EXCEPT !.temps = << >>]
    BY <2>1 DEF Portable!RemoveEntryTemp, Portable!Entries, Portable!callVars
  <3>2. entries'.temps = << >> BY <3>1, DiskTypes
  <3>3. trouble # 0 BY <1>1, <2>1, <3>1 DEF Portable!RemoveEntryTemp, Portable!TempAccepted
  <3> QED BY <3>1, <3>2, <3>3
 <2>2. CASE Portable!CreateBlob \/ Portable!FillBlob \/ Portable!RenameBlob \/ Portable!RemoveOrphan \/ Portable!RemoveBlobTemp
   BY <1>1, <1>7, <2>2 DEF Portable!CreateBlob, Portable!FillBlob, Portable!RenameBlob, Portable!RemoveOrphan,
     Portable!RemoveBlobTemp
 <2>3. CASE Portable!CreateEntry
   BY <1>1, <1>7, <2>3, DiskTypes DEF Portable!CreateEntry, Portable!Entries, Portable!WithTemp
 <2>4. CASE Portable!FillEntry BY <1>1, <1>7, <2>4, DiskTypes DEF Portable!FillEntry, Portable!Entries, Portable!Filled
 <2>5. CASE Portable!RenameEntry
  <3>1. at = "entry.rename" /\ at' = "entry.sync" BY <2>5 DEF Portable!RenameEntry
  <3>2. entries' = [Portable!Shorter(entries) EXCEPT !.done = Append(@, Portable!Entry(offer))]
    BY <2>5 DEF Portable!RenameEntry, Portable!Entries
  <3>3. entries'.temps = << >> BY <3>1, <3>2, EntriesShorter
  <3> QED BY <3>1, <3>3
 <2> QED BY <1>7, <2>1, <2>2, <2>3, <2>4, <2>5 DEF Changing
<1> QED BY <1>2, <1>3, <1>4, <1>5, <1>6, <1>7, EvidenceSteps

\* The temps of blobs are counted by the one being written and the troubles so far.
LEMMA BlobTempsStep ==
  ASSUME EvidenceInv, Portable!Next
  PROVE  BlobTempsCounted'
<1>1. /\ BlobTempsCounted /\ trouble \in Nat /\ blobs \in BlobStates
      /\ \A bs \in BlobStates : Len(bs.temps) \in Nat
      /\ blobs \in [done : SUBSET Portable!Blobs, temps : Seq(BlobTemp)]
  BY DiskTypes DEF EvidenceInv, EvidenceTyped, BlobStates, BlobDirectory
<1>2. CASE Idle
 <2>1. BlobStates' = BlobStates /\ blobs' = blobs BY <1>2, IdleEffect DEF BlobStates
 <2>2. at' \notin {"blob.fill", "blob.rename"} /\ (at \in {"blob.fill", "blob.rename"} => trouble' = trouble + 1)
       /\ (at' \in {"remove", "remove.sync"} => Len(blobs.temps) <= 1)
   BY <1>1, <1>2 DEF Idle, Portable!Load, Portable!LoadRefused, Portable!Check, Portable!ReuseBlob,
     Portable!Recover, Portable!ListBlobs, Portable!Settle, Portable!Call, Portable!End, Portable!Kill,
     Portable!Done, Portable!vars, Portable!Goto, Portable!AfterLoad, Portable!Raised, Portable!Trouble,
     BlobTempsCounted
 <2> QED BY <1>1, <1>2, <2>1, <2>2, IdleEffect DEF BlobTempsCounted
<1>3. CASE Making BY <1>1, <1>3, MakingEffect DEF BlobTempsCounted, BlobStates
<1>4. CASE Syncing
 <2>1. at' \notin {"blob.fill", "blob.rename"} /\ at \notin {"blob.fill", "blob.rename"}
       /\ (at' \in {"remove", "remove.sync"} => at = "remove.sync")
   BY <1>4 DEF Syncing, Portable!SyncLoad, Portable!SyncBlob, Portable!SyncRemoval, Portable!Return,
     Portable!Goto, Portable!AfterLoad
 <2> QED BY <1>1, <1>4, <2>1, SyncingEffect DEF BlobTempsCounted
<1>5. CASE Portable!RemoveEntryTemp \/ Portable!CreateEntry \/ Portable!FillEntry \/ Portable!RenameEntry
  BY <1>1, <1>5 DEF Portable!RemoveEntryTemp, Portable!CreateEntry, Portable!FillEntry, Portable!RenameEntry,
    Portable!Goto, BlobTempsCounted, BlobStates
<1>6. CASE Portable!CreateBlob
 <2>1. /\ at = "blob" /\ at' = "blob.fill" /\ trouble' = trouble /\ blobsBefore' = blobsBefore \cup {blobs}
       /\ blobs' = [blobs EXCEPT !.temps = Append(@, [blob |-> offer.blob, whole |-> FALSE])]
   BY <1>6 DEF Portable!CreateBlob, Portable!InBlobs, Portable!WithTemp, Portable!Goto
 <2>2. [blob |-> offer.blob, whole |-> FALSE] \in BlobTemp BY DEF BlobTemp, Portable!Blobs, EvidenceInv, EvidenceTyped
 <2>3. Len(blobs'.temps) = Len(blobs.temps) + 1 /\ blobs'.temps # << >>
  <3> DEFINE ts == Append(blobs.temps, [blob |-> offer.blob, whole |-> FALSE])
  <3>1. Len(ts) = Len(blobs.temps) + 1 /\ ts # << >> BY <1>1, <2>2, AppendProperties
  <3>2. blobs' = [blobs EXCEPT !.temps = ts] BY <2>1
  <3> HIDE DEF ts
  <3>3. blobs'.temps = ts BY <1>1, <3>2
  <3> QED BY <3>1, <3>3
 <2>4. BlobStates' \subseteq BlobStates \cup {blobs'} BY <2>1 DEF BlobStates
 <2> QED BY <1>1, <2>1, <2>3, <2>4 DEF BlobTempsCounted
<1>7. CASE Portable!FillBlob
 <2>1. /\ at = "blob.fill" /\ at' = "blob.rename" /\ trouble' = trouble /\ blobsBefore' = blobsBefore \cup {blobs}
       /\ blobs' = Portable!Filled(blobs)
   BY <1>7 DEF Portable!FillBlob, Portable!InBlobs, Portable!Goto
 <2>2. Len(blobs'.temps) = Len(blobs.temps) /\ blobs.temps # << >> BY <1>1, <2>1, BlobsFilled DEF BlobTempsCounted
 <2>3. blobs'.temps # << >> BY <1>1, <2>2
 <2>4. BlobStates' \subseteq BlobStates \cup {blobs'} BY <2>1 DEF BlobStates
 <2> QED BY <1>1, <2>1, <2>2, <2>3, <2>4 DEF BlobTempsCounted
<1>8. CASE Portable!RenameBlob
 <2>1. /\ at = "blob.rename" /\ at' = "blob.sync" /\ trouble' = trouble /\ blobsBefore' = blobsBefore \cup {blobs}
       /\ blobs' = [Portable!Shorter(blobs) EXCEPT !.done = @ \cup {offer.blob}]
   BY <1>8 DEF Portable!RenameBlob, Portable!InBlobs, Portable!Goto
 <2>2. blobs'.temps = Portable!Shorter(blobs).temps BY <2>1, BlobsShorter DEF BlobDirectory
 <2>3. Len(blobs'.temps) = Len(blobs.temps) - 1 BY <2>1, <2>2, BlobsShorter
 <2>4. BlobStates' \subseteq BlobStates \cup {blobs'} BY <2>1 DEF BlobStates
 <2>5. Len(blobs.temps) \in Nat /\ Len(blobs.temps) <= trouble + 1 BY <1>1 DEF BlobTempsCounted
 <2>6. /\ Len(blobs'.temps) <= trouble' /\ at' \notin {"blob.fill", "blob.rename", "remove", "remove.sync"}
       /\ Len(blobs'.temps) <= trouble' + 1 /\ \A bs \in BlobStates : Len(bs.temps) <= trouble' + 1
   BY <1>1, <2>1, <2>3, <2>5 DEF BlobTempsCounted
 <2> QED BY <2>4, <2>6 DEF BlobTempsCounted
<1>9. CASE Portable!RemoveOrphan \/ Portable!RemoveBlobTemp
 <2>1. /\ at = "remove" /\ at' \in {"remove.sync", "stuck"} /\ trouble' = trouble
       /\ BlobStates' \subseteq BlobStates \cup {blobs'}
   BY <1>9 DEF Portable!RemoveOrphan, Portable!RemoveBlobTemp, Portable!InBlobs, Portable!Goto, BlobStates
 <2>2. blobs'.temps = << >> \/ blobs'.temps = blobs.temps
   BY <1>1, <1>9 DEF Portable!RemoveOrphan, Portable!RemoveBlobTemp, Portable!InBlobs
 <2>3. Len(<< >>) = 0 OBVIOUS
 <2> QED BY <1>1, <2>1, <2>2, <2>3 DEF BlobTempsCounted
<1>10. CASE Portable!Error
 <2>1. /\ at' \in {"session", "dead"} /\ trouble' = trouble + 1
       /\ blobs' \in Portable!Failed(blobs, "blob.fill", "blob.rename")
       /\ BlobStates' \subseteq BlobStates \cup {blobs'}
   BY <1>10, ErrorEffect DEF Portable!Error, BlobStates
 <2>2. Len(blobs'.temps) <= Len(blobs.temps) BY <1>1, <2>1, BlobsFilled, BlobsShorter DEF Portable!Failed
 <2>3. Len(blobs'.temps) \in Nat
  <3>1. blobs'.temps \in Seq(BlobTemp) BY EvidenceTypedStep DEF EvidenceTyped, BlobStates, BlobDirectory
  <3> QED BY <3>1
 <2> QED BY <1>1, <2>1, <2>2, <2>3 DEF BlobTempsCounted
<1>11. CASE Portable!PowerFailure
 <2>1. /\ at' = "dead" /\ trouble' = trouble + 1 /\ BlobStates' = {blobs'}
       /\ blobs' \in BlobStates \/ blobs' = Portable!NoBlobs
   BY <1>11, PowerEffect DEF BlobsLost
 <2>2. Len(Portable!NoBlobs.temps) = 0 BY DEF Portable!NoBlobs
 <2>3. Len(blobs'.temps) <= trouble' /\ Len(blobs'.temps) \in Nat BY <1>1, <2>1, <2>2 DEF BlobTempsCounted
 <2> QED BY <1>1, <2>1, <2>3 DEF BlobTempsCounted
<1> QED BY <1>2, <1>3, <1>4, <1>5, <1>6, <1>7, <1>8, <1>9, <1>10, <1>11, EvidenceSteps DEF Changing

\* Only Settle ends it, with nothing left over.
LEMMA RecordStep ==
  ASSUME EvidenceInv, Portable!Next
  PROVE  Portable!RecordIsExact'
<1>1. CASE at' # "done" BY <1>1 DEF Portable!RecordIsExact
<1>2. CASE Portable!Settle
 <2>1. /\ entries.temps = << >> /\ orphans = blobs.done \ Portable!BlobsOf(entries.done)
       /\ Portable!BlobsOf(entries.done) \subseteq blobs.done
   BY <1>2 DEF Portable!Settle, EvidenceInv, EntryTempsPlaced, CallPlaced, Reconciling
 <2>2. orphans = {} /\ blobs.temps = << >> /\ UNCHANGED <<entries, blobs>>
   BY <1>2 DEF Portable!Settle, Portable!diskVars
 <2>3. blobs.done = Portable!BlobsOf(entries.done) BY <2>1, <2>2, DiskTypes
 <2> QED BY <2>1, <2>2, <2>3 DEF Portable!RecordIsExact
<1>3. CASE Portable!Done
 <2>1. UNCHANGED <<at, entries, blobs>> BY <1>3 DEF Portable!Done, Portable!vars, Portable!diskVars
 <2> QED BY <2>1 DEF EvidenceInv, Portable!RecordIsExact
<1>4. CASE Idle /\ ~Portable!Settle /\ ~Portable!Done /\ at' = "done"
  BY <1>4 DEF Idle, Portable!Load, Portable!LoadRefused, Portable!Check, Portable!ReuseBlob, Portable!Recover,
    Portable!ListBlobs, Portable!Call, Portable!End, Portable!Kill, Portable!Goto, Portable!AfterLoad, Portable!Raised
<1>5. CASE Syncing \/ Changing
  BY <1>1, <1>5 DEF Syncing, Portable!SyncLoad, Portable!SyncBlob, Portable!SyncRemoval, Portable!Return, Changing,
    Portable!RemoveEntryTemp, Portable!CreateBlob, Portable!FillBlob, Portable!RenameBlob, Portable!CreateEntry,
    Portable!FillEntry, Portable!RenameEntry, Portable!RemoveOrphan, Portable!RemoveBlobTemp, Portable!Goto,
    Portable!AfterLoad
<1> QED BY <1>1, <1>2, <1>3, <1>4, <1>5, MakingEffect, ErrorEffect, PowerEffect, EvidenceSteps

\* What a load finds wrong is never a committed entry.
LEMMA EntriesLoad ==
  ASSUME EvidenceInv, ~lost
  PROVE  Portable!Loadable
<1>1. entries \in EntryStates /\ blobs \in BlobStates BY DEF EntryStates, BlobStates
<1>2. Portable!PolicyOf(entries.done) /\ Portable!BlobsOf(entries.done) \subseteq blobs.done
  BY <1>1 DEF EvidenceInv, EntriesLegal, LegalState, EntriesBacked
<1> QED BY <1>2 DEF Portable!Loadable, Portable!PolicyOf, Portable!Backed, Portable!BlobsOf

\* Finalization and recovery give up for a temp only, and only after trouble.
LEMMA CausesStep ==
  ASSUME EvidenceInv, Portable!Next
  PROVE  Portable!RefusalsHaveACause'
<1> DEFINE Cause == \/ trouble >= 2 /\ lost
                    \/ trouble >= 1 /\ \E t \in Portable!Range(entries.temps) \cup Portable!Range(blobs.temps) : ~t.whole
                    \/ trouble >= 2 /\ Len(blobs.temps) > 1
                    \/ trouble >= 2 /\ \E t \in Portable!Range(entries.temps) : ~Portable!Backed(t.entry)
<1>0. trouble \in Nat BY TroubleEffect
<1>1. CASE at' # "stuck" BY <1>1 DEF Portable!RefusalsHaveACause
<1>2. ASSUME Cause, UNCHANGED <<entries, blobs, lost, trouble>>
      PROVE  Portable!RefusalsHaveACause'
  BY <1>2 DEF Portable!RefusalsHaveACause, Portable!Backed
<1>3. CASE Portable!LoadRefused /\ lost
 <2>1. Cause BY <1>3 DEF EvidenceInv, DirectoriesKept
 <2>2. UNCHANGED <<entries, blobs, lost, trouble>>
   BY <1>3 DEF Portable!LoadRefused, Portable!diskVars, Portable!dirVars
 <2> HIDE DEF Cause
 <2> QED BY <1>2, <2>1, <2>2
<1>4. CASE Portable!LoadRefused /\ ~lost
 <2>1. at = "load" /\ entries.temps # << >> /\ ~Portable!TempAccepted /\ UNCHANGED <<entries, blobs, lost, trouble>>
   BY <1>4, EntriesLoad DEF Portable!LoadRefused, Portable!diskVars, Portable!dirVars
 <2> DEFINE t == entries.temps[1]
 <2>2. /\ entries \in EntryStates /\ blobs \in BlobStates /\ Len(entries.temps) <= 1
       /\ t.sequence = Len(entries.done) + 1 /\ t.entry.path \notin Portable!PathsOf(entries.done)
   BY <2>1 DEF EvidenceInv, EntriesLegal, LegalState, EntryStates, BlobStates
 <2>3. Len(entries.temps) = 1 BY <2>1, <2>2, DiskTypes, OnlyOne
 <2>4. t.sequence \notin DOMAIN entries.done /\ t \in Portable!Range(entries.temps)
  <3>1. entries.done \in Seq(Portable!EntryType) /\ entries.temps \in Seq(EntryTemp) BY DiskTypes
  <3>2. DOMAIN entries.done = 1 .. Len(entries.done) /\ Len(entries.done) \in Nat /\ 1 \in DOMAIN entries.temps
    BY <2>3, <3>1
  <3> QED BY <2>2, <3>2 DEF Portable!Range
 <2>5. ~t.whole \/ ~Portable!Backed(t.entry) BY <2>1, <2>2, <2>3, <2>4 DEF Portable!TempAccepted
 <2>6. trouble # 0 /\ (trouble < 2 => Portable!Backed(t.entry))
   BY <1>4, <2>1, <2>2 DEF EvidenceInv, EntryTempsPlaced, EntriesBacked, Portable!Backed
 <2>7. Cause
  <3> HIDE DEF t
  <3> QED BY <1>0, <2>4, <2>5, <2>6
 <2> HIDE DEF Cause
 <2> QED BY <1>2, <2>1, <2>7
<1>5. CASE Portable!ListBlobs /\ at' = "stuck"
 <2>1. Len(blobs.temps) > 1 /\ at = "orphans" /\ UNCHANGED <<entries, blobs, lost, trouble>>
   BY <1>5 DEF Portable!ListBlobs, Portable!Goto, Portable!diskVars, Portable!dirVars
 <2>2. Len(blobs.temps) <= trouble /\ Len(blobs.temps) \in Nat BY <2>1, DiskTypes DEF EvidenceInv, BlobTempsCounted
 <2>3. Cause BY <1>0, <2>1, <2>2
 <2> HIDE DEF Cause
 <2> QED BY <1>2, <2>1, <2>3
<1>6. CASE Portable!RemoveBlobTemp /\ at' = "stuck"
 <2>1. /\ blobs.temps # << >> /\ ~blobs.temps[1].whole /\ at = "remove"
       /\ UNCHANGED <<entries, blobs, lost, trouble>>
   BY <1>6 DEF Portable!RemoveBlobTemp, Portable!Goto, Portable!dirVars
 <2>2. Len(blobs.temps) <= trouble BY <2>1 DEF EvidenceInv, BlobTempsCounted
 <2>3. 1 \in DOMAIN blobs.temps /\ trouble # 0
  <3>1. blobs.temps \in Seq(BlobTemp) BY DiskTypes
  <3> QED BY <1>0, <2>1, <2>2, <3>1
 <2>4. blobs.temps[1] \in Portable!Range(blobs.temps) BY <2>3 DEF Portable!Range
 <2>5. Cause BY <1>0, <2>1, <2>3, <2>4
 <2> HIDE DEF Cause
 <2> QED BY <1>2, <2>1, <2>5
<1>7. CASE Idle /\ ~Portable!LoadRefused /\ ~Portable!ListBlobs /\ at' = "stuck"
  BY <1>7 DEF Idle, Portable!Load, Portable!Check, Portable!ReuseBlob, Portable!Recover, Portable!Settle,
    Portable!Call, Portable!End, Portable!Kill, Portable!Done, Portable!vars, Portable!Goto, Portable!AfterLoad
<1>8. CASE Syncing
  BY <1>1, <1>8 DEF Syncing, Portable!SyncLoad, Portable!SyncBlob, Portable!SyncRemoval, Portable!Return,
    Portable!Goto, Portable!AfterLoad
<1>9. CASE Changing /\ ~Portable!RemoveBlobTemp /\ at' = "stuck"
  BY <1>9 DEF Changing, Portable!RemoveEntryTemp, Portable!CreateBlob, Portable!FillBlob, Portable!RenameBlob,
    Portable!CreateEntry, Portable!FillEntry, Portable!RenameEntry, Portable!RemoveOrphan, Portable!Goto
<1> QED BY <1>1, <1>3, <1>4, <1>5, <1>6, <1>7, <1>8, <1>9, MakingEffect, ErrorEffect, PowerEffect, EvidenceSteps

----------------------------------------
(* The theorems of portable evidence *)

\* A run starts with no evidence.
LEMMA EvidenceStarts == ASSUME Portable!Init PROVE EvidenceInv
<1> USE OperationsAssumption DEF Portable!OfferAssumption
<1>1. /\ at = "session" /\ by = "write" /\ entries = [done |-> << >>, temps |-> << >>]
      /\ blobs = [done |-> {}, temps |-> << >>] /\ trouble = 0 /\ made = {} /\ unsynced = {} /\ unsure = {}
      /\ lost = FALSE
      /\ orphans = {} /\ returned = {} /\ EntryStates = {entries} /\ BlobStates = {blobs}
      /\ entriesBefore = {} /\ blobsBefore = {}
  BY DEF Portable!Init, EntryStates, BlobStates
<1>2. /\ Portable!Range(<< >>) = {} /\ Portable!PathsOf(<< >>) = {} /\ Portable!BlobsOf(<< >>) = {}
  BY DEF Portable!Range, Portable!PathsOf, Portable!BlobsOf
<1>3. LegalState(entries) BY <1>1, NothingIsLegal DEF Portable!NoEntries
<1>4. EvidenceTyped
 <2>1. offer \in Offers BY DEF Portable!Init, Portable!NoOffer
 <2>2. << >> \in Seq(Portable!EntryType) /\ << >> \in Seq(EntryTemp) /\ << >> \in Seq(BlobTemp) OBVIOUS
 <2>3. entries \in EntryDirectory /\ blobs \in BlobDirectory BY <1>1, <2>2 DEF EntryDirectory, BlobDirectory
 <2>4. EntryStates \subseteq EntryDirectory /\ BlobStates \subseteq BlobDirectory BY <1>1, <2>3
 <2>5. at \in Portable!Steps /\ trouble \in 0 .. MaxPortableTrouble BY <1>1 DEF Portable!Steps
 <2>6. made \subseteq {"portable", "blobs", "entries"} /\ unsure \subseteq unsynced /\ unsynced \subseteq made BY <1>1
 <2>7. orphans \subseteq Portable!Blobs /\ returned \subseteq Portable!EntryType /\ lost \in BOOLEAN BY <1>1
 <2> QED BY <1>1, <2>1, <2>4, <2>5, <2>6, <2>7 DEF EvidenceTyped
<1>5. DirectoriesKept BY <1>1 DEF DirectoriesKept, Fresh, Used, Portable!NoEntries, Portable!NoBlobs
<1>6. CallPlaced /\ EntryTempsPlaced /\ Portable!RecordIsExact /\ Portable!RefusalsHaveACause
  BY <1>1 DEF CallPlaced, EntryTempsPlaced, Portable!RecordIsExact, Portable!RefusalsHaveACause, Writing, Reconciling,
    Accepted, Publishing
<1>7. BlobTempsCounted /\ EntriesLegal
 <2>1. Len(<< >>) = 0 /\ blobs.temps = << >> BY <1>1
 <2>2. EntriesLegal BY <1>1, <1>3 DEF EntriesLegal
 <2>3. BlobTempsCounted BY <1>1, <2>1 DEF BlobTempsCounted
 <2> QED BY <2>2, <2>3
<1>8. EntriesBacked BY <1>1, <1>2 DEF EntriesBacked
<1> QED BY <1>4, <1>5, <1>6, <1>7, <1>8 DEF EvidenceInv

\* Every step keeps the invariant.
LEMMA EvidenceKept == ASSUME EvidenceInv, Portable!Next PROVE EvidenceInv'
BY EvidenceTypedStep, DirectoriesStep, CallPlacedStep, EntryTempsStep, BlobTempsStep, EntriesLegalStep,
  EntriesBackedStep, RecordStep, CausesStep DEF EvidenceInv

\* So does a step that leaves its variables alone.
LEMMA EvidenceStutters == ASSUME EvidenceInv, UNCHANGED Portable!vars PROVE EvidenceInv'
<1>1. UNCHANGED <<at, by, offer, entries, blobs, entriesBefore, blobsBefore, made, unsynced, unsure, lost, orphans,
        returned, trouble>>
  BY DEF Portable!vars, Portable!callVars, Portable!diskVars, Portable!dirVars
<1>2. EntryStates' = EntryStates /\ BlobStates' = BlobStates BY <1>1 DEF EntryStates, BlobStates
<1>3. EvidenceTyped' /\ DirectoriesKept' /\ EntryTempsPlaced' /\ BlobTempsCounted'
  BY <1>1, <1>2 DEF EvidenceInv, EvidenceTyped, DirectoriesKept, Fresh, Used, EntryTempsPlaced, BlobTempsCounted
<1>4. CallPlaced'
 <2>1. Portable!Acceptable(offer) => Portable!Acceptable(offer)' BY <1>1, AcceptableKept
 <2> QED BY <1>1, <2>1 DEF EvidenceInv, CallPlaced
<1>5. EntriesLegal' /\ EntriesBacked' BY <1>1, <1>2 DEF EvidenceInv, EntriesLegal, EntriesBacked
<1>6. Portable!RecordIsExact' /\ Portable!RefusalsHaveACause'
  BY <1>1 DEF EvidenceInv, Portable!RecordIsExact, Portable!RefusalsHaveACause, Portable!Backed
<1> QED BY <1>3, <1>4, <1>5, <1>6 DEF EvidenceInv

\* The variables keep their types.
LEMMA EvidenceTypes == ASSUME EvidenceInv PROVE Portable!TypeOK
<1>1. /\ at \in Portable!Steps /\ by \in {"write", "finalization", "recovery"} /\ offer \in Offers
      /\ made \subseteq {"portable", "blobs", "entries"} /\ unsure \subseteq unsynced /\ unsynced \subseteq made
      /\ orphans \subseteq Portable!Blobs /\ returned \subseteq Portable!EntryType
      /\ lost \in BOOLEAN /\ trouble \in 0 .. MaxPortableTrouble
  BY DEF EvidenceInv, EvidenceTyped
<1>2. entries \in EntryStates /\ blobs \in BlobStates BY DEF EntryStates, BlobStates
<1>3. entries.done \in Seq(Portable!EntryType) /\ blobs.done \subseteq Portable!Blobs BY DiskTypes
<1>4. \A t \in Portable!Range(entries.temps) : t.entry \in Portable!EntryType /\ t.whole \in BOOLEAN
 <2>1. \A t \in Portable!Range(entries.temps) : t \in EntryTemp BY DiskTypes DEF Portable!Range
 <2> QED BY <2>1 DEF EntryTemp
<1>5. \A t \in Portable!Range(blobs.temps) : t.blob \in Portable!Blobs /\ t.whole \in BOOLEAN
 <2>1. \A t \in Portable!Range(blobs.temps) : t \in BlobTemp BY DiskTypes DEF Portable!Range
 <2> QED BY <2>1 DEF BlobTemp
<1>6. Len(entries.temps) <= 1 /\ Len(blobs.temps) <= trouble + 1
  BY <1>2 DEF EvidenceInv, EntriesLegal, LegalState, BlobTempsCounted
<1> QED BY <1>1, <1>3, <1>4, <1>5, <1>6 DEF Portable!TypeOK

\* The committed entries keep the policy, have their blobs and hold what was returned, unless a
\* directory is lost whose fsync failed.
LEMMA EntriesKept ==
  ASSUME EvidenceInv
  PROVE  Portable!PolicyHolds /\ Portable!EntriesAreBacked /\ Portable!CommittedIsKept
<1>1. entries \in EntryStates BY DEF EntryStates
<1>2. Portable!PolicyOf(entries.done) /\ (lost \/ returned \subseteq Portable!Range(entries.done))
  BY <1>1 DEF EvidenceInv, EntriesLegal, LegalState
<1>3. Portable!EntriesAreBacked BY EntriesLoad DEF Portable!Loadable, Portable!EntriesAreBacked
<1> QED BY <1>2, <1>3 DEF Portable!PolicyHolds, Portable!CommittedIsKept

\* EvidenceInv is an invariant, whatever is offered, killed or raised and wherever the power fails.
THEOREM EvidenceInvariance == Spec => [](system = "portable" => EvidenceInv)
<1>1. Init => (system = "portable" => EvidenceInv) BY EvidenceStarts DEF Init
<1>2. (system = "portable" => EvidenceInv) /\ [Next]_vars => (system = "portable" => EvidenceInv)'
 <2> SUFFICES ASSUME system = "portable" => EvidenceInv, [Next]_vars, system' = "portable" PROVE EvidenceInv' OBVIOUS
 <2>1. CASE UNCHANGED vars
  <3>1. system = "portable" /\ UNCHANGED Portable!vars
    BY <2>1 DEF vars, evidenceVars, Portable!vars, Portable!callVars, Portable!diskVars, Portable!dirVars
  <3> QED BY <3>1, EvidenceStutters
 <2>2. CASE Next
  <3>1. Portable!Next /\ system = "portable" BY <2>2 DEF Next
  <3> QED BY <3>1, EvidenceKept
 <2> QED BY <2>1, <2>2
<1> QED BY <1>1, <1>2, PTL DEF Spec

\* PortableEvidenceIsKept: what write_portable returned stays, each entry within the limits and with
\* its blob.
THEOREM EvidenceKeeps == Spec => []PortableEvidenceIsKept
<1>1. (system = "portable" => EvidenceInv) => PortableEvidenceIsKept
  BY EvidenceTypes, EntriesKept DEF PortableEvidenceIsKept
<1> QED BY <1>1, EvidenceInvariance, PTL

\* PortableEvidenceIsSettled: the record is of the committed entries alone, and only what a fault
\* has left is refused.
THEOREM EvidenceSettles == Spec => []PortableEvidenceIsSettled
<1>1. (system = "portable" => EvidenceInv) => PortableEvidenceIsSettled BY DEF PortableEvidenceIsSettled, EvidenceInv
<1> QED BY <1>1, EvidenceInvariance, PTL

----------------------------------------
(* The exports of a finalized run *)

\* The record that a manifest of a bundle tells of is the one that was inspected.
OfRun(m, r) == m.record = Export!Records[r][Export!Manifest] /\ m.outcome = r.outcome

\* A function, and nothing else
IsMap(f) == f = [x \in DOMAIN f |-> f[x]]

\* Bundle counts as this module does.
LEMMA ExportCardinality == ASSUME NEW S PROVE Export!Cardinality(S) = Cardinality(S)
BY DEF Export!Cardinality, Cardinality

\* What a run is, by assumption
LEMMA RunsTyped ==
  ASSUME NEW r \in Runs
  PROVE  /\ r.events \in Nat \ {0} /\ r.outcome # "none"
         /\ r.entries \in Seq([path : STRING, media : STRING, blob : Nat])
         /\ DOMAIN r.entries = 1 .. Len(r.entries) /\ Len(r.entries) \in Nat
<1>1. r.events \in Nat \ {0} /\ r.outcome # "none" /\ r.entries \in Seq([path : STRING, media : STRING, blob : Nat])
  BY OperationsAssumption DEF Export!RunAssumption
<1> QED BY <1>1

\* The files of a record besides its manifest
LEMMA PayloadShape ==
  ASSUME NEW r \in Runs
  PROVE  LET f == Export!WithSums(Export!Payload(r)) IN
         /\ DOMAIN f = Export!PayloadPaths(r) \cup {Export!Checksums}
         /\ \A i \in 1 .. r.events : f[<<"events", i>>].outcome = IF i = r.events THEN r.outcome ELSE "none"
         /\ \A i \in DOMAIN r.entries : f[<<"entries", i>>].blob = r.entries[i].blob
<1> DEFINE p == Export!Payload(r)
<1>1. DOMAIN p = Export!PayloadPaths(r) BY DEF Export!Payload
<1>2. ASSUME NEW i \in 1 .. r.events PROVE p[<<"events", i>>].outcome = IF i = r.events THEN r.outcome ELSE "none"
 <2>1. <<"events", i>> \in Export!PayloadPaths(r) BY DEF Export!PayloadPaths
 <2>2. p[<<"events", i>>] = Export!EventOf(r, i) BY <2>1 DEF Export!Payload
 <2> QED BY <2>2 DEF Export!EventOf
<1>3. ASSUME NEW i \in DOMAIN r.entries PROVE p[<<"entries", i>>].blob = r.entries[i].blob
 <2>1. <<"entries", i>> \in Export!PayloadPaths(r) BY DEF Export!PayloadPaths
 <2>2. p[<<"entries", i>>] = Export!EntryOf(r, i) BY <2>1 DEF Export!Payload
 <2> QED BY <2>2 DEF Export!EntryOf
<1> HIDE DEF p
<1> DEFINE f == Export!WithSums(p)
<1>5. DOMAIN f = DOMAIN p \cup {Export!Checksums} /\ \A q \in DOMAIN p : q # Export!Checksums => f[q] = p[q]
  BY DEF Export!WithSums, Export!WithFile, Export!Atop
<1> HIDE DEF f
<1>6. \A i \in 1 .. r.events : <<"events", i>> \in DOMAIN p \ {Export!Checksums}
  BY <1>1 DEF Export!PayloadPaths, Export!Checksums, Export!File
<1>7. \A i \in DOMAIN r.entries : <<"entries", i>> \in DOMAIN p \ {Export!Checksums}
  BY <1>1 DEF Export!PayloadPaths, Export!Checksums, Export!File
<1>8. DOMAIN f = Export!PayloadPaths(r) \cup {Export!Checksums} BY <1>1, <1>5
<1>9. \A i \in 1 .. r.events : f[<<"events", i>>].outcome = IF i = r.events THEN r.outcome ELSE "none"
  BY <1>2, <1>5, <1>6
<1>10. \A i \in DOMAIN r.entries : f[<<"entries", i>>].blob = r.entries[i].blob BY <1>3, <1>5, <1>7
<1> QED BY <1>8, <1>9, <1>10 DEF f, p

\* A record has its files, and a manifest of them that is no file of its own.
LEMMA RecordShape ==
  ASSUME NEW r \in Runs
  PROVE  LET f == Export!WithSums(Export!Payload(r))  record == Export!Records[r] IN
         /\ record[Export!Manifest].files = f
         /\ DOMAIN record = DOMAIN f \cup {Export!Manifest} /\ Export!Manifest \notin DOMAIN f
         /\ \A p \in DOMAIN f : record[p] = f[p]
<1> DEFINE f == Export!WithSums(Export!Payload(r))
           record == Export!Records[r]
<1>1. record = Export!WithFile(Export!Manifest, [of |-> "manifest", files |-> f], f)
  BY DEF Export!Records, Export!RecordOf
<1>2. Export!Manifest \notin DOMAIN f
 <2>1. DOMAIN f = Export!PayloadPaths(r) \cup {Export!Checksums} BY PayloadShape
 <2>2. Export!Manifest \notin Export!PayloadPaths(r) \cup {Export!Checksums}
   BY DEF Export!PayloadPaths, Export!Manifest, Export!Checksums, Export!File
 <2> QED BY <2>1, <2>2
<1> HIDE DEF f, record
<1>3. /\ record[Export!Manifest] = [of |-> "manifest", files |-> f]
      /\ DOMAIN record = DOMAIN f \cup {Export!Manifest}
      /\ \A p \in DOMAIN f : p # Export!Manifest => record[p] = f[p]
  BY <1>1 DEF Export!WithFile, Export!Atop
<1> QED BY <1>2, <1>3 DEF f, record

\* A record is of finitely many files, each of them a control file, local, or an event, entry or
\* blob with its number; no record has the manifest of a bundle.
LEMMA RecordPaths ==
  ASSUME NEW r \in Runs
  PROVE  LET record == Export!Records[r] IN
         /\ IsFiniteSet(DOMAIN record) /\ Export!BundleJson \notin DOMAIN record
         /\ Export!OfKind(record, "events") = {"events"} \X (1 .. r.events)
         /\ Export!OfKind(record, "entries") = {"entries"} \X DOMAIN r.entries
         /\ \A p \in DOMAIN record : p = <<p[1], p[2]>>
<1> DEFINE record == Export!Records[r]
           numbered == ({"events"} \X (1 .. r.events)) \cup ({"entries"} \X DOMAIN r.entries)
                       \cup ({"blobs"} \X {r.entries[i].blob : i \in DOMAIN r.entries})
           single == Export!Control \cup {Export!File("local")}
<1>1. DOMAIN record = single \cup numbered
 <2>1. DOMAIN record = Export!PayloadPaths(r) \cup {Export!Checksums, Export!Manifest}
  <3> DEFINE f == Export!WithSums(Export!Payload(r))
  <3>1. DOMAIN f = Export!PayloadPaths(r) \cup {Export!Checksums} BY PayloadShape
  <3>2. DOMAIN record = DOMAIN f \cup {Export!Manifest} BY RecordShape
  <3> QED BY <3>1, <3>2
 <2> HIDE DEF record
 <2> QED BY <2>1 DEF Export!PayloadPaths, Export!Control
<1>2. IsFiniteSet(numbered)
 <2>1. IsFiniteSet(1 .. r.events) /\ IsFiniteSet(DOMAIN r.entries) BY RunsTyped, FS_Interval
 <2>2. IsFiniteSet({r.entries[i].blob : i \in DOMAIN r.entries})
  <3> DEFINE named == {r.entries[i].blob : i \in DOMAIN r.entries}
             blobAt == [i \in DOMAIN r.entries |-> r.entries[i].blob]
  <3>1. blobAt \in Surjection(DOMAIN r.entries, named) BY DEF Surjection
  <3>2. DOMAIN r.entries = 1 .. Len(r.entries) /\ Len(r.entries) \in Nat BY RunsTyped
  <3> HIDE DEF named, blobAt
  <3>3. \E n \in Nat : ExistsSurjection(1 .. n, named) BY <3>1, <3>2 DEF ExistsSurjection
  <3>4. IsFiniteSet(named) BY <3>3, FS_NatSurjection, Zenon
  <3> QED BY <3>4 DEF named
 <2>3. IsFiniteSet({"events"}) /\ IsFiniteSet({"entries"}) /\ IsFiniteSet({"blobs"}) BY FS_Singleton
 <2>4. /\ IsFiniteSet({"events"} \X (1 .. r.events)) /\ IsFiniteSet({"entries"} \X DOMAIN r.entries)
       /\ IsFiniteSet({"blobs"} \X {r.entries[i].blob : i \in DOMAIN r.entries})
   BY <2>1, <2>2, <2>3, FS_Product, Zenon
 <2> QED BY <2>4, FS_Union, Zenon
<1>3. IsFiniteSet(single)
 <2>1. IsFiniteSet({Export!Manifest}) /\ IsFiniteSet({Export!File("local")}) BY FS_Singleton
 <2>2. IsFiniteSet({Export!Manifest, Export!Checksums}) BY <2>1, FS_AddElement
 <2>3. IsFiniteSet({Export!Manifest, Export!Checksums, Export!File("run.json")}) BY <2>2, FS_AddElement
 <2>4. IsFiniteSet(({Export!Manifest, Export!Checksums, Export!File("run.json")} \cup {Export!File("status.json")})
                   \cup {Export!File("manifest.input.yaml")})
   BY <2>3, FS_AddElement
 <2>5. IsFiniteSet(({Export!Manifest, Export!Checksums, Export!File("run.json")} \cup {Export!File("status.json")})
                   \cup {Export!File("manifest.input.yaml")} \cup {Export!File("manifest.resolved.yaml")})
   BY <2>4, FS_AddElement
 <2>6. IsFiniteSet(Export!Control) BY <2>5, Zenon DEF Export!Control
 <2> QED BY <2>1, <2>6, FS_Union, Zenon
<1>5. \A p \in single : p = <<p[1], p[2]>> /\ p[1] \notin {"events", "entries", "blobs", "bundle.json"}
  BY DEF Export!Control, Export!Manifest, Export!Checksums, Export!File
<1>6. \A p \in numbered : p = <<p[1], p[2]>> /\ p[1] \in {"events", "entries", "blobs"} OBVIOUS
<1> HIDE DEF record, single, numbered
<1>4. IsFiniteSet(DOMAIN record) BY <1>1, <1>2, <1>3, FS_Union, Zenon
<1>7. Export!BundleJson \notin DOMAIN record BY <1>1, <1>5, <1>6 DEF Export!BundleJson, Export!File
<1>8. /\ {p \in DOMAIN record : p[1] = "events"} = {"events"} \X (1 .. r.events)
      /\ {p \in DOMAIN record : p[1] = "entries"} = {"entries"} \X DOMAIN r.entries
  BY <1>1, <1>5 DEF numbered
<1>9. \A p \in DOMAIN record : p = <<p[1], p[2]>> BY <1>1, <1>5, <1>6
<1> QED BY <1>4, <1>7, <1>8, <1>9 DEF record, Export!OfKind

\* Of what a snapshot consists that holds: its files are the record's, the control files among them.
LEMMA SnapshotIsOfRecord ==
  ASSUME NEW r \in Runs, NEW m, NEW c, OfRun(m, r), Export!SnapshotHolds(m, c)
  PROVE  /\ Export!Control \subseteq DOMAIN c
         /\ \A p \in DOMAIN c : p \in DOMAIN Export!Records[r] /\ c[p] = Export!Records[r][p]
         /\ \A p \in DOMAIN c : p \in Export!Control \/ p[1] \in {"events", "entries", "blobs"}
<1> DEFINE record == Export!Records[r]
           f == Export!WithSums(Export!Payload(r))
<1>1. Export!BindingsHold(m, c) BY DEF Export!SnapshotHolds
<1>2. Export!Control \subseteq DOMAIN c /\ c[Export!Manifest] = record[Export!Manifest] /\ Export!MembersHold(m, c)
  BY <1>1 DEF Export!BindingsHold, OfRun
<1>3. c[Export!Manifest].files = f BY <1>2, RecordShape
<1>4. \A p \in DOMAIN f : p \in DOMAIN record /\ record[p] = f[p] BY RecordShape
<1>5. Export!Manifest \in DOMAIN record BY RecordShape
<1> HIDE DEF record, f
<1>6. /\ \A p \in DOMAIN c \ {Export!Manifest} : p \in DOMAIN f /\ f[p] = c[p]
      /\ \A p \in DOMAIN c \ {Export!Manifest} : p \in Export!Control \/ p[1] \in {"events", "entries", "blobs"}
  BY <1>2, <1>3 DEF Export!MembersHold
<1>7. Export!Manifest \in Export!Control BY DEF Export!Control
<1> QED BY <1>2, <1>4, <1>5, <1>6, <1>7 DEF record

\* Numbered files of a snapshot begin with the first and are no more than the record has.
LEMMA NumberedIsPrefix ==
  ASSUME NEW record, NEW c, NEW sort, NEW k \in Nat, IsFiniteSet(DOMAIN record),
         DOMAIN c \subseteq DOMAIN record, Export!OfKind(record, sort) = {sort} \X (1 .. k),
         Export!Contiguous(c, sort)
  PROVE  /\ Cardinality(Export!OfKind(c, sort)) \in 0 .. k
         /\ Export!OfKind(c, sort) = {sort} \X (1 .. Cardinality(Export!OfKind(c, sort)))
<1> DEFINE n == Cardinality(Export!OfKind(c, sort))
<1>1. Export!OfKind(c, sort) \subseteq Export!OfKind(record, sort) /\ Export!OfKind(record, sort) \subseteq DOMAIN record
  BY DEF Export!OfKind
<1>2. IsFiniteSet(Export!OfKind(c, sort)) BY <1>1, FS_Subset
<1>3. n \in Nat BY <1>2, FS_CardinalityType
<1>4. Export!OfKind(c, sort) = {sort} \X (1 .. n) BY ExportCardinality DEF Export!Contiguous
<1> HIDE DEF n
<1>5. n > 0 => <<sort, n>> \in {sort} \X (1 .. k) BY <1>1, <1>3, <1>4
<1>6. n <= k BY <1>3, <1>5
<1> QED BY <1>3, <1>4, <1>6 DEF n

\* A snapshot that holds is of the record but for entries at its end: whole events, a prefix of the
\* entries, and just their blobs.
LEMMA SnapshotIsSurface ==
  ASSUME NEW r \in Runs, NEW m, NEW c, IsMap(c), OfRun(m, r), Export!SnapshotHolds(m, c)
  PROVE  \E n \in 0 .. Len(r.entries) : c = Export!Surface(r, n)
<1> DEFINE record == Export!Records[r]
           events == Export!OfKind(c, "events")
           last == Cardinality(events)
           own == Export!OfKind(c, "entries")
           n == Cardinality(own)
           of == {r.entries[i].blob : i \in 1 .. n}
<1>1. /\ r.events \in Nat \ {0} /\ r.outcome # "none"
      /\ DOMAIN r.entries = 1 .. Len(r.entries) /\ Len(r.entries) \in Nat
  BY RunsTyped
<1>2. /\ Export!Control \subseteq DOMAIN c
      /\ \A p \in DOMAIN c : p \in DOMAIN record /\ c[p] = record[p]
      /\ \A p \in DOMAIN c : p \in Export!Control \/ p[1] \in {"events", "entries", "blobs"}
  BY SnapshotIsOfRecord
<1>3. /\ IsFiniteSet(DOMAIN record)
      /\ Export!OfKind(record, "events") = {"events"} \X (1 .. r.events)
      /\ Export!OfKind(record, "entries") = {"entries"} \X DOMAIN r.entries
      /\ \A p \in DOMAIN record : p = <<p[1], p[2]>>
  BY RecordPaths
<1>4. Export!RunHolds(m, c) /\ Export!ChainHolds(c) /\ Export!EntriesHold(c) /\ Export!MembersHold(m, c)
  BY DEF Export!SnapshotHolds, Export!BindingsHold
<1>5. /\ \A i \in 1 .. r.events : record[<<"events", i>>].outcome = IF i = r.events THEN r.outcome ELSE "none"
      /\ \A i \in DOMAIN r.entries : record[<<"entries", i>>].blob = r.entries[i].blob
 <2> DEFINE f == Export!WithSums(Export!Payload(r))
 <2>1. /\ \A i \in 1 .. r.events : f[<<"events", i>>].outcome = IF i = r.events THEN r.outcome ELSE "none"
       /\ \A i \in DOMAIN r.entries : f[<<"entries", i>>].blob = r.entries[i].blob
       /\ DOMAIN f = Export!PayloadPaths(r) \cup {Export!Checksums}
   BY PayloadShape
 <2>2. \A p \in DOMAIN f : record[p] = f[p] BY RecordShape
 <2> HIDE DEF f, record
 <2>3. /\ \A i \in 1 .. r.events : <<"events", i>> \in DOMAIN f
       /\ \A i \in DOMAIN r.entries : <<"entries", i>> \in DOMAIN f
   BY <2>1 DEF Export!PayloadPaths
 <2> QED BY <2>1, <2>2, <2>3
<1> HIDE DEF record
<1>6. last = r.events /\ events = {"events"} \X (1 .. r.events)
 <2>1. last \in 0 .. r.events /\ events = {"events"} \X (1 .. last)
  <3>1. Export!Contiguous(c, "events") BY <1>4 DEF Export!ChainHolds
  <3>2. r.events \in Nat /\ DOMAIN c \subseteq DOMAIN record BY <1>1, <1>2
  <3>3. IsFiniteSet(DOMAIN record) /\ Export!OfKind(record, "events") = {"events"} \X (1 .. r.events) BY <1>3
  <3>4. /\ Cardinality(Export!OfKind(c, "events")) \in 0 .. r.events
        /\ Export!OfKind(c, "events") = {"events"} \X (1 .. Cardinality(Export!OfKind(c, "events")))
    BY ONLY <3>1, <3>2, <3>3, NumberedIsPrefix
  <3> QED BY ONLY <3>4
 <2>2. /\ last > 0
       /\ \A p \in events : c[p].outcome = IF p[2] = last THEN c[Export!File("status.json")].outcome ELSE "none"
   BY <1>4, ExportCardinality DEF Export!ChainHolds
 <2>3. c[Export!File("status.json")].outcome = r.outcome BY <1>4 DEF Export!RunHolds, OfRun
 <2>4. <<"events", last>> \in events /\ events \subseteq DOMAIN c BY <2>1, <2>2 DEF Export!OfKind
 <2> HIDE DEF events, last
 <2>5. c[<<"events", last>>].outcome = r.outcome BY <2>2, <2>3, <2>4
 <2>6. record[<<"events", last>>].outcome = r.outcome BY <1>2, <2>4, <2>5
 <2>7. last = r.events BY <1>1, <1>5, <2>1, <2>2, <2>6
 <2> QED BY <2>1, <2>7
<1>7. n \in 0 .. Len(r.entries) /\ own = {"entries"} \X (1 .. n)
 <2>1. Export!Contiguous(c, "entries") BY <1>4 DEF Export!EntriesHold
 <2>2. Export!OfKind(record, "entries") = {"entries"} \X (1 .. Len(r.entries)) BY <1>1, <1>3
 <2>3. Len(r.entries) \in Nat /\ DOMAIN c \subseteq DOMAIN record BY <1>1, <1>2
 <2>4. IsFiniteSet(DOMAIN record) BY <1>3
 <2>5. PICK k : /\ k.n = Len(r.entries) /\ k.n \in Nat
                /\ Export!OfKind(record, "entries") = {"entries"} \X (1 .. k.n)
  <3>1. [n |-> Len(r.entries)].n = Len(r.entries) OBVIOUS
  <3> QED BY <2>2, <2>3, <3>1
 <2>6. /\ Cardinality(Export!OfKind(c, "entries")) \in 0 .. k.n
       /\ Export!OfKind(c, "entries") = {"entries"} \X (1 .. Cardinality(Export!OfKind(c, "entries")))
  <3>1. k.n \in Nat /\ DOMAIN c \subseteq DOMAIN record BY ONLY <2>3, <2>5
  <3>2. IsFiniteSet(DOMAIN record) /\ Export!OfKind(record, "entries") = {"entries"} \X (1 .. k.n) BY ONLY <2>4, <2>5
  <3> QED BY ONLY <2>1, <3>1, <3>2, NumberedIsPrefix
 <2> QED BY ONLY <2>5, <2>6
<1>8. Export!OfKind(c, "blobs") = {"blobs"} \X of
 <2>1. {p[2] : p \in Export!OfKind(c, "blobs")} = {e.blob : e \in {c[p] : p \in own}}
   BY <1>4 DEF Export!MembersHold, Export!Referenced, Export!EntriesOf
 <2>2. own \subseteq DOMAIN c BY DEF Export!OfKind
 <2> HIDE DEF own, n
 <2>3. \A i \in 1 .. n : <<"entries", i>> \in own /\ i \in DOMAIN r.entries BY <1>1, <1>7
 <2>4. \A i \in 1 .. n : c[<<"entries", i>>].blob = r.entries[i].blob BY <1>2, <1>5, <2>2, <2>3
 <2>5. \A p \in own : p[2] \in 1 .. n /\ c[p].blob = r.entries[p[2]].blob BY <1>7, <2>4
 <2>6. {e.blob : e \in {c[p] : p \in own}} = {c[p].blob : p \in own} OBVIOUS
 <2>7. {c[p].blob : p \in own} = of
  <3>1. \A p \in own : c[p].blob \in of BY <2>5
  <3>2. \A i \in 1 .. n : <<"entries", i>> \in own /\ c[<<"entries", i>>].blob = r.entries[i].blob BY <2>3, <2>4
  <3>3. \A i \in 1 .. n : r.entries[i].blob \in {c[p].blob : p \in own} BY <3>2
  <3> QED BY <3>1, <3>3
 <2>8. \A p \in Export!OfKind(c, "blobs") : p = <<"blobs", p[2]>> BY <1>2, <1>3 DEF Export!OfKind
 <2> HIDE DEF of
 <2> QED BY <2>1, <2>6, <2>7, <2>8
<1>9. DOMAIN c = Export!Control \cup events \cup own \cup Export!OfKind(c, "blobs") BY <1>2 DEF Export!OfKind
<1>10. own = {<<"entries", i>> : i \in 1 .. n} BY <1>7
<1>11. /\ DOMAIN Export!Surface(r, n) = DOMAIN c
       /\ Export!Surface(r, n) = [p \in DOMAIN c |-> record[p]]
 <2>1. Export!Surface(r, n) =
         [p \in Export!Control \cup Export!OfKind(record, "events") \cup {<<"entries", i>> : i \in 1 .. n}
                \cup ({"blobs"} \X of) |-> record[p]]
   BY DEF Export!Surface, record
 <2> HIDE DEF events, own, n, of
 <2> QED BY <2>1, <1>3, <1>6, <1>8, <1>9, <1>10
<1>12. c = [p \in DOMAIN c |-> record[p]]
 <2>1. [p \in DOMAIN c |-> c[p]] = [p \in DOMAIN c |-> record[p]] BY <1>2
 <2> QED BY <2>1 DEF IsMap
<1> HIDE DEF n
<1> QED BY <1>7, <1>11, <1>12
----------------------------------------
(* What holds of an export and of its destination in every state *)

\* The manifest of a bundle, of what was inspected and collected
Manifested(i, g) ==
  [of |-> "bundle", record |-> i.record, id |-> i.id, outcome |-> i.outcome,
   members |-> [p \in DOMAIN g |-> [digest |-> g[p], media |-> Export!MediaFor(g, p)]]]

\* None of the files is a blob that discloses a secret.
Discreet(c) == \A p \in DOMAIN c : ~(c[p].of = "blob" /\ c[p].n \in Secrets)

\* A stage or a destination is a record, and nothing unless it is there.
Placed(s) ==
  /\ s = [there |-> s.there, files |-> s.files, synced |-> s.synced, by |-> s.by]
  /\ s.there \in BOOLEAN /\ IsMap(s.files)
  /\ ~s.there => s = Export!Nothing

\* An export e at a, that was told i, collected g and has the stage s: what it holds is of the
\* run, validated before anything is staged, and what is staged is what it holds.
ExportOk(e, a, i, g, s, r) ==
  /\ a \notin {"start", "done", "raised", "dead"} => OfRun(i, r)
  /\ IsMap(g) /\ Discreet(g)
  /\ a \in {"stage", "write", "sync", "rename"} =>
       Export!SnapshotHolds(Manifested(i, g), g) /\ Cardinality(DOMAIN g) + 1 <= MaxBundleFiles
  /\ Placed(s) /\ s.synced \subseteq DOMAIN s.files
  /\ s.there => s.by = e /\ a \in {"write", "sync", "rename", "cleanup", "raised", "dead"}
  /\ a \in {"write", "sync", "rename"} => s.there
  /\ a \notin {"raised", "dead"} => \A p \in DOMAIN s.files :
       \/ p \in DOMAIN g /\ s.files[p] = g[p]
       \/ p = Export!BundleJson /\ DOMAIN g \subseteq DOMAIN s.files /\ s.files[p] = Manifested(i, g)
  /\ a = "rename" => Export!BundleJson \in DOMAIN s.files /\ s.synced = DOMAIN s.files

EachExport ==
  /\ at \in [Exporters -> Export!Steps]
  /\ DOMAIN inspected = Exporters /\ DOMAIN got = Exporters /\ DOMAIN stage = Exporters
  /\ \A e \in Exporters : ExportOk(e, at[e], inspected[e], got[e], stage[e], run)

\* A bundle b as it was published
Sound(b, r) ==
  /\ Export!BundleJson \in DOMAIN b /\ OfRun(b[Export!BundleJson], r)
  /\ Export!SnapshotHolds(b[Export!BundleJson], Export!Members(b))
  /\ Cardinality(DOMAIN b) <= MaxBundleFiles /\ Discreet(b)

\* The manifest of a destination d is of some run, and d is sound unless it was changed.
DestOk(d, r, changed) ==
  /\ Placed(d) /\ DOMAIN d.files \subseteq d.synced
  /\ Export!BundleJson \in DOMAIN d.files => \E q \in Runs : OfRun(d.files[Export!BundleJson], q)
  /\ d.there /\ ~changed => Sound(d.files, r)

\* What is at the destination was renamed by an export that got there, and did not fail without a cause.
Landed ==
  dest.there =>
    /\ dest.by \in Exporters /\ at[dest.by] \in {"published", "cleanup", "done", "raised", "dead"}
    /\ at[dest.by] \in {"cleanup", "raised"} => trouble > 0

ExportInv ==
  /\ run \in Runs /\ tampered \in BOOLEAN /\ changes \in 0 .. MaxChanges /\ trouble \in 0 .. MaxExportTrouble
  /\ EachExport /\ DestOk(dest, run, tampered) /\ Landed
\* Nothing is a place where nothing is.
LEMMA NothingIsPlaced == Placed(Export!Nothing) /\ Export!Nothing.files = << >> /\ Export!Nothing.synced = {}
                         /\ ~Export!Nothing.there /\ DOMAIN Export!Nothing.files = {}
BY DEF Placed, Export!Nothing, IsMap

\* Before an export starts nothing is held, staged or published.
LEMMA ExportStarts == ASSUME Export!Init PROVE ExportInv
<1>1. run \in Runs /\ at = [e \in Exporters |-> "start"] /\ inspected = [e \in Exporters |-> Export!NoRun]
      /\ got = [e \in Exporters |-> << >>] /\ stage = [e \in Exporters |-> Export!Nothing]
      /\ dest = Export!Nothing /\ tampered = FALSE /\ changes = 0 /\ trouble = 0
  BY DEF Export!Init
<1>2. MaxChanges \in Nat /\ MaxExportTrouble \in Nat BY OperationsAssumption DEF Export!RunAssumption
<1>3. EachExport
 <2>1. at \in [Exporters -> Export!Steps] BY <1>1 DEF Export!Steps
 <2>2. ASSUME NEW e \in Exporters PROVE ExportOk(e, at[e], inspected[e], got[e], stage[e], run)
  <3>1. at[e] = "start" /\ got[e] = << >> /\ stage[e] = Export!Nothing BY <1>1
  <3>2. IsMap(<< >>) /\ Discreet(<< >>) BY DEF IsMap, Discreet
  <3> QED BY <3>1, <3>2, NothingIsPlaced DEF ExportOk
 <2> QED BY <1>1, <2>1, <2>2 DEF EachExport
<1>4. DestOk(dest, run, tampered) /\ Landed BY <1>1, NothingIsPlaced DEF DestOk, Landed
<1>5. tampered \in BOOLEAN BY <1>1, Zenon
<1>6. changes \in 0 .. MaxChanges /\ trouble \in 0 .. MaxExportTrouble
 <2>1. changes = 0 /\ trouble = 0 BY <1>1
 <2> QED BY <1>2, <2>1
<1> QED BY <1>1, <1>3, <1>4, <1>5, <1>6, Zenon DEF ExportInv

\* A step of one export leaves the others as they are.
LEMMA OneExportSteps ==
  ASSUME EachExport, NEW e \in Exporters, run' = run,
         at' \in [Exporters -> Export!Steps],
         DOMAIN inspected' = Exporters, DOMAIN got' = Exporters, DOMAIN stage' = Exporters,
         \A f \in Exporters \ {e} : at'[f] = at[f] /\ inspected'[f] = inspected[f] /\ got'[f] = got[f] /\ stage'[f] = stage[f],
         ExportOk(e, at'[e], inspected'[e], got'[e], stage'[e], run)
  PROVE  EachExport'
<1>1. ASSUME NEW f \in Exporters PROVE ExportOk(f, at'[f], inspected'[f], got'[f], stage'[f], run')
 <2>1. CASE f = e BY <2>1
 <2>2. CASE f # e
  <3>1. ExportOk(f, at[f], inspected[f], got[f], stage[f], run) BY DEF EachExport
  <3>2. at'[f] = at[f] /\ inspected'[f] = inspected[f] /\ got'[f] = got[f] /\ stage'[f] = stage[f] BY <2>2
  <3> QED BY <3>1, <3>2
 <2> QED BY <2>1, <2>2
<1> QED BY <1>1 DEF EachExport

\* A destination that is left alone is as good as it was, if only the export that made it is not
\* set back.
LEMMA DestStays ==
  ASSUME ExportInv, dest' = dest, tampered' = tampered, run' = run, trouble' \in Nat, trouble' >= trouble,
         NEW e \in Exporters, \A f \in Exporters \ {e} : at'[f] = at[f],
         dest.there /\ dest.by = e =>
           at'[e] \in {"published", "cleanup", "done", "raised", "dead"} /\ (at'[e] \in {"cleanup", "raised"} => trouble' > 0)
  PROVE  DestOk(dest, run, tampered)' /\ Landed'
<1>1. DestOk(dest, run, tampered)' BY DEF ExportInv
<1>2. trouble \in Nat /\ Landed BY DEF ExportInv
<1>3. Landed' BY <1>2 DEF Landed
<1> QED BY <1>1, <1>3
\* What an export relies on
LEMMA ExportFacts ==
  ASSUME ExportInv, NEW e \in Exporters
  PROVE  /\ ExportOk(e, at[e], inspected[e], got[e], stage[e], run) /\ EachExport /\ Landed
         /\ run \in Runs /\ tampered \in BOOLEAN /\ changes \in 0 .. MaxChanges /\ trouble \in 0 .. MaxExportTrouble
         /\ at \in [Exporters -> Export!Steps] /\ at[e] \in Export!Steps
         /\ DOMAIN inspected = Exporters /\ DOMAIN got = Exporters /\ DOMAIN stage = Exporters
         /\ MaxChanges \in Nat /\ MaxExportTrouble \in Nat /\ MaxBundleFiles \in Nat
<1>1. MaxChanges \in Nat /\ MaxExportTrouble \in Nat /\ MaxBundleFiles \in Nat
  BY OperationsAssumption DEF Export!RunAssumption
<1> QED BY <1>1 DEF ExportInv, EachExport

\* What is left alone by a step that counts no change and no trouble
LEMMA CountersStay ==
  ASSUME ExportInv, run' = run, tampered' \in BOOLEAN, changes' = changes, trouble' = trouble,
         EachExport', DestOk(dest, run, tampered)' /\ Landed'
  PROVE  ExportInv'
<1>1. run' \in Runs /\ tampered' \in BOOLEAN /\ changes' \in 0 .. MaxChanges /\ trouble' \in 0 .. MaxExportTrouble
  BY DEF ExportInv
<1> QED BY <1>1, Zenon DEF ExportInv

\* An export that is over has forgotten what it held; its stage is gone, unless it raised or was killed.
LEMMA ExportEnds ==
  ASSUME ExportInv, NEW e \in Exporters, NEW how \in {"done", "raised", "dead"}, Export!Busy(e), Export!End(e, how),
         run' = run, dest' = dest, tampered' = tampered, changes' = changes,
         trouble' \in 0 .. MaxExportTrouble, trouble' >= trouble,
         DOMAIN stage' = Exporters, \A f \in Exporters \ {e} : stage'[f] = stage[f],
         Placed(stage'[e]), stage'[e].synced \subseteq DOMAIN stage'[e].files,
         stage'[e].there => stage'[e].by = e /\ how \in {"raised", "dead"},
         how = "raised" => at[e] # "published"
  PROVE  ExportInv'
<1>1. /\ at' = [at EXCEPT ![e] = how] /\ got' = [got EXCEPT ![e] = << >>]
      /\ inspected' = [inspected EXCEPT ![e] = Export!NoRun]
  BY DEF Export!End, Export!Goto, Export!Forget
<1>2. ExportOk(e, how, Export!NoRun, << >>, stage'[e], run)
 <2>1. IsMap(<< >>) /\ Discreet(<< >>) BY DEF IsMap, Discreet
 <2>2. CASE how = "done"
  <3>1. stage'[e] = Export!Nothing BY <2>2 DEF Placed
  <3> QED BY <2>1, <2>2, <3>1, NothingIsPlaced DEF ExportOk
 <2>3. CASE how # "done" BY <2>1, <2>3 DEF ExportOk
 <2> QED BY <2>2, <2>3
<1>3. EachExport'
 <2>1. /\ at' \in [Exporters -> Export!Steps] /\ at'[e] = how
       /\ DOMAIN inspected' = Exporters /\ inspected'[e] = Export!NoRun
       /\ DOMAIN got' = Exporters /\ got'[e] = << >>
   BY <1>1, ExportFacts DEF Export!Steps
 <2>2. \A f \in Exporters \ {e} : at'[f] = at[f] /\ inspected'[f] = inspected[f] /\ got'[f] = got[f]
   BY <1>1, ExportFacts
 <2> QED BY <1>2, <2>1, <2>2, OneExportSteps, ExportFacts
<1>4. DestOk(dest, run, tampered)' /\ Landed'
 <2>1. at'[e] = how /\ \A f \in Exporters \ {e} : at'[f] = at[f] BY <1>1, ExportFacts
 <2>2. dest.there /\ dest.by = e =>
         at'[e] \in {"published", "cleanup", "done", "raised", "dead"} /\ (at'[e] \in {"cleanup", "raised"} => trouble' > 0)
  <3>1. dest.there /\ dest.by = e => at[e] \in {"published", "cleanup"} /\ (at[e] = "cleanup" => trouble > 0)
    BY ExportFacts DEF Landed, Export!Busy
  <3> QED BY <2>1, <3>1, ExportFacts
 <2>3. trouble' \in Nat OBVIOUS
 <2> QED BY <2>1, <2>2, <2>3, DestStays
<1> QED BY <1>3, <1>4, ExportFacts, Zenon DEF ExportInv

\* An export that goes on within the same bundle: only its place, and what it holds, change.
LEMMA ExportGoesOn ==
  ASSUME ExportInv, NEW e \in Exporters, NEW next \in Export!Steps, at' = [at EXCEPT ![e] = next],
         run' = run, dest' = dest, tampered' = tampered, changes' = changes, trouble' = trouble,
         DOMAIN inspected' = Exporters, DOMAIN got' = Exporters, DOMAIN stage' = Exporters,
         \A f \in Exporters \ {e} : inspected'[f] = inspected[f] /\ got'[f] = got[f] /\ stage'[f] = stage[f],
         ExportOk(e, next, inspected'[e], got'[e], stage'[e], run),
         at[e] \notin {"published", "cleanup", "done", "raised", "dead"}
  PROVE  ExportInv'
<1>1. at' \in [Exporters -> Export!Steps] /\ at'[e] = next /\ \A f \in Exporters \ {e} : at'[f] = at[f] BY ExportFacts
<1>2. EachExport' BY <1>1, OneExportSteps, ExportFacts
<1>3. DestOk(dest, run, tampered)' /\ Landed'
 <2>1. ~(dest.there /\ dest.by = e) BY ExportFacts DEF Landed
 <2>2. trouble' \in Nat /\ trouble' >= trouble BY ExportFacts
 <2> QED BY <1>1, <2>1, <2>2, DestStays
<1> QED BY <1>2, <1>3, CountersStay, ExportFacts

\* Before anything is staged there is no stage.
LEMMA NoStageYet ==
  ASSUME ExportInv, NEW e \in Exporters, at[e] \notin {"write", "sync", "rename", "cleanup", "raised", "dead"}
  PROVE  stage[e] = Export!Nothing
BY ExportFacts DEF ExportOk, Placed

\* An export is told of the record as it was published, or raises.
LEMMA InspectKeeps == ASSUME ExportInv, NEW e \in Exporters, Export!Inspect(e) PROVE ExportInv'
<1>1. /\ at[e] = "start" /\ run' = run /\ dest' = dest /\ tampered' = tampered /\ changes' = changes /\ trouble' = trouble
      /\ got' = got /\ stage' = stage
  BY DEF Export!Inspect, Export!At
<1>2. ExportOk(e, "start", inspected[e], got[e], stage[e], run) /\ stage[e] = Export!Nothing
  BY <1>1, ExportFacts, NoStageYet
<1>3. CASE disk = Export!Records[run]
 <2>1. /\ at' = [at EXCEPT ![e] = "control"]
       /\ inspected' = [inspected EXCEPT ![e] = [record |-> disk[Export!Manifest], id |-> run.id, outcome |-> run.outcome]]
   BY <1>3 DEF Export!Inspect, Export!Goto
 <2>2. OfRun(inspected'[e], run) BY <1>3, <2>1, ExportFacts DEF OfRun
 <2>3. ExportOk(e, "control", inspected'[e], got'[e], stage'[e], run) BY <1>1, <1>2, <2>2, NothingIsPlaced DEF ExportOk
 <2>4. "control" \in Export!Steps BY DEF Export!Steps
 <2>5. DOMAIN inspected' = Exporters /\ \A f \in Exporters \ {e} : inspected'[f] = inspected[f] BY <2>1, ExportFacts
 <2> QED BY <1>1, <2>1, <2>3, <2>4, <2>5, ExportGoesOn, ExportFacts
<1>4. CASE disk # Export!Records[run]
 <2>1. at' = [at EXCEPT ![e] = "raised"] /\ inspected' = inspected BY <1>4 DEF Export!Inspect, Export!Goto
 <2>2. ExportOk(e, "raised", inspected[e], got[e], stage[e], run) /\ "raised" \in Export!Steps
   BY <1>2, NothingIsPlaced DEF ExportOk, Export!Steps
 <2> QED BY <1>1, <2>1, <2>2, ExportGoesOn, ExportFacts
<1> QED BY <1>3, <1>4

\* Members are added, none of which discloses a secret, or the export raises.
LEMMA AddKeeps ==
  ASSUME ExportInv, NEW e \in Exporters, NEW paths, NEW next \in {"events", "entries", "blobs", "limits"},
         at[e] \in {"control", "events", "entries", "blobs"}, Export!Add(e, paths, next) \/ Export!Raise(e),
         UNCHANGED <<run, disk, stage, dest, tampered, changes, trouble>>
  PROVE  ExportInv'
<1>1. /\ run' = run /\ dest' = dest /\ tampered' = tampered /\ changes' = changes /\ trouble' = trouble
      /\ stage' = stage
  OBVIOUS
<1>2. ExportOk(e, at[e], inspected[e], got[e], stage[e], run) /\ stage[e] = Export!Nothing BY ExportFacts, NoStageYet
<1>3. ASSUME Export!Raise(e) PROVE ExportInv'
 <2>1. Export!End(e, "raised") /\ Export!Busy(e) BY <1>3 DEF Export!Raise, Export!Busy
 <2>2. trouble' \in 0 .. MaxExportTrouble /\ trouble' >= trouble BY <1>1, ExportFacts
 <2> QED BY <1>1, <1>2, <2>1, <2>2, ExportEnds, ExportFacts, NothingIsPlaced
<1>4. CASE ~Export!Raise(e)
 <2>1. /\ \A p \in paths : ~(disk[p].of = "blob" /\ disk[p].n \in Secrets)
       /\ inspected' = inspected /\ got' = [got EXCEPT ![e] = Export!Atop([p \in paths |-> disk[p]], got[e])]
       /\ at' = [at EXCEPT ![e] = next]
   BY <1>4 DEF Export!Add, Export!Goto
 <2>2. got'[e] = Export!Atop([p \in paths |-> disk[p]], got[e])
       /\ DOMAIN got' = Exporters /\ \A f \in Exporters \ {e} : got'[f] = got[f]
   BY <2>1, ExportFacts
 <2>3. IsMap(got'[e]) BY <2>2 DEF IsMap, Export!Atop
 <2>4. Discreet(got'[e])
  <3>1. Discreet(got[e]) BY <1>2 DEF ExportOk
  <3>2. Discreet(Export!Atop([p \in paths |-> disk[p]], got[e])) BY <2>1, <3>1 DEF Discreet, Export!Atop
  <3> QED BY <2>2, <3>2
 <2>5. OfRun(inspected[e], run) BY <1>2 DEF ExportOk
 <2>6. ExportOk(e, next, inspected'[e], got'[e], stage'[e], run)
   BY <1>1, <1>2, <2>1, <2>3, <2>4, <2>5, NothingIsPlaced DEF ExportOk
 <2>7. next \in Export!Steps BY DEF Export!Steps
 <2>8. /\ DOMAIN inspected' = Exporters /\ DOMAIN got' = Exporters /\ DOMAIN stage' = Exporters
       /\ \A f \in Exporters \ {e} : inspected'[f] = inspected[f] /\ got'[f] = got[f] /\ stage'[f] = stage[f]
   BY <1>1, <2>1, <2>2, ExportFacts
 <2>9. at' = [at EXCEPT ![e] = next] /\ at[e] \notin {"published", "cleanup", "done", "raised", "dead"} BY <2>1
 <2> QED BY <1>1, <2>6, <2>7, <2>8, <2>9, ExportGoesOn
<1> QED BY <1>3, <1>4

\* The four steps that collect
LEMMA CollectKeeps ==
  ASSUME ExportInv, NEW e \in Exporters,
         Export!CollectControl(e) \/ Export!CollectEvents(e) \/ Export!CollectEntries(e) \/ Export!CollectBlobs(e)
  PROVE  ExportInv'
<1>1. CASE Export!CollectControl(e)
 <2>1. /\ at[e] \in {"control", "events", "entries", "blobs"} /\ (Export!Add(e, Export!Control, "events") \/ Export!Raise(e))
       /\ UNCHANGED <<run, disk, stage, dest, tampered, changes, trouble>>
   BY <1>1 DEF Export!CollectControl, Export!At
 <2> QED BY <2>1, AddKeeps, Zenon
<1>2. CASE Export!CollectEvents(e)
 <2>1. /\ at[e] \in {"control", "events", "entries", "blobs"} /\ (Export!Add(e, Export!OfKind(disk, "events"), "entries") \/ Export!Raise(e))
       /\ UNCHANGED <<run, disk, stage, dest, tampered, changes, trouble>>
   BY <1>2 DEF Export!CollectEvents, Export!At
 <2> QED BY <2>1, AddKeeps, Zenon
<1>3. CASE Export!CollectEntries(e)
 <2>1. /\ at[e] \in {"control", "events", "entries", "blobs"} /\ (Export!Add(e, Export!OfKind(disk, "entries"), "blobs") \/ Export!Raise(e))
       /\ UNCHANGED <<run, disk, stage, dest, tampered, changes, trouble>>
   BY <1>3 DEF Export!CollectEntries, Export!At
 <2> QED BY <2>1, AddKeeps, Zenon
<1>4. CASE Export!CollectBlobs(e)
 <2>1. /\ at[e] \in {"control", "events", "entries", "blobs"} /\ (Export!Add(e, {"blobs"} \X Export!Referenced(got[e]), "limits") \/ Export!Raise(e))
       /\ UNCHANGED <<run, disk, stage, dest, tampered, changes, trouble>>
   BY <1>4 DEF Export!CollectBlobs, Export!At
 <2> QED BY <2>1, AddKeeps, Zenon
<1> QED BY <1>1, <1>2, <1>3, <1>4
\* A stage or a destination that is there
LEMMA PlacedThere ==
  ASSUME NEW files, NEW synced, NEW owner, IsMap(files)
  PROVE  LET s == [there |-> TRUE, files |-> files, synced |-> synced, by |-> owner] IN
         Placed(s) /\ s.there /\ s.files = files /\ s.synced = synced /\ s.by = owner
BY DEF Placed

\* An export that raises before its stage is made
LEMMA RaiseKeeps ==
  ASSUME ExportInv, NEW e \in Exporters, Export!Raise(e), Export!Busy(e),
         at[e] \notin {"write", "sync", "rename", "published", "cleanup"},
         run' = run, dest' = dest, tampered' = tampered, changes' = changes, stage' = stage,
         trouble' \in 0 .. MaxExportTrouble, trouble' >= trouble
  PROVE  ExportInv'
<1>1. Export!End(e, "raised") /\ stage[e] = Export!Nothing BY NoStageYet DEF Export!Raise, Export!Busy
<1> QED BY <1>1, ExportEnds, ExportFacts, NothingIsPlaced

\* The manifest of an export is of what it holds.
LEMMA ManifestedIs == ASSUME NEW e PROVE Export!ManifestOf(e) = Manifested(inspected[e], got[e])
BY DEF Export!ManifestOf, Manifested

\* An export goes on to its stage only with a snapshot that holds and with room for its manifest.
LEMMA ValidateKeeps == ASSUME ExportInv, NEW e \in Exporters, Export!Validate(e) PROVE ExportInv'
<1>1. /\ at[e] = "limits"
      /\ run' = run /\ dest' = dest /\ tampered' = tampered /\ changes' = changes /\ trouble' = trouble /\ stage' = stage
  BY DEF Export!Validate, Export!At
<1>2. CASE Export!Raise(e)
 <2>1. Export!Busy(e) /\ trouble' \in 0 .. MaxExportTrouble /\ trouble' >= trouble BY <1>1, ExportFacts DEF Export!Busy
 <2> QED BY <1>1, <1>2, <2>1, RaiseKeeps
<1>3. CASE ~Export!Raise(e)
 <2>1. /\ Cardinality(DOMAIN got[e]) + 1 <= MaxBundleFiles
       /\ Export!SnapshotHolds(Manifested(inspected[e], got[e]), got[e])
       /\ at' = [at EXCEPT ![e] = "stage"] /\ inspected' = inspected /\ got' = got
   BY <1>3, ManifestedIs, ExportCardinality DEF Export!Validate, Export!Goto
 <2>2. ExportOk(e, "limits", inspected[e], got[e], stage[e], run) /\ stage[e] = Export!Nothing
   BY <1>1, ExportFacts, NoStageYet
 <2>3. ExportOk(e, "stage", inspected'[e], got'[e], stage'[e], run) BY <1>1, <2>1, <2>2, NothingIsPlaced DEF ExportOk
 <2>4. "stage" \in Export!Steps BY DEF Export!Steps
 <2> QED BY <1>1, <2>1, <2>3, <2>4, ExportGoesOn, ExportFacts
<1> QED BY <1>2, <1>3

\* A new stage is empty.
LEMMA StagedIsEmpty ==
  ASSUME NEW e
  PROVE  LET s == Export!Staged(e) IN
         Placed(s) /\ s.there /\ s.by = e /\ s.synced = {} /\ DOMAIN s.files = {}
BY DEF Export!Staged, Placed, IsMap

\* An export makes its stage, or raises where a destination is.
LEMMA StageKeeps == ASSUME ExportInv, NEW e \in Exporters, Export!Stage(e) PROVE ExportInv'
<1>1. /\ at[e] = "stage"
      /\ run' = run /\ dest' = dest /\ tampered' = tampered /\ changes' = changes /\ trouble' = trouble
  BY DEF Export!Stage, Export!At
<1>2. CASE dest.there
 <2>1. Export!Raise(e) /\ stage' = stage BY <1>2 DEF Export!Stage
 <2>2. Export!Busy(e) /\ trouble' \in 0 .. MaxExportTrouble /\ trouble' >= trouble BY <1>1, ExportFacts DEF Export!Busy
 <2> QED BY <1>1, <2>1, <2>2, RaiseKeeps
<1>3. CASE ~dest.there
 <2>1. /\ stage' = [stage EXCEPT ![e] = Export!Staged(e)]
       /\ at' = [at EXCEPT ![e] = "write"] /\ inspected' = inspected /\ got' = got
   BY <1>3 DEF Export!Stage, Export!Goto
 <2>2. /\ stage'[e] = Export!Staged(e)
       /\ DOMAIN stage' = Exporters /\ \A f \in Exporters \ {e} : stage'[f] = stage[f]
   BY <2>1, ExportFacts
 <2>3. Placed(stage'[e]) /\ stage'[e].there /\ stage'[e].by = e /\ stage'[e].synced = {} /\ DOMAIN stage'[e].files = {}
   BY <2>2, StagedIsEmpty
 <2>4. ExportOk(e, "stage", inspected[e], got[e], stage[e], run) BY <1>1, ExportFacts
 <2>5. ExportOk(e, "write", inspected'[e], got'[e], stage'[e], run) BY <2>1, <2>3, <2>4 DEF ExportOk
 <2>6. "write" \in Export!Steps BY DEF Export!Steps
 <2> QED BY <1>1, <2>1, <2>2, <2>5, <2>6, ExportGoesOn, ExportFacts
<1> QED BY <1>2, <1>3

\* What is collected is of the record, so the manifest of a bundle is none of it.
LEMMA CollectedIsOfRecord ==
  ASSUME ExportInv, NEW e \in Exporters, at[e] \in {"stage", "write", "sync", "rename"}
  PROVE  /\ Export!Control \subseteq DOMAIN got[e] /\ Export!BundleJson \notin DOMAIN got[e]
         /\ IsFiniteSet(DOMAIN got[e])
         /\ Export!SnapshotHolds(Manifested(inspected[e], got[e]), got[e])
<1>1. ExportOk(e, at[e], inspected[e], got[e], stage[e], run) /\ run \in Runs BY ExportFacts
<1>2. OfRun(inspected[e], run) /\ Export!SnapshotHolds(Manifested(inspected[e], got[e]), got[e]) BY <1>1 DEF ExportOk
<1>3. OfRun(Manifested(inspected[e], got[e]), run) BY <1>2 DEF OfRun, Manifested
<1>4. Export!Control \subseteq DOMAIN got[e] /\ \A p \in DOMAIN got[e] : p \in DOMAIN Export!Records[run]
  BY <1>1, <1>2, <1>3, SnapshotIsOfRecord
<1>5. IsFiniteSet(DOMAIN Export!Records[run]) /\ Export!BundleJson \notin DOMAIN Export!Records[run]
  BY <1>1, RecordPaths
<1>6. DOMAIN got[e] \subseteq DOMAIN Export!Records[run] BY <1>4
<1>7. IsFiniteSet(DOMAIN got[e]) BY <1>5, <1>6, FS_Subset
<1> QED BY <1>2, <1>4, <1>5, <1>7

\* A group that is written is of what was collected, and the manifest comes when all of it is there.
LEMMA WriteKeeps == ASSUME ExportInv, NEW e \in Exporters, Export!Write(e) PROVE ExportInv'
<1>1. /\ at[e] = "write" /\ stage' = [stage EXCEPT ![e].files = Export!Atop(Export!Group(e), @)]
      /\ at' = [at EXCEPT ![e] = "sync"] /\ inspected' = inspected /\ got' = got
      /\ run' = run /\ dest' = dest /\ tampered' = tampered /\ changes' = changes /\ trouble' = trouble
  BY DEF Export!Write, Export!At, Export!Goto
<1>2. ExportOk(e, "write", inspected[e], got[e], stage[e], run) BY <1>1, ExportFacts
<1> DEFINE files == Export!Atop(Export!Group(e), stage[e].files)
<1>3. /\ stage'[e] = [stage[e] EXCEPT !.files = files]
      /\ DOMAIN stage' = Exporters /\ \A f \in Exporters \ {e} : stage'[f] = stage[f]
  BY <1>1, ExportFacts
<1>4. \/ \E with \in SUBSET DOMAIN got[e] : Export!Group(e) = [p \in with |-> got[e][p]]
      \/ /\ DOMAIN got[e] \subseteq DOMAIN stage[e].files
         /\ Export!Group(e) = [p \in {Export!BundleJson} |-> Manifested(inspected[e], got[e])]
 <2>1. CASE Export!Left(e) # {}
  <3> DEFINE some == CHOOSE some \in Export!Left(e) : TRUE
             with == IF some \in Export!Control THEN Export!Control ELSE Export!OfKind(got[e], some[1])
  <3>1. Export!Group(e) = [p \in with |-> got[e][p]] BY <2>1 DEF Export!Group
  <3>2. with \subseteq DOMAIN got[e] BY <1>1, CollectedIsOfRecord DEF Export!OfKind
  <3> QED BY <3>1, <3>2
 <2>2. CASE Export!Left(e) = {} BY <2>2, ManifestedIs DEF Export!Group, Export!Left
 <2> QED BY <2>1, <2>2
<1>5. /\ IsMap(files) /\ DOMAIN stage[e].files \subseteq DOMAIN files
      /\ \A p \in DOMAIN files :
           \/ p \in DOMAIN got[e] /\ files[p] = got[e][p]
           \/ p = Export!BundleJson /\ DOMAIN got[e] \subseteq DOMAIN files /\ files[p] = Manifested(inspected[e], got[e])
 <2>1. \A p \in DOMAIN stage[e].files :
         \/ p \in DOMAIN got[e] /\ stage[e].files[p] = got[e][p]
         \/ /\ p = Export!BundleJson /\ DOMAIN got[e] \subseteq DOMAIN stage[e].files
            /\ stage[e].files[p] = Manifested(inspected[e], got[e])
   BY <1>2 DEF ExportOk
 <2>2. IsMap(files) /\ DOMAIN files = DOMAIN Export!Group(e) \cup DOMAIN stage[e].files BY DEF IsMap, Export!Atop
 <2>3. /\ \A p \in DOMAIN Export!Group(e) : files[p] = Export!Group(e)[p]
       /\ \A p \in DOMAIN stage[e].files \ DOMAIN Export!Group(e) : files[p] = stage[e].files[p]
   BY DEF Export!Atop
 <2> HIDE DEF files
 <2>4. ASSUME NEW with \in SUBSET DOMAIN got[e], Export!Group(e) = [p \in with |-> got[e][p]]
       PROVE  \A p \in DOMAIN files :
          \/ p \in DOMAIN got[e] /\ files[p] = got[e][p]
          \/ p = Export!BundleJson /\ DOMAIN got[e] \subseteq DOMAIN files /\ files[p] = Manifested(inspected[e], got[e])
   BY <2>1, <2>2, <2>3, <2>4
 <2>5. ASSUME DOMAIN got[e] \subseteq DOMAIN stage[e].files,
              Export!Group(e) = [p \in {Export!BundleJson} |-> Manifested(inspected[e], got[e])]
       PROVE  \A p \in DOMAIN files :
          \/ p \in DOMAIN got[e] /\ files[p] = got[e][p]
          \/ p = Export!BundleJson /\ DOMAIN got[e] \subseteq DOMAIN files /\ files[p] = Manifested(inspected[e], got[e])
   BY <2>1, <2>2, <2>3, <2>5
 <2> QED BY <1>4, <2>2, <2>4, <2>5
<1> HIDE DEF files
<1>6. /\ stage'[e] = [there |-> stage[e].there, files |-> files, synced |-> stage[e].synced, by |-> stage[e].by]
      /\ stage[e].there = TRUE /\ stage[e].by = e /\ stage[e].synced \subseteq DOMAIN files
  BY <1>2, <1>3, <1>5 DEF ExportOk, Placed
<1>7. /\ Placed(stage'[e]) /\ stage'[e].there /\ stage'[e].by = e /\ stage'[e].files = files
      /\ stage'[e].synced \subseteq DOMAIN files
 <2>1. stage'[e] = [there |-> TRUE, files |-> files, synced |-> stage[e].synced, by |-> e] BY <1>6
 <2> QED BY <1>5, <1>6, <2>1, PlacedThere
<1>8. ExportOk(e, "sync", inspected'[e], got'[e], stage'[e], run) BY <1>1, <1>2, <1>5, <1>7 DEF ExportOk
<1>9. "sync" \in Export!Steps BY DEF Export!Steps
<1> QED BY <1>1, <1>3, <1>8, <1>9, ExportGoesOn, ExportFacts

\* What is staged when the export renames is synced, and has its manifest.
LEMMA SyncKeeps == ASSUME ExportInv, NEW e \in Exporters, Export!Sync(e) PROVE ExportInv'
<1> DEFINE next == IF Export!BundleJson \in DOMAIN stage[e].files THEN "rename" ELSE "write"
<1>1. /\ at[e] = "sync" /\ stage' = [stage EXCEPT ![e].synced = DOMAIN stage[e].files]
      /\ at' = [at EXCEPT ![e] = next]
      /\ inspected' = inspected /\ got' = got
      /\ run' = run /\ dest' = dest /\ tampered' = tampered /\ changes' = changes /\ trouble' = trouble
  BY DEF Export!Sync, Export!At, Export!Goto
<1>2. ExportOk(e, "sync", inspected[e], got[e], stage[e], run) BY <1>1, ExportFacts
<1>3. /\ stage'[e] = [stage[e] EXCEPT !.synced = DOMAIN stage[e].files]
      /\ DOMAIN stage' = Exporters /\ \A f \in Exporters \ {e} : stage'[f] = stage[f]
  BY <1>1, ExportFacts
<1>4. /\ stage'[e] = [there |-> stage[e].there, files |-> stage[e].files, synced |-> DOMAIN stage[e].files, by |-> stage[e].by]
      /\ stage[e].there = TRUE /\ stage[e].by = e /\ IsMap(stage[e].files)
  BY <1>2, <1>3 DEF ExportOk, Placed
<1>5. /\ Placed(stage'[e]) /\ stage'[e].there /\ stage'[e].by = e /\ stage'[e].files = stage[e].files
      /\ stage'[e].synced = DOMAIN stage[e].files
 <2>1. stage'[e] = [there |-> TRUE, files |-> stage[e].files, synced |-> DOMAIN stage[e].files, by |-> e] BY <1>4
 <2> QED BY <1>4, <2>1, PlacedThere
<1>6. ExportOk(e, next, inspected'[e], got'[e], stage'[e], run) BY <1>1, <1>2, <1>5 DEF ExportOk
<1>7. next \in Export!Steps BY DEF Export!Steps
<1> HIDE DEF next
<1> QED BY <1>1, <1>3, <1>6, <1>7, ExportGoesOn, ExportFacts
\* What is staged when the export renames is the bundle of what it collected.
LEMMA StagedIsSound ==
  ASSUME ExportInv, NEW e \in Exporters, at[e] = "rename"
  PROVE  /\ Sound(stage[e].files, run) /\ OfRun(stage[e].files[Export!BundleJson], run)
         /\ Placed(stage[e]) /\ stage[e].there /\ stage[e].by = e /\ DOMAIN stage[e].files = stage[e].synced
<1> DEFINE files == stage[e].files
           m == Manifested(inspected[e], got[e])
<1>1. ExportOk(e, "rename", inspected[e], got[e], stage[e], run) BY ExportFacts
<1>2. /\ Export!BundleJson \in DOMAIN files /\ stage[e].synced = DOMAIN files /\ stage[e].there /\ Placed(stage[e]) /\ stage[e].by = e
      /\ OfRun(inspected[e], run) /\ IsMap(got[e]) /\ Discreet(got[e]) /\ Cardinality(DOMAIN got[e]) + 1 <= MaxBundleFiles
      /\ \A p \in DOMAIN files : \/ p \in DOMAIN got[e] /\ files[p] = got[e][p]
                                 \/ p = Export!BundleJson /\ DOMAIN got[e] \subseteq DOMAIN files /\ files[p] = m
  BY <1>1 DEF ExportOk
<1>3. Export!BundleJson \notin DOMAIN got[e] /\ IsFiniteSet(DOMAIN got[e]) /\ Export!SnapshotHolds(m, got[e])
  BY CollectedIsOfRecord
<1>4. OfRun(m, run) BY <1>2 DEF OfRun, Manifested
<1>5. m.of = "bundle" BY DEF Manifested
<1> HIDE DEF files, m
<1>6. files[Export!BundleJson] = m /\ DOMAIN files = DOMAIN got[e] \cup {Export!BundleJson} BY <1>2, <1>3
<1>7. Export!Members(files) = got[e]
 <2>1. Export!Members(files) = [p \in DOMAIN got[e] |-> got[e][p]] BY <1>2, <1>3, <1>6 DEF Export!Members
 <2> QED BY <1>2, <2>1 DEF IsMap
<1>8. Cardinality(DOMAIN files) <= MaxBundleFiles BY <1>2, <1>3, <1>6, FS_AddElement
<1>9. Discreet(files) BY <1>2, <1>3, <1>5, <1>6 DEF Discreet
<1>10. Sound(files, run) BY <1>2, <1>3, <1>4, <1>6, <1>7, <1>8, <1>9 DEF Sound
<1> QED BY <1>2, <1>4, <1>6, <1>10 DEF files

\* A rename makes a sound destination where there was none, or leaves the one that is there.
LEMMA RenameKeeps == ASSUME ExportInv, NEW e \in Exporters, Export!Rename(e) PROVE ExportInv'
<1>1. /\ at[e] = "rename" /\ run' = run /\ inspected' = inspected /\ got' = got /\ changes' = changes /\ trouble' = trouble
  BY DEF Export!Rename, Export!At
<1>2. ExportOk(e, "rename", inspected[e], got[e], stage[e], run) BY <1>1, ExportFacts
<1>3. CASE dest.there
 <2>1. at' = [at EXCEPT ![e] = "cleanup"] /\ dest' = dest /\ stage' = stage /\ tampered' = tampered
   BY <1>3 DEF Export!Rename, Export!Goto
 <2>2. ExportOk(e, "cleanup", inspected[e], got[e], stage[e], run) /\ "cleanup" \in Export!Steps
   BY <1>2 DEF ExportOk, Export!Steps
 <2> QED BY <1>1, <2>1, <2>2, ExportGoesOn, ExportFacts
<1>4. CASE ~dest.there
 <2>1. /\ at' = [at EXCEPT ![e] = "published"] /\ dest' = stage[e] /\ tampered' = FALSE
       /\ stage' = [stage EXCEPT ![e] = Export!Nothing]
   BY <1>4 DEF Export!Rename, Export!Goto
 <2>2. /\ stage'[e] = Export!Nothing /\ DOMAIN stage' = Exporters /\ \A f \in Exporters \ {e} : stage'[f] = stage[f]
       /\ at'[e] = "published" /\ at' \in [Exporters -> Export!Steps] /\ \A f \in Exporters \ {e} : at'[f] = at[f]
   BY <2>1, ExportFacts DEF Export!Steps
 <2>3. ExportOk(e, "published", inspected[e], got[e], Export!Nothing, run) BY <1>2, NothingIsPlaced DEF ExportOk
 <2>4. EachExport' BY <1>1, <2>2, <2>3, OneExportSteps, ExportFacts
 <2>5. DestOk(stage[e], run, FALSE) BY <1>1, StagedIsSound, ExportFacts DEF DestOk
 <2>6. DestOk(dest, run, tampered)' BY <1>1, <2>1, <2>5
 <2>7. Landed' BY <1>1, <2>1, <2>2, StagedIsSound DEF Landed
 <2>8. tampered' \in BOOLEAN BY <2>1
 <2> QED BY <1>1, <2>4, <2>6, <2>7, <2>8, CountersStay
<1> QED BY <1>3, <1>4

\* An export that returns has no stage.
LEMMA SyncParentKeeps == ASSUME ExportInv, NEW e \in Exporters, Export!SyncParent(e) PROVE ExportInv'
<1>1. /\ at[e] = "published" /\ Export!End(e, "done")
      /\ run' = run /\ dest' = dest /\ tampered' = tampered /\ changes' = changes /\ trouble' = trouble /\ stage' = stage
  BY DEF Export!SyncParent, Export!At
<1>2. Export!Busy(e) /\ stage[e] = Export!Nothing BY <1>1, NoStageYet DEF Export!Busy
<1> QED BY <1>1, <1>2, ExportEnds, ExportFacts, NothingIsPlaced

\* An export that cleans up leaves no stage, but what of it a failing rmtree leaves.
LEMMA CleanUpKeeps == ASSUME ExportInv, NEW e \in Exporters, Export!CleanUp(e) PROVE ExportInv'
<1>1. /\ at[e] = "cleanup" /\ Export!End(e, "raised")
      /\ run' = run /\ dest' = dest /\ tampered' = tampered /\ changes' = changes
      /\ \/ stage' = [stage EXCEPT ![e] = Export!Nothing] /\ trouble' = trouble
         \/ /\ stage[e].there /\ trouble < MaxExportTrouble /\ trouble' = trouble + 1
            /\ stage' = stage \/ stage' = [stage EXCEPT ![e].files = << >>, ![e].synced = {}]
  BY DEF Export!CleanUp, Export!At, Export!Raise, Export!Trouble
<1>2. trouble' \in 0 .. MaxExportTrouble /\ trouble' >= trouble /\ Export!Busy(e) BY <1>1, ExportFacts DEF Export!Busy
<1>3. /\ DOMAIN stage' = Exporters /\ \A f \in Exporters \ {e} : stage'[f] = stage[f]
      /\ \/ stage'[e] = Export!Nothing
         \/ stage[e].there /\ stage'[e] = stage[e]
         \/ stage[e].there /\ stage'[e] = [stage[e] EXCEPT !.files = << >>, !.synced = {}]
  BY <1>1, ExportFacts
<1>4. ExportOk(e, at[e], inspected[e], got[e], stage[e], run) BY ExportFacts
<1>5. Placed(stage[e]) /\ stage[e].synced \subseteq DOMAIN stage[e].files /\ (stage[e].there => stage[e].by = e)
  BY <1>4 DEF ExportOk
<1>6. /\ Placed(stage'[e]) /\ stage'[e].synced \subseteq DOMAIN stage'[e].files
      /\ stage'[e].there => stage'[e].by = e
 <2>1. CASE stage'[e] = Export!Nothing BY <2>1, NothingIsPlaced
 <2>2. CASE stage'[e] = stage[e] BY <1>5, <2>2
 <2>3. CASE stage[e].there /\ stage'[e] = [stage[e] EXCEPT !.files = << >>, !.synced = {}]
  <3>1. stage'[e] = [there |-> TRUE, files |-> << >>, synced |-> {}, by |-> e] BY <1>5, <2>3 DEF Placed
  <3> QED BY <3>1 DEF Placed, IsMap
 <2> QED BY <1>3, <2>1, <2>2, <2>3
<1> QED BY <1>1, <1>2, <1>3, <1>6, ExportEnds

\* An error is counted, and leads to the cleanup of what was staged, unless the stage was just made.
LEMMA ErrorKeeps == ASSUME ExportInv, NEW e \in Exporters, Export!Error(e) PROVE ExportInv'
<1>1. /\ run' = run /\ dest' = dest /\ tampered' = tampered /\ changes' = changes
      /\ trouble < MaxExportTrouble /\ trouble' = trouble + 1
  BY DEF Export!Error, Export!Trouble
<1>2. trouble' \in 0 .. MaxExportTrouble /\ trouble' \in Nat /\ trouble' >= trouble /\ trouble' > 0
  BY <1>1, ExportFacts
<1>3. CASE at[e] \in {"write", "sync", "rename", "published"} /\ Export!Goto(e, "cleanup") /\ UNCHANGED <<inspected, got, stage>>
 <2>1. at' = [at EXCEPT ![e] = "cleanup"] /\ inspected' = inspected /\ got' = got /\ stage' = stage
   BY <1>3 DEF Export!Goto
 <2>2. at'[e] = "cleanup" /\ at' \in [Exporters -> Export!Steps] /\ \A f \in Exporters \ {e} : at'[f] = at[f]
   BY <2>1, ExportFacts DEF Export!Steps
 <2>3. ExportOk(e, at[e], inspected[e], got[e], stage[e], run) BY ExportFacts
 <2>4. ExportOk(e, "cleanup", inspected[e], got[e], stage[e], run) BY <1>3, <2>3 DEF ExportOk
 <2>5. EachExport' BY <1>1, <2>1, <2>2, <2>4, OneExportSteps, ExportFacts
 <2>6. DestOk(dest, run, tampered)' /\ Landed' BY <1>1, <1>2, <2>2, DestStays
 <2> QED BY <1>1, <1>2, <2>5, <2>6, ExportFacts, Zenon DEF ExportInv
<1>4. CASE at[e] \in {"control", "events", "entries", "blobs", "stage"} /\ Export!Raise(e) /\ stage' = stage
 <2>1. Export!Busy(e) BY <1>4 DEF Export!Busy
 <2> QED BY <1>1, <1>2, <1>4, <2>1, RaiseKeeps
<1>5. CASE at[e] = "stage" /\ Export!Raise(e) /\ stage' = [stage EXCEPT ![e] = Export!Staged(e)]
 <2>1. Export!Busy(e) /\ Export!End(e, "raised") BY <1>5 DEF Export!Busy, Export!Raise
 <2>2. /\ stage'[e] = Export!Staged(e) /\ DOMAIN stage' = Exporters
       /\ \A f \in Exporters \ {e} : stage'[f] = stage[f]
   BY <1>5, ExportFacts
 <2>3. /\ Placed(stage'[e]) /\ stage'[e].synced \subseteq DOMAIN stage'[e].files
       /\ stage'[e].by = e
   BY <2>2, StagedIsEmpty
 <2> QED BY <1>1, <1>2, <1>5, <2>1, <2>2, <2>3, ExportEnds
<1> QED BY <1>3, <1>4, <1>5 DEF Export!Error, Export!At

\* A killed export may leave its stage, and nothing else.
LEMMA KillKeeps == ASSUME ExportInv, NEW e \in Exporters, Export!Kill(e) PROVE ExportInv'
<1>1. /\ Export!Busy(e) /\ Export!End(e, "dead")
      /\ run' = run /\ dest' = dest /\ tampered' = tampered /\ changes' = changes /\ stage' = stage
      /\ trouble < MaxExportTrouble /\ trouble' = trouble + 1
  BY DEF Export!Kill, Export!Trouble
<1>2. trouble' \in 0 .. MaxExportTrouble /\ trouble' >= trouble BY <1>1, ExportFacts
<1>3. ExportOk(e, at[e], inspected[e], got[e], stage[e], run) BY ExportFacts
<1>4. Placed(stage[e]) /\ stage[e].synced \subseteq DOMAIN stage[e].files /\ (stage[e].there => stage[e].by = e)
  BY <1>3 DEF ExportOk
<1> QED BY <1>1, <1>2, <1>4, ExportEnds, ExportFacts

\* A change of the record touches neither an export nor a destination.
LEMMA ChangeRecordKeeps == ASSUME ExportInv, Export!ChangeRecord PROVE ExportInv'
<1>1. /\ run' = run /\ dest' = dest /\ tampered' = tampered /\ trouble' = trouble
      /\ at' = at /\ inspected' = inspected /\ got' = got /\ stage' = stage
      /\ changes < MaxChanges /\ changes' = changes + 1
  BY DEF Export!ChangeRecord, Export!exportVars
<1>2. changes' \in 0 .. MaxChanges
 <2>1. MaxChanges \in Nat /\ changes \in 0 .. MaxChanges BY OperationsAssumption DEF ExportInv, Export!RunAssumption
 <2> QED BY <1>1, <2>1
<1>3. EachExport' BY <1>1 DEF ExportInv, EachExport
<1>4. Landed' BY <1>1 DEF ExportInv, Landed
<1>5. DestOk(dest, run, tampered)' BY <1>1 DEF ExportInv
<1>6. run' \in Runs /\ tampered' \in BOOLEAN /\ trouble' \in 0 .. MaxExportTrouble BY <1>1 DEF ExportInv
<1> QED BY <1>2, <1>3, <1>4, <1>5, <1>6, Zenon DEF ExportInv
\* A bundle that is changed keeps its manifest, or gets that of a bundle of some run: no record has one.
LEMMA ChangeBundleKeeps == ASSUME ExportInv, Export!ChangeBundle PROVE ExportInv'
<1>1. /\ run' = run /\ at' = at /\ inspected' = inspected /\ got' = got /\ stage' = stage /\ changes' = changes
      /\ dest.there /\ tampered' = TRUE /\ trouble < MaxExportTrouble /\ trouble' = trouble + 1
  BY DEF Export!ChangeBundle, Export!exportVars, Export!Trouble
<1>2. /\ DestOk(dest, run, tampered) /\ Landed /\ EachExport /\ run \in Runs /\ changes \in 0 .. MaxChanges
      /\ trouble \in 0 .. MaxExportTrouble /\ MaxExportTrouble \in Nat
  BY OperationsAssumption DEF ExportInv, Export!RunAssumption
<1>3. /\ trouble' \in 0 .. MaxExportTrouble /\ trouble' > 0 BY <1>1, <1>2
<1>4. /\ dest = [there |-> dest.there, files |-> dest.files, synced |-> dest.synced, by |-> dest.by] /\ dest.there = TRUE
      /\ IsMap(dest.files) /\ DOMAIN dest.files \subseteq dest.synced
      /\ Export!BundleJson \in DOMAIN dest.files => \E q \in Runs : OfRun(dest.files[Export!BundleJson], q)
  BY <1>1, <1>2 DEF DestOk, Placed
<1> DEFINE Rewritten ==
      \E files, synced :
        /\ dest' = [there |-> TRUE, files |-> files, synced |-> synced, by |-> dest.by]
        /\ IsMap(files) /\ DOMAIN files \subseteq synced
        /\ Export!BundleJson \in DOMAIN files => \E q \in Runs : OfRun(files[Export!BundleJson], q)
<1>5. Rewritten
 <2>1. ASSUME NEW p \in DOMAIN dest.files, dest' = [dest EXCEPT !.files = [q \in DOMAIN @ \ {p} |-> @[q]]]
       PROVE  Rewritten
  <3> DEFINE files == [q \in DOMAIN dest.files \ {p} |-> dest.files[q]]
  <3>1. dest' = [there |-> TRUE, files |-> files, synced |-> dest.synced, by |-> dest.by] BY <1>4, <2>1
  <3>2. IsMap(files) /\ DOMAIN files \subseteq dest.synced BY <1>4 DEF IsMap
  <3>3. Export!BundleJson \in DOMAIN files => \E q \in Runs : OfRun(files[Export!BundleJson], q) BY <1>4
  <3> HIDE DEF files
  <3> QED BY <3>1, <3>2, <3>3
 <2>2. ASSUME NEW r \in Runs, NEW p \in DOMAIN Export!Records[r],
              dest' = [dest EXCEPT !.files = Export!WithFile(p, Export!Records[r][p], @), !.synced = @ \cup {p}]
       PROVE  Rewritten
  <3> DEFINE files == Export!WithFile(p, Export!Records[r][p], dest.files)
  <3>1. dest' = [there |-> TRUE, files |-> files, synced |-> dest.synced \cup {p}, by |-> dest.by] BY <1>4, <2>2
  <3>2. IsMap(files) /\ DOMAIN files = DOMAIN dest.files \cup {p} BY DEF IsMap, Export!WithFile, Export!Atop
  <3>3. p # Export!BundleJson BY <2>2, RecordPaths
  <3>4. Export!BundleJson \in DOMAIN files =>
          Export!BundleJson \in DOMAIN dest.files /\ files[Export!BundleJson] = dest.files[Export!BundleJson]
    BY <3>3 DEF Export!WithFile, Export!Atop
  <3> HIDE DEF files
  <3>5. Export!BundleJson \in DOMAIN files => \E q \in Runs : OfRun(files[Export!BundleJson], q) BY <1>4, <3>4
  <3> QED BY <1>4, <3>1, <3>2, <3>5
 <2>4. ASSUME NEW r \in Runs,
              dest' = [dest EXCEPT !.files = Export!WithFile(Export!BundleJson, Export!WholeBundle(r), @),
                                   !.synced = @ \cup {Export!BundleJson}]
       PROVE  Rewritten
  <3> DEFINE files == Export!WithFile(Export!BundleJson, Export!WholeBundle(r), dest.files)
  <3>1. dest' = [there |-> TRUE, files |-> files, synced |-> dest.synced \cup {Export!BundleJson}, by |-> dest.by]
    BY <1>4, <2>4
  <3>2. /\ IsMap(files) /\ DOMAIN files = DOMAIN dest.files \cup {Export!BundleJson}
        /\ files[Export!BundleJson] = Export!WholeBundle(r)
    BY DEF IsMap, Export!WithFile, Export!Atop
  <3>3. OfRun(Export!WholeBundle(r), r) BY DEF OfRun, Export!WholeBundle
  <3> HIDE DEF files
  <3> QED BY <1>4, <3>1, <3>2, <3>3
 <2>3. \/ \E r \in Runs :
            dest' = [dest EXCEPT !.files = Export!WithFile(Export!BundleJson, Export!WholeBundle(r), @),
                                 !.synced = @ \cup {Export!BundleJson}]
       \/ \E p \in DOMAIN dest.files : dest' = [dest EXCEPT !.files = [q \in DOMAIN @ \ {p} |-> @[q]]]
       \/ \E r \in Runs : \E p \in DOMAIN Export!Records[r] :
            dest' = [dest EXCEPT !.files = Export!WithFile(p, Export!Records[r][p], @), !.synced = @ \cup {p}]
   BY DEF Export!ChangeBundle, Export!AllRecords
 <2> QED BY <2>1, <2>2, <2>3, <2>4
<1>6. DestOk(dest, run, tampered)'
 <2>1. PICK files, synced :
         /\ dest' = [there |-> TRUE, files |-> files, synced |-> synced, by |-> dest.by]
         /\ IsMap(files) /\ DOMAIN files \subseteq synced
         /\ Export!BundleJson \in DOMAIN files => \E q \in Runs : OfRun(files[Export!BundleJson], q)
   BY <1>5
 <2>2. Placed(dest') /\ dest'.files = files /\ dest'.synced = synced BY <2>1, PlacedThere
 <2>4. DestOk(dest', run, TRUE) BY <2>1, <2>2 DEF DestOk
 <2> QED BY <1>1, <2>4
<1>7. EachExport' BY <1>1, <1>2 DEF EachExport
<1>8. Landed'
 <2>1. dest'.by = dest.by BY <1>5
 <2> QED BY <1>1, <1>2, <1>3, <2>1 DEF Landed
<1>9. run' \in Runs /\ tampered' \in BOOLEAN /\ changes' \in 0 .. MaxChanges BY <1>1, <1>2
<1> QED BY <1>3, <1>6, <1>7, <1>8, <1>9, Zenon DEF ExportInv

\* What stands at a destination is synced, so a power failure takes no file of it.
LEMMA PowerTakesNoFile ==
  ASSUME ExportInv
  PROVE  [dest EXCEPT !.files = [p \in DOMAIN @ \cap dest.synced |-> @[p]]] = dest
<1>1. /\ dest = [there |-> dest.there, files |-> dest.files, synced |-> dest.synced, by |-> dest.by]
      /\ IsMap(dest.files) /\ DOMAIN dest.files \subseteq dest.synced
  BY DEF ExportInv, DestOk, Placed
<1>2. DOMAIN dest.files \cap dest.synced = DOMAIN dest.files BY <1>1
<1>3. [p \in DOMAIN dest.files \cap dest.synced |-> dest.files[p]] = dest.files BY <1>1, <1>2 DEF IsMap
<1> QED BY <1>1, <1>3

\* A power failure takes a destination whole or not at all, and ends every export.
LEMMA PowerFailureKeeps == ASSUME ExportInv, Export!PowerFailure PROVE ExportInv'
<1>1. /\ run' = run /\ stage' = stage /\ tampered' = tampered /\ changes' = changes
      /\ at' = [e \in Exporters |-> IF Export!Busy(e) THEN "dead" ELSE at[e]]
      /\ got' = [e \in Exporters |-> << >>] /\ inspected' = [e \in Exporters |-> Export!NoRun]
      /\ trouble < MaxExportTrouble /\ trouble' = trouble + 1
  BY DEF Export!PowerFailure, Export!Trouble
<1>2. /\ DestOk(dest, run, tampered) /\ Landed /\ EachExport /\ run \in Runs /\ changes \in 0 .. MaxChanges
      /\ trouble \in 0 .. MaxExportTrouble /\ MaxExportTrouble \in Nat /\ tampered \in BOOLEAN
  BY OperationsAssumption DEF ExportInv, Export!RunAssumption
<1>3. trouble' \in 0 .. MaxExportTrouble /\ trouble' > 0 BY <1>1, <1>2
<1>4. dest' = dest \/ dest' = Export!Nothing BY PowerTakesNoFile DEF Export!PowerFailure
<1>5. EachExport'
 <2>1. at' \in [Exporters -> Export!Steps] BY <1>1, <1>2 DEF EachExport, Export!Steps
 <2>2. ASSUME NEW e \in Exporters PROVE ExportOk(e, at'[e], inspected'[e], got'[e], stage'[e], run)
  <3>1. ExportOk(e, at[e], inspected[e], got[e], stage[e], run) BY ExportFacts
  <3>2. IsMap(<< >>) /\ Discreet(<< >>) BY DEF IsMap, Discreet
  <3>3. got'[e] = << >> /\ at'[e] = IF Export!Busy(e) THEN "dead" ELSE at[e] BY <1>1
  <3>4. at'[e] \in {"start", "done", "raised", "dead"} /\ (at'[e] # "dead" => at'[e] = at[e]) BY <3>3 DEF Export!Busy
  <3>5. at'[e] \in {"start", "done"} => stage[e] = Export!Nothing BY <3>4, NoStageYet
  <3>6. IsMap(got'[e]) /\ Discreet(got'[e]) /\ DOMAIN stage[e].files = DOMAIN stage'[e].files BY <1>1, <3>2, <3>3
  <3>7. ExportOk(e, at'[e], inspected'[e], got'[e], stage[e], run)
    BY <3>1, <3>4, <3>5, <3>6, NothingIsPlaced DEF ExportOk
  <3> QED BY <1>1, <3>7
 <2> QED BY <1>1, <1>2, <2>1, <2>2 DEF EachExport
<1>6. DestOk(dest, run, tampered)'
 <2>1. DestOk(Export!Nothing, run, tampered) BY NothingIsPlaced DEF DestOk
 <2> QED BY <1>1, <1>2, <1>4, <2>1
<1>7. Landed'
 <2>1. CASE dest' = dest
  <3>1. dest.there => at'[dest.by] \in {at[dest.by], "dead"} BY <1>1, <1>2 DEF Landed
  <3> QED BY <1>1, <1>2, <1>3, <2>1, <3>1 DEF Landed
 <2>2. CASE dest' = Export!Nothing BY <2>2, NothingIsPlaced DEF Landed
 <2> QED BY <1>4, <2>1, <2>2
<1>8. run' \in Runs /\ tampered' \in BOOLEAN /\ changes' \in 0 .. MaxChanges BY <1>1, <1>2
<1> QED BY <1>3, <1>5, <1>6, <1>7, <1>8, Zenon DEF ExportInv

\* Nothing changes when nothing does.
LEMMA ExportStutters == ASSUME ExportInv, UNCHANGED exportVars, UNCHANGED <<run, at, trouble>> PROVE ExportInv'
<1>1. /\ run' = run /\ at' = at /\ inspected' = inspected /\ got' = got /\ stage' = stage /\ dest' = dest
      /\ tampered' = tampered /\ changes' = changes /\ trouble' = trouble
  BY DEF exportVars
<1>2. EachExport' /\ Landed' BY <1>1 DEF ExportInv, EachExport, Landed
<1>3. DestOk(dest, run, tampered)' /\ tampered' \in BOOLEAN BY <1>1 DEF ExportInv
<1> QED BY <1>1, <1>2, <1>3, CountersStay

\* Every step of an export, of what changes the record or a bundle, and every fault keeps it.
LEMMA ExportKeeps == ASSUME ExportInv, Export!Next PROVE ExportInv'
<1>1. ASSUME NEW e \in Exporters, Export!Step(e) PROVE ExportInv'
  BY <1>1, InspectKeeps, CollectKeeps, ValidateKeeps, StageKeeps, WriteKeeps, SyncKeeps, RenameKeeps, SyncParentKeeps,
    CleanUpKeeps DEF Export!Step
<1>2. CASE Export!Over BY <1>2, ExportStutters DEF Export!Over, Export!vars, Export!exportVars, exportVars
<1> QED BY <1>1, <1>2, ErrorKeeps, KillKeeps, ChangeRecordKeeps, ChangeBundleKeeps, PowerFailureKeeps DEF Export!Next

----------------------------------------
(* What the invariant of an export says *)

\* A published bundle, and a bundle that verify_bundle takes, is of the record.
LEMMA ExportIsGenuine ==
  ASSUME ExportInv
  PROVE  Export!TypeOK /\ Export!PublishedIsOfTheRecord /\ Export!PublishedVerifies /\ Export!VerifiedIsGenuine
<1>1. DestOk(dest, run, tampered) /\ Landed /\ EachExport /\ run \in Runs BY DEF ExportInv
<1> DEFINE m == dest.files[Export!BundleJson]
           c == Export!Members(dest.files)
<1>2. ASSUME NEW r \in Runs, OfRun(m, r), Export!SnapshotHolds(m, c)
      PROVE  \E n \in 0 .. Len(r.entries) : c = Export!Surface(r, n)
 <2>1. IsMap(c) BY DEF IsMap, Export!Members
 <2> HIDE DEF m, c
 <2> QED BY <1>2, <2>1, SnapshotIsSurface
<1>3. Export!TypeOK
 <2>1. ASSUME NEW e \in Exporters
       PROVE  /\ Export!Busy(e) => DOMAIN stage[e].files \subseteq DOMAIN got[e] \cup {Export!BundleJson}
              /\ stage[e].synced \subseteq DOMAIN stage[e].files
              /\ stage[e].there => stage[e].by = e
   BY ExportFacts DEF ExportOk, Export!Busy
 <2>2. /\ run \in Runs /\ at \in [Exporters -> Export!Steps] /\ tampered \in BOOLEAN
       /\ changes \in 0 .. MaxChanges /\ trouble \in 0 .. MaxExportTrouble
   BY DEF ExportInv, EachExport
 <2> QED BY <2>1, <2>2, Zenon DEF Export!TypeOK
<1>4. ASSUME dest.there, ~tampered
      PROVE  /\ Sound(dest.files, run) /\ OfRun(m, run)
             /\ Export!BundleJson \in DOMAIN dest.files /\ Export!SnapshotHolds(m, c)
             /\ Cardinality(DOMAIN dest.files) <= MaxBundleFiles /\ Discreet(dest.files)
  BY <1>1, <1>4 DEF DestOk, Sound
<1>5. Export!PublishedIsOfTheRecord
 <2> SUFFICES ASSUME dest.there, ~tampered
              PROVE  /\ Export!BundleJson \in DOMAIN dest.files
                     /\ \E n \in 0 .. Len(run.entries) : c = Export!Surface(run, n)
                     /\ \A p \in Export!OfKind(dest.files, "blobs") : p[2] \notin Secrets
                     /\ m.record = Export!Records[run][Export!Manifest]
   BY DEF Export!PublishedIsOfTheRecord, Export!Published
 <2>1. \E n \in 0 .. Len(run.entries) : c = Export!Surface(run, n) BY <1>1, <1>2, <1>4
 <2>2. ASSUME NEW p \in Export!OfKind(dest.files, "blobs") PROVE p[2] \notin Secrets
  <3>1. p \in DOMAIN dest.files /\ p[1] = "blobs" BY DEF Export!OfKind
  <3>2. p # Export!BundleJson /\ p # Export!Manifest BY <3>1 DEF Export!BundleJson, Export!Manifest, Export!File
  <3>3. p \in DOMAIN c /\ c[p] = dest.files[p] BY <3>1, <3>2 DEF Export!Members
  <3>4. Export!MembersHold(m, c) BY <1>4 DEF Export!SnapshotHolds, Export!BindingsHold
  <3>5. c[p] = Export!BlobOf(p[2]) BY <3>1, <3>2, <3>3, <3>4 DEF Export!MembersHold
  <3>6. c[p].of = "blob" /\ c[p].n = p[2] BY <3>5 DEF Export!BlobOf
  <3> HIDE DEF c
  <3> QED BY <1>4, <3>1, <3>3, <3>6 DEF Discreet
 <2>3. m.record = Export!Records[run][Export!Manifest] BY <1>4 DEF OfRun
 <2> QED BY <1>4, <2>1, <2>2, <2>3
<1>6. Export!PublishedVerifies
 <2> SUFFICES ASSUME dest.there, ~tampered, Export!Aggregate(dest.files) <= MaxBundleBytes
              PROVE  Export!Verified(dest.files)
   BY DEF Export!PublishedVerifies, Export!Published
 <2> QED BY <1>4, ExportCardinality DEF Export!Verified, Export!Members
<1>7. Export!VerifiedIsGenuine
 <2> SUFFICES ASSUME dest.there, Export!Verified(dest.files)
              PROVE  \E r \in Runs : \E n \in 0 .. Len(r.entries) : c = Export!Surface(r, n)
   BY DEF Export!VerifiedIsGenuine
 <2>1. Export!BundleJson \in DOMAIN dest.files /\ Export!SnapshotHolds(m, c) BY DEF Export!Verified, Export!Members
 <2>2. PICK r \in Runs : OfRun(m, r) BY <1>1, <2>1 DEF DestOk
 <2>3. \E n \in 0 .. Len(r.entries) : c = Export!Surface(r, n) BY <1>2, <2>1, <2>2
 <2> QED BY <2>3
<1> QED BY <1>3, <1>5, <1>6, <1>7

\* Where an export raises: before it has a stage, in the fsync after the mkdir, or after its cleanup.
LEMMA RaisesFrom ==
  ASSUME ExportInv, Export!Next, NEW e \in Exporters, at[e] # "raised", at'[e] = "raised"
  PROVE  /\ dest' = dest
         /\ at[e] \in {"start", "control", "events", "entries", "blobs", "limits", "stage", "cleanup"}
         /\ \/ at[e] # "cleanup" /\ stage' = stage
            \/ stage'[e] = Export!Nothing
            \/ trouble' > trouble
<1>1. ASSUME NEW f \in Exporters, Export!Step(f) \/ Export!Error(f) \/ Export!Kill(f)
      PROVE  \E l \in Export!Steps : at' = [at EXCEPT ![f] = l]
  BY <1>1 DEF Export!Step, Export!Inspect, Export!CollectControl, Export!CollectEvents, Export!CollectEntries,
    Export!CollectBlobs, Export!Validate, Export!Stage, Export!Write, Export!Sync, Export!Rename, Export!SyncParent,
    Export!CleanUp, Export!Error, Export!Kill, Export!Add, Export!Raise, Export!End, Export!Goto, Export!Steps
<1>2. ~(Export!ChangeRecord \/ Export!ChangeBundle \/ Export!Over)
  BY DEF Export!ChangeRecord, Export!ChangeBundle, Export!Over, Export!vars, Export!exportVars
<1>3. ~Export!PowerFailure BY DEF Export!PowerFailure
<1>4. Export!Step(e) \/ Export!Error(e) \/ Export!Kill(e)
 <2>1. PICK f \in Exporters : Export!Step(f) \/ Export!Error(f) \/ Export!Kill(f) BY <1>2, <1>3 DEF Export!Next
 <2>2. f = e BY <1>1, <2>1, ExportFacts
 <2> QED BY <2>1, <2>2
<1>5. trouble \in Nat /\ DOMAIN at = Exporters /\ DOMAIN stage = Exporters BY ExportFacts
<1>6. CASE \/ Export!Inspect(e) \/ Export!CollectControl(e) \/ Export!CollectEvents(e) \/ Export!CollectEntries(e)
           \/ Export!CollectBlobs(e) \/ Export!Validate(e)
  BY <1>6 DEF Export!Inspect, Export!CollectControl, Export!CollectEvents, Export!CollectEntries,
    Export!CollectBlobs, Export!Validate, Export!At
<1>7. CASE Export!Stage(e) BY <1>5, <1>7 DEF Export!Stage, Export!At, Export!Goto
<1>8. CASE Export!Write(e) \/ Export!Sync(e) \/ Export!Rename(e) \/ Export!SyncParent(e) \/ Export!Kill(e)
  BY <1>5, <1>8 DEF Export!Write, Export!Sync, Export!Rename, Export!SyncParent, Export!Kill, Export!End, Export!Goto
<1>9. CASE Export!CleanUp(e) BY <1>5, <1>9 DEF Export!CleanUp, Export!At, Export!Trouble
<1>10. CASE Export!Error(e) BY <1>5, <1>10 DEF Export!Error, Export!Trouble, Export!Goto, Export!At
<1> QED BY <1>4, <1>6, <1>7, <1>8, <1>9, <1>10 DEF Export!Step

\* An export that comes to raise leaves a stage only in a call that fails, and a destination only when
\* one failed after the rename.
LEMMA RaisedLeavesLittle == ASSUME ExportInv, Export!Next PROVE Export!RaisedLeavesNothing
<1>1. ASSUME NEW e \in Exporters, at[e] # "raised", at'[e] = "raised"
      PROVE  /\ stage'[e].there => trouble' > trouble
             /\ dest'.there /\ dest'.by = e => at[e] = "cleanup" /\ trouble > 0
 <2>1. /\ dest' = dest
       /\ at[e] \in {"start", "control", "events", "entries", "blobs", "limits", "stage", "cleanup"}
       /\ \/ at[e] # "cleanup" /\ stage' = stage
          \/ stage'[e] = Export!Nothing
          \/ trouble' > trouble
   BY <1>1, RaisesFrom
 <2>2. at[e] # "cleanup" => stage[e] = Export!Nothing BY <2>1, NoStageYet
 <2>3. stage'[e].there => trouble' > trouble BY <2>1, <2>2, NothingIsPlaced
 <2>4. dest'.there /\ dest'.by = e => at[e] = "cleanup" /\ trouble > 0 BY <2>1, ExportFacts DEF Landed
 <2> QED BY <2>3, <2>4
<1> QED BY <1>1 DEF Export!RaisedLeavesNothing

\* A destination that was returned is replaced by no step, nor taken away.
LEMMA DestinationStays == ASSUME ExportInv, Export!Next PROVE Export!DestinationIsKept
<1> SUFFICES ASSUME dest.there, at[dest.by] = "done" PROVE dest'.by = dest.by /\ (dest' = dest \/ tampered')
  BY DEF Export!DestinationIsKept
<1>1. CASE dest' = dest BY <1>1
<1>2. CASE Export!ChangeBundle
 <2>1. DestOk(dest, run, tampered) BY DEF ExportInv
 <2>2. dest = [there |-> dest.there, files |-> dest.files, synced |-> dest.synced, by |-> dest.by]
   BY <2>1 DEF DestOk, Placed
 <2>3. tampered' /\ dest'.by = dest.by BY <1>2, <2>2 DEF Export!ChangeBundle
 <2> QED BY <2>3
<1>3. CASE Export!PowerFailure
 <2>1. dest' = dest BY <1>3, PowerTakesNoFile DEF Export!PowerFailure
 <2> QED BY <2>1
<1>4. ASSUME NEW e \in Exporters, Export!Step(e) PROVE dest' = dest
  BY <1>4 DEF Export!Step, Export!Inspect, Export!CollectControl, Export!CollectEvents, Export!CollectEntries,
    Export!CollectBlobs, Export!Validate, Export!Stage, Export!Write, Export!Sync, Export!Rename, Export!SyncParent,
    Export!CleanUp
<1>5. ASSUME NEW e \in Exporters, Export!Error(e) \/ Export!Kill(e) PROVE dest' = dest
  BY <1>5 DEF Export!Error, Export!Kill
<1>6. CASE Export!ChangeRecord \/ Export!Over
 <2>1. dest' = dest BY <1>6 DEF Export!ChangeRecord, Export!Over, Export!vars
 <2> QED BY <2>1
<1> QED BY <1>1, <1>2, <1>3, <1>4, <1>5, <1>6 DEF Export!Next
\* ExportInv is an invariant, whatever changes under the exports, is killed, fails or is lost.
THEOREM ExportInvariance == Spec => [](system = "export" => ExportInv)
<1>1. Init => (system = "export" => ExportInv) BY ExportStarts DEF Init
<1>2. (system = "export" => ExportInv) /\ [Next]_vars => (system = "export" => ExportInv)'
 <2> SUFFICES ASSUME system = "export" => ExportInv, [Next]_vars, system' = "export" PROVE ExportInv' OBVIOUS
 <2>1. CASE UNCHANGED vars
  <3>1. system = "export" /\ UNCHANGED exportVars /\ UNCHANGED <<run, at, trouble>> BY <2>1 DEF vars
  <3> QED BY <3>1, ExportStutters
 <2>2. CASE Next
  <3>1. Export!Next /\ system = "export" BY <2>2 DEF Next
  <3> QED BY <3>1, ExportKeeps
 <2> QED BY <2>1, <2>2
<1> QED BY <1>1, <1>2, PTL DEF Spec

\* BundleIsGenuine: what stands at a destination is a bundle of the record that was inspected, and
\* verify_bundle takes it, and nothing that is not.
THEOREM BundleGenuine == Spec => []BundleIsGenuine
<1>1. (system = "export" => ExportInv) => BundleIsGenuine BY ExportIsGenuine DEF BundleIsGenuine
<1> QED BY <1>1, ExportInvariance, PTL

\* ExportsAreApart: of two exports to one destination one that raises takes away what it made and
\* nothing else, and what was returned stays.
THEOREM ExportsApart == Spec => ExportsAreApart
<1>2. Next /\ system = "export" => (system = "export")' /\ Export!Next BY DEF Next
<1>3. /\ (system = "export" => ExportInv) /\ Next
      /\ system = "export"
      => Export!RaisedLeavesNothing /\ Export!DestinationIsKept
  BY <1>2, DestinationStays, RaisedLeavesLittle
<1>4. UNCHANGED vars /\ (system = "export" => ExportInv)
      => (system = "export" => Export!RaisedLeavesNothing /\ Export!DestinationIsKept)
  BY DEF vars, exportVars, Export!RaisedLeavesNothing, Export!DestinationIsKept
<1> QED BY <1>2, <1>3, <1>4, ExportInvariance, PTL DEF Spec, ExportsAreApart

=============================================================================

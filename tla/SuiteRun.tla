------------------------------ MODULE SuiteRun ------------------------------
(***************************************************************************)
(* run_suite of suites.py and run_capsule of capsule_runs.py: each takes   *)
(* the lease of a build, opens a run, competes for the machine's lock, and *)
(* under it invokes adapters, then publishes one result and finalizes the  *)
(* run; load_finalized_suite_snapshot reads back what a suite has left.    *)
(*                                                                         *)
(* A process makes one run.  An adapter is known by the sample it leaves;  *)
(* numbers and texts in a sample are left out.  A run is what RunLifecycle *)
(* says of it: RunEvidence has its inside.                                 *)
(***************************************************************************)
EXTENDS Naturals, Sequences, FiniteSets, SampleCategories

CONSTANTS Procs,        \* the processes, each with the run it makes
          Builds,       \* build IDs
          Prompts,      \* greedy prompts of the suite, in order
          Cases,        \* performance cases, in order
          Warmups,      \* warmup_runs
          Windows,      \* measurement_windows
          BackendSeen,  \* the statuses a backend-ops sample comes with
          ServerSeen,   \* those of a llama-server sample
          BenchSeen,    \* status and reason of a llama-bench sample
          MaxTrouble    \* bound: kills, raising calls, builds the user changes

\* Texts are in sequences of their own, and SuitePerformanceV1 takes no case twice.
ManifestAssumption ==
  /\ Prompts \in Seq({Prompts[i] : i \in DOMAIN Prompts}) /\ Len(Prompts) > 0
  /\ Cases \in Seq({Cases[i] : i \in DOMAIN Cases}) /\ Len(Cases) > 0
  /\ \A i, j \in DOMAIN Cases : Cases[i] = Cases[j] => i = j
  /\ Warmups \in Nat /\ Windows \in Nat \ {0} /\ MaxTrouble \in Nat

VARIABLES
  kind,      \* "suite" or "capsule"
  build,     \* the build the process is told to use
  intact,    \* the builds that are as they were published
  lease,     \* the process holds the build-ID lock of its build
  machine,   \* the process holds the machine's lock
  pc,
  raised,    \* an exception is on its way out
  run,       \* the run: none, active, or its outcome
  state,     \* _ProtocolState
  result,    \* suite/result.json or capsule/result.json, or none
  measured,  \* of each sample, whether the build was intact when it was taken
  trouble

vars == <<kind, build, intact, lease, machine, pc, raised, run, state, result, measured, trouble>>

-----------------------------------------------------------------------------
(* The schedule *)

Item(a, ph, i, c) == [adapter |-> a, phase |-> ph, index |-> i, case |-> c]

\* Mutant of Round: warm-up rounds and windows are counted from 0.
RoundFromZero(i) == (i - 1) \div Len(Cases)

\* The round of the i-th bench invocation: all cases in order, then the next round.
Round(i) == ((i - 1) \div Len(Cases)) + 1

\* plan_performance, windowed-interleaved-v1
PlannedCase(i) ==
  LET c == Cases[((i - 1) % Len(Cases)) + 1] IN
    IF Round(i) <= Warmups
      THEN Item("llama-bench", "warmup", Round(i), c)
      ELSE Item("llama-bench", "measurement", Round(i) - Warmups, c)

BenchRuns == Len(Cases) * (Warmups + Windows)

\* _expected_sample_coordinates; _drive_protocol goes through the same in order.
Schedule ==
  <<Item("backend-ops", "correctness-backend", 1, "backend")>>
  \o [i \in 1 .. Len(Prompts) |-> Item("llama-server", "correctness-greedy", i, Prompts[i])]
  \o [i \in 1 .. BenchRuns |-> PlannedCase(i)]

-----------------------------------------------------------------------------
(* Samples *)

Category(sample) ==
  CASE sample.item.adapter = "backend-ops" -> BackendCategory(sample.status)
    [] sample.item.adapter = "llama-server" -> ServerCategory(sample.status)
    [] OTHER -> BenchCategory(sample.status)

Sample(i, s, g, r) == [item |-> i, status |-> s, gate |-> g, replies |-> r]

\* What an adapter may leave for an item.  The gate of a backend sample agrees with
\* its status; a server that succeeded answered twice, with the same or other tokens, and
\* the replies of one that did not are not looked at.
SamplesOf(i) ==
  CASE i.adapter = "backend-ops" ->
         {Sample(i, s, IF s = "passed" THEN "passed" ELSE IF s = "hard-gate-failed" THEN "failed" ELSE "none", << >>)
            : s \in BackendSeen}
    [] i.adapter = "llama-server" ->
         {Sample(i, "success", "none", r) : r \in {<<"x", "x">>, <<"x", "y">>}}
           \cup {Sample(i, s, "none", << >>) : s \in ServerSeen \ {"success"}}
    [] OTHER -> {Sample(i, s, "none", << >>) : s \in BenchSeen}

\* _greedy_prompt_verdict: the same tokens twice, and at least one
PromptPasses(sample) ==
  /\ Category(sample) = "success"
  /\ Len(sample.replies) = 2 /\ sample.replies[1] = sample.replies[2] /\ sample.replies[1] # "empty"

\* The sample lets the protocol go on.
Passes(sample) ==
  CASE sample.item.adapter = "backend-ops" -> Category(sample) = "success" /\ sample.gate = "passed"
    [] sample.item.adapter = "llama-server" -> PromptPasses(sample)
    [] OTHER -> Category(sample) = "success"

\* The reason a sample that does not pass ends the protocol with
FailureOf(item) ==
  CASE item.adapter = "backend-ops" -> "backend-ops-failed"
    [] item.adapter = "llama-server" -> "greedy-parity-failed"
    [] item.phase = "warmup" -> "warmup-failed"
    [] OTHER -> "measurement-failed"

-----------------------------------------------------------------------------
Nothing == [samples |-> << >>, warmups |-> 0, windows |-> 0, measurements |-> << >>, reason |-> "passed"]

NoResult == [status |-> "none"]

Init ==
  /\ kind \in [Procs -> {"suite", "capsule"}] /\ build \in [Procs -> Builds]
  /\ intact = Builds /\ lease = {} /\ machine = {}
  /\ pc = [p \in Procs |-> "start"] /\ raised = [p \in Procs |-> FALSE]
  /\ run = [p \in Procs |-> "none"] /\ state = [p \in Procs |-> Nothing]
  /\ result = [p \in Procs |-> NoResult] /\ measured = [p \in Procs |-> << >>]
  /\ trouble = 0

At(p, l) == pc[p] = l

Goto(p, l) == pc' = [pc EXCEPT ![p] = l]

Kept == <<kind, build, intact, trouble>>

\* The exception leaves through the machine's lock, the run and the lease.
Escape(p) == Goto(p, "unlock") /\ raised' = [raised EXCEPT ![p] = TRUE]

-----------------------------------------------------------------------------
(* The run *)

\* The receipt is authenticated and current, or there is no run; lease_build waits
\* for nobody, and refuses a build that does not verify.
Lease(p) ==
  /\ At(p, "start")
  /\ \/ /\ \A q \in lease : build[q] # build[p]
        /\ build[p] \in intact
        /\ lease' = lease \cup {p} /\ Goto(p, "bind")
     \/ Goto(p, "end") /\ UNCHANGED lease
  /\ UNCHANGED <<Kept, machine, raised, run, state, result, measured>>

\* _bind_adapter_inputs or _bind_build, lease.verify, begin_run: what is refused
\* here leaves no run.
Bind(p) ==
  /\ At(p, "bind")
  /\ \/ /\ build[p] \in intact
        /\ run' = [run EXCEPT ![p] = "active"] /\ Goto(p, "snapshots")
     \/ Goto(p, "release") /\ UNCHANGED run
  /\ UNCHANGED <<Kept, lease, machine, raised, state, result, measured>>

\* The snapshots of build, model and machine, of which a suite's result has three refs
\* and a capsule's two.
Snapshots(p) ==
  /\ At(p, "snapshots") /\ Goto(p, "lock")
  /\ UNCHANGED <<Kept, lease, machine, raised, run, state, result, measured>>

\* Mutant of LockMachine: who finds the lock taken goes on all the same.
LockAnyway(p) ==
  /\ At(p, "lock")
  /\ machine' = machine \cup {p} /\ Goto(p, "protocol")
  /\ UNCHANGED <<Kept, lease, raised, run, state, result, measured>>

LockMachine(p) ==
  /\ At(p, "lock")
  /\ IF machine = {}
       THEN machine' = {p} /\ Goto(p, "protocol") /\ UNCHANGED state
       ELSE /\ state' = [state EXCEPT ![p].reason = "lock-unavailable"]
            /\ Goto(p, "verify") /\ UNCHANGED machine
  /\ UNCHANGED <<Kept, lease, raised, run, result, measured>>

Due(p) == Schedule[Len(state[p].samples) + 1]

\* Mutant of Counted: a warm-up is counted like a window.
CountedAlike(p, sample) ==
  [state[p] EXCEPT !.samples = Append(@, sample),
     !.windows = IF sample.item.adapter = "llama-bench" THEN @ + 1 ELSE @,
     !.measurements = IF sample.item.phase = "measurement" THEN Append(@, sample.item) ELSE @]

\* Warm-ups and windows count whatever their outcome; a window is projected only if
\* it passes.
Counted(p, sample) ==
  LET phase == sample.item.phase IN
    [state[p] EXCEPT !.samples = Append(@, sample),
       !.warmups = IF phase = "warmup" THEN @ + 1 ELSE @,
       !.windows = IF phase = "measurement" THEN @ + 1 ELSE @,
       !.measurements = IF phase = "measurement" /\ Passes(sample) THEN Append(@, sample.item) ELSE @]

\* Mutant of Invoke: a sample that fails does not end the protocol.
InvokeOn(p) ==
  /\ At(p, "protocol") /\ kind[p] = "suite"
  /\ \E sample \in SamplesOf(Due(p)) :
       LET after == Counted(p, sample) IN
         /\ state' = [state EXCEPT ![p] = IF Passes(sample) THEN after
                                         ELSE [after EXCEPT !.reason = FailureOf(sample.item)]]
         /\ Goto(p, IF Len(after.samples) = Len(Schedule) THEN "scratch" ELSE "protocol")
  /\ measured' = [measured EXCEPT ![p] = Append(@, build[p] \in intact)]
  /\ UNCHANGED <<Kept, lease, machine, raised, run, result>>

\* One invocation of an adapter, its sample authenticated against its portable blob.
Invoke(p) ==
  /\ At(p, "protocol") /\ kind[p] = "suite"
  /\ \E sample \in SamplesOf(Due(p)) :
       LET after == Counted(p, sample) IN
         IF Passes(sample)
           THEN /\ state' = [state EXCEPT ![p] = after]
                /\ Goto(p, IF Len(after.samples) = Len(Schedule) THEN "scratch" ELSE "protocol")
           ELSE /\ state' = [state EXCEPT ![p] = [after EXCEPT !.reason = FailureOf(sample.item)]]
                /\ Goto(p, "scratch")
  /\ measured' = [measured EXCEPT ![p] = Append(@, build[p] \in intact)]
  /\ UNCHANGED <<Kept, lease, machine, raised, run, result>>

\* The adapter raises an integrity error, or its sample has no portable entry.
IntegrityFails(p) ==
  /\ At(p, "protocol") /\ kind[p] = "suite"
  /\ state' = [state EXCEPT ![p].reason = "integrity-failed"] /\ Goto(p, "scratch")
  /\ UNCHANGED <<Kept, lease, machine, raised, run, result, measured>>

\* run_capsule_protocol, and _authenticate_protocol_result of what it left
Protocol(p) ==
  /\ At(p, "protocol") /\ kind[p] = "capsule"
  /\ \E reason \in {"passed", "child-failed"} : state' = [state EXCEPT ![p].reason = reason]
  /\ measured' = [measured EXCEPT ![p] = Append(@, build[p] \in intact)]
  /\ Goto(p, "scratch")
  /\ UNCHANGED <<Kept, lease, machine, raised, run, result>>

Scratch(p) ==
  /\ At(p, "scratch") /\ Goto(p, "verify")
  /\ UNCHANGED <<Kept, lease, machine, raised, run, state, result, measured>>

\* Mutant of StillIntact: the lease is not verified again.
StillLeased(p) == p \in lease

StillIntact(p) == build[p] \in intact

\* lease.verify before the result
Verify(p) ==
  /\ At(p, "verify")
  /\ IF StillIntact(p) THEN Goto(p, "publish") /\ UNCHANGED raised ELSE Escape(p)
  /\ UNCHANGED <<Kept, lease, machine, run, state, result, measured>>

\* _build_result, _lock_unavailable_result, _result
Publish(p) ==
  /\ At(p, "publish")
  /\ result' = [result EXCEPT ![p] =
       [status |-> IF state[p].reason = "passed" THEN "passed" ELSE "failed",
        reason |-> state[p].reason, samples |-> state[p].samples,
        warmups |-> state[p].warmups, windows |-> state[p].windows,
        measurements |-> state[p].measurements]]
  /\ Goto(p, "unlock")
  /\ UNCHANGED <<Kept, lease, machine, raised, run, state, measured>>

\* Mutant of Unlock: the lock of the machine is dropped with the lease.
UnlockLater(p) ==
  /\ At(p, "unlock") /\ Goto(p, "finalize")
  /\ UNCHANGED <<Kept, lease, machine, raised, run, state, result, measured>>

Unlock(p) ==
  /\ At(p, "unlock")
  /\ machine' = machine \ {p} /\ Goto(p, "finalize")
  /\ UNCHANGED <<Kept, lease, raised, run, state, result, measured>>

\* run.succeed, run.fail, or the __exit__ of the session
OutcomeOf(p) == IF ~raised[p] /\ result[p].status = "passed" THEN "SUCCESS" ELSE "FAILURE"

Finalize(p) ==
  /\ At(p, "finalize")
  /\ run' = [run EXCEPT ![p] = OutcomeOf(p)] /\ Goto(p, "release")
  /\ UNCHANGED <<Kept, lease, machine, raised, state, result, measured>>

Release(p) ==
  /\ At(p, "release")
  /\ lease' = lease \ {p} /\ machine' = machine \ {p} /\ Goto(p, "end")
  /\ UNCHANGED <<Kept, raised, run, state, result, measured>>

-----------------------------------------------------------------------------
(* Trouble, and recovery *)

Troubled == trouble < MaxTrouble /\ trouble' = trouble + 1

\* A call raises while the run is active: evidence that cannot be written, an
\* adapter's unexpected error, scratch that cannot be removed.
Raise(p) ==
  /\ pc[p] \in {"snapshots", "lock", "protocol", "scratch", "publish"} /\ Troubled
  /\ Escape(p)
  /\ UNCHANGED <<kind, build, intact, lease, machine, run, state, result, measured>>

Kill(p) ==
  /\ pc[p] \notin {"start", "end", "dead"} /\ Troubled
  /\ Goto(p, "dead") /\ lease' = lease \ {p} /\ machine' = machine \ {p}
  /\ UNCHANGED <<kind, build, intact, raised, run, state, result, measured>>

\* The user, or a defect of the disk, touches a published build.
BuildChanges(b) ==
  /\ b \in intact /\ Troubled /\ intact' = intact \ {b}
  /\ UNCHANGED <<kind, build, lease, machine, pc, raised, run, state, result, measured>>

\* Mutant of Recover: a run is interrupted though its owner lives.
RecoverAny(p) ==
  /\ run[p] = "active" /\ pc[p] # "finalize"
  /\ run' = [run EXCEPT ![p] = "INTERRUPTED"]
  /\ UNCHANGED <<Kept, lease, machine, pc, raised, state, result, measured>>

\* recover_run, which the lock of the run keeps from a living owner
Recover(p) ==
  /\ run[p] = "active" /\ At(p, "dead")
  /\ run' = [run EXCEPT ![p] = "INTERRUPTED"]
  /\ UNCHANGED <<Kept, lease, machine, pc, raised, state, result, measured>>

Step(p) ==
  \/ Lease(p) \/ Bind(p) \/ Snapshots(p) \/ LockMachine(p)
  \/ Invoke(p) \/ IntegrityFails(p) \/ Protocol(p) \/ Scratch(p) \/ Verify(p)
  \/ Publish(p) \/ Unlock(p) \/ Finalize(p) \/ Release(p)

Next ==
  \/ \E p \in Procs : Step(p) \/ Raise(p) \/ Kill(p) \/ Recover(p)
  \/ \E b \in Builds : BuildChanges(b)

Spec == Init /\ [][Next]_vars

-----------------------------------------------------------------------------
(* The snapshot of a finalized run *)

\* _bind_result_to_manifest
BoundToManifest(r) ==
  /\ r.status = "passed" /\ r.reason = "passed"
  /\ r.warmups = Len(Cases) * Warmups
  /\ r.windows = Len(Cases) * Windows

\* _reauthenticate_measurements: the planned windows, each against the next projection, and
\* no projection is left over.
Projected(r) ==
  LET planned == {i \in DOMAIN Schedule : Schedule[i].phase = "measurement"} IN
    /\ Len(r.measurements) = Cardinality(planned)
    /\ \A i \in planned : r.measurements[Cardinality({j \in planned : j <= i})] = Schedule[i]

\* _reauthenticate_samples: the exact schedule, every sample a success of its category,
\* the verdicts and projections recomputed.
Reauthenticated(r) ==
  /\ Len(r.samples) = Len(Schedule)
  /\ \A i \in DOMAIN Schedule :
       r.samples[i].item = Schedule[i] /\ Category(r.samples[i]) = "success" /\ Passes(r.samples[i])
  /\ Projected(r)

\* _measurement_coordinates: each window of each case once, and no other
CoordinatesCover(r) ==
  \A c \in {Cases[i] : i \in DOMAIN Cases}, w \in 1 .. Windows :
    Cardinality({i \in DOMAIN r.measurements :
                   r.measurements[i].case = c /\ r.measurements[i].index = w}) = 1

\* load_finalized_suite_snapshot
Loads(p) ==
  /\ kind[p] = "suite" /\ run[p] = "SUCCESS" /\ result[p] # NoResult
  /\ BoundToManifest(result[p]) /\ Reauthenticated(result[p]) /\ CoordinatesCover(result[p])

-----------------------------------------------------------------------------
(* Correctness *)

Reasons == {"passed", "lock-unavailable", "backend-ops-failed", "greedy-parity-failed",
            "warmup-failed", "measurement-failed", "integrity-failed", "child-failed"}

\* Every variable keeps to its range, and a window that was measured to the plan.
TypeOK ==
  /\ kind \in [Procs -> {"suite", "capsule"}] /\ build \in [Procs -> Builds]
  /\ intact \subseteq Builds /\ lease \subseteq Procs /\ machine \subseteq Procs
  /\ \A p \in Procs :
       /\ pc[p] \in {"start", "bind", "snapshots", "lock", "protocol", "scratch", "verify",
                     "publish", "unlock", "finalize", "release", "end", "dead"}
       /\ run[p] \in {"none", "active", "SUCCESS", "FAILURE", "INTERRUPTED"}
       /\ state[p].reason \in Reasons /\ state[p].warmups \in 0 .. Len(Cases) * Warmups
       /\ \A i \in DOMAIN state[p].measurements :
            /\ state[p].measurements[i].index \in 1 .. Windows
            /\ state[p].measurements[i].phase = "measurement"
       /\ Len(measured[p]) <= Len(Schedule) /\ raised[p] \in BOOLEAN

\* "Acquisition order is build lease, run, machine lock; release order is machine
\* lock, run finalization, build lease": whoever has the machine has an active run
\* and the lease, and a living owner of an active run has the lease.
LocksAreNested ==
  /\ \A p \in machine : run[p] = "active" /\ p \in lease
  /\ \A p \in Procs : run[p] = "active" /\ ~At(p, "dead") => p \in lease
  /\ \A p, q \in lease : p # q => build[p] # build[q]

\* One protocol at a time on the machine, suites and capsules alike; who finds the
\* machine taken has measured nothing.
MachineIsExclusive ==
  /\ Cardinality({p \in Procs : pc[p] \in {"protocol", "scratch"}}) <= 1
  /\ \A p \in Procs : state[p].reason = "lock-unavailable" => measured[p] = << >>

\* A run finalized as SUCCESS has measured nothing but the build it was leased,
\* and each sample of the plan passed.
SuccessIsEarned ==
  \A p \in Procs : run[p] = "SUCCESS" =>
    /\ \A i \in DOMAIN measured[p] : measured[p][i]
    /\ IF kind[p] = "suite" THEN Len(measured[p]) = Len(Schedule) ELSE Len(measured[p]) = 1

\* What run_suite finalizes as SUCCESS, load_finalized_suite_snapshot accepts: counts,
\* schedule, verdicts and windows recomputed by the reader are those the writer left.
SuccessIsLoadable ==
  \A p \in Procs : kind[p] = "suite" /\ run[p] = "SUCCESS" => Loads(p)

\* The reason in a published result is the one the samples beside it show.
ReasonIsTruthful ==
  \A p \in Procs : kind[p] = "suite" /\ result[p] # NoResult =>
    LET s == result[p].samples
        n == Len(s)
        ok == \A i \in DOMAIN s : Passes(s[i]) IN
      CASE result[p].reason = "passed" -> n = Len(Schedule) /\ ok
        [] result[p].reason = "lock-unavailable" -> n = 0
        [] result[p].reason = "integrity-failed" -> n < Len(Schedule) /\ ok
        [] OTHER -> /\ n > 0 /\ ~Passes(s[n]) /\ result[p].reason = FailureOf(s[n].item)
                    /\ \A i \in 1 .. n - 1 : Passes(s[i])

\* Each run is one of RunLifecycle, decided once: by its owner, or by recovery when
\* the owner is dead.
Lifecycle(p) == INSTANCE RunLifecycle WITH
  Outcomes <- {"SUCCESS", "FAILURE", "INTERRUPTED"},
  phase <- CASE run[p] = "none" -> "unborn" [] run[p] = "active" -> "open" [] OTHER -> "sealed",
  outcome <- IF run[p] \in {"none", "active"} THEN "none" ELSE run[p]
=============================================================================

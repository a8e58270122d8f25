---------------------------- MODULE MCMeasurement ----------------------------
(* The runs that measure, and what is made of two of them, one system at a   *)
(* time: suites and capsules competing for the machine, the protocol of one  *)
(* capsule run, comparisons, once of measured and once of admitted arms.  A  *)
(* variable a system does not have is Unused.                                *)
EXTENDS Naturals, Sequences, FiniteSets, TLC

CONSTANTS Procs, Builds, Prompts, Cases, Warmups, Windows,
          BackendSeen, ServerSeen, BenchSeen, MaxSuiteTrouble,
          Coordinates, Prints, Overruns, MaxCapsuleTrouble,
          Pairs, Exponents, Replicates, MaxEvaluated, MaxDifferences, Permits, Bps

\* For TLC: the sequences of a small suite, and a window that is measured or times out.
OnePrompt == <<"hello">>
TwoCases  == <<"pp", "tg">>
BenchPassesOrTimesOut == {<<"success", "success">>, <<"process-failed", "timed-out">>}

VARIABLES
  system,
  kind, build, intact, lease, machine, state, measured,
  inputs, n, disturbed, leased, locked, scratch, exe, hashed, child, ran, undone, todo,
  phases, answers, portable,
  differs, contract, sets, error, current, overall, reported,
  pc, raised, run, result, trouble

suiteVars      == <<build, intact, lease, machine, state>>
capsuleVars    == <<inputs, n, disturbed, leased, locked, scratch, exe, hashed, child, ran, undone, todo,
                    phases, answers, portable>>
comparisonVars == <<differs, contract, sets, error, current, overall, reported>>
vars == <<system, suiteVars, capsuleVars, comparisonVars, kind, measured, pc, raised, run, result, trouble>>

Suite   == INSTANCE SuiteRun WITH MaxTrouble <- MaxSuiteTrouble
Capsule == INSTANCE CapsuleRun WITH MaxTrouble <- MaxCapsuleTrouble

\* The statistics of arms that differ in no more than they must, and the admission of any two:
\* TLC could not have both at once.
Comparing == INSTANCE Comparison WITH entries <- reported, MaxDifferences <- 0
Admitting == INSTANCE Comparison WITH
  entries <- reported, Pairs <- 1, Exponents <- {0}, Replicates <- 1, MaxEvaluated <- 1

ASSUME MeasurementAssumption ==
  /\ Suite!ManifestAssumption /\ Capsule!CapsuleAssumption
  /\ Comparing!ComparisonAssumption /\ Admitting!ComparisonAssumption

Unused == "unused"

NoSuite == build = Unused /\ intact = Unused /\ lease = Unused /\ machine = Unused /\ state = Unused

NoCapsule ==
  /\ inputs = Unused /\ n = Unused /\ disturbed = Unused /\ leased = Unused /\ locked = Unused
  /\ scratch = Unused /\ exe = Unused /\ hashed = Unused /\ child = Unused /\ ran = Unused /\ undone = Unused
  /\ todo = Unused /\ phases = Unused /\ answers = Unused /\ portable = Unused

NoComparison ==
  /\ differs = Unused /\ contract = Unused /\ sets = Unused /\ error = Unused /\ current = Unused
  /\ overall = Unused /\ reported = Unused

Init ==
  \/ system = "suite" /\ Suite!Init /\ NoCapsule /\ NoComparison
  \/ /\ system = "capsule" /\ Capsule!Init /\ NoSuite /\ NoComparison
     /\ kind = Unused /\ measured = Unused
  \/ /\ \/ system = "comparing" /\ Comparing!Init
        \/ system = "admitting" /\ Admitting!Init
     /\ NoSuite /\ NoCapsule /\ raised = Unused /\ result = Unused /\ trouble = Unused

Next ==
  \/ system = "suite" /\ Suite!Next /\ UNCHANGED <<system, capsuleVars, comparisonVars>>
  \/ system = "capsule" /\ Capsule!Next /\ UNCHANGED <<system, suiteVars, comparisonVars, kind, measured>>
  \/ /\ \/ system = "comparing" /\ Comparing!Next
        \/ system = "admitting" /\ Admitting!Next
     /\ UNCHANGED <<system, suiteVars, capsuleVars, raised, result, trouble>>

Spec == Init /\ [][Next]_vars

\* Processes, builds and coordinates are each interchangeable.
Symmetric == Permutations(Procs) \cup Permutations(Builds) \cup Permutations(Coordinates)

-----------------------------------------------------------------------------
(* Correctness *)

\* At most one protocol has the machine, and it has it inside its run and inside the lease
\* of its build, whatever run_suite and run_capsule are interrupted at.
MachineIsGuarded ==
  system = "suite" => Suite!TypeOK /\ Suite!LocksAreNested /\ Suite!MachineIsExclusive

\* The result of a suite is true to its samples: a success is of the leased build, is accepted
\* by load_finalized_suite_snapshot, and a failure names the sample that failed.
SuiteResultIsTruthful ==
  system = "suite" => Suite!SuccessIsEarned /\ Suite!SuccessIsLoadable /\ Suite!ReasonIsTruthful

\* Each run of a suite or a capsule is decided once, by its owner or by recovery when the
\* owner is dead.
RunsImplementLifecycle ==
  /\ system = "suite" => \A p \in Procs : Suite!Lifecycle(p)!Init
  /\ [][system = "suite" =>
          \A p \in Procs : Suite!Lifecycle(p)!Next \/ UNCHANGED Suite!Lifecycle(p)!vars]_vars

\* The result of a capsule is true to the evidence beside it, the evidence to the executable
\* that ran, but for a swap that the very file undid before the next check, and a validator of the result never refuses what the protocol has come to.
CapsuleResultIsTruthful ==
  system = "capsule" =>
    /\ Capsule!TypeOK /\ Capsule!SuccessIsEarned /\ Capsule!EvidenceIsOfTheExecutable
    /\ Capsule!ResultIsOfTheEvidence /\ Capsule!ResultIsConsistent
    /\ Capsule!NothingUnsafeIsPublished

\* A capsule's children and evidence are inside lease, run and machine lock, which are given
\* back in reverse whatever raises.
CapsuleIsGuarded ==
  [][system = "capsule" => Capsule!ChildIsGuarded /\ Capsule!ReleaseIsOrdered]_vars

\* A comparison is of arms that differ as permitted, and its verdict is one the samples show:
\* strict at every bound, of every coordinate, and with a report whenever it is a success.
ComparisonIsFair ==
  /\ system = "admitting" => Admitting!AdmittedDiffersAsPermitted
  /\ system = "comparing" =>
       /\ Comparing!TypeOK /\ Comparing!VerdictIsShown /\ Comparing!UnanimityDecides
       /\ Comparing!ImprovementIsUnvetoed /\ Comparing!RunHasItsReport
=============================================================================

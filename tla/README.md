# StrixLab in TLA+

StrixLab builds `llama.cpp` variants, runs evaluation suites on them and keeps
the evidence.  Its promises are about what survives: a killed process, a power
failure, two commands at once.  This directory holds TLA+ modules of the parts
that keep those promises, TLC configurations that check them on small instances
and TLAPS proofs for instances of every size.

`tlc -workers 2 -config X.cfg M.tla` checks a configuration, with the module that the
table of runs names, and `tlapm M.tla` the proofs of a module `M_proofs`.

## The system

Sources are in `src/src/strixlab/`; the reference text is `src/docs/design.md`
and `src/docs/autoresearch.md`.

| Component | Code | State it keeps | Operations | Hard behaviour | What makes it correct |
|---|---|---|---|---|---|
| run evidence | `evidence.py`, `records.py`, `locks.py`, `run_paths.py`, `secure_fs.py` | `runs/`: allocation-staging, active trees, records, indexes, locks | `begin_run`, `RunSession` (evidence, finish), `recover_run`, staging sweep | kill between any two effects, unsynced renames, recovery against a live session, torn temps | one outcome per run, no teardown without durable evidence, recovery completes or fails closed with a cause |
| portable evidence | `evidence.py` (`write_portable`), `secret_policy.py` | `portable/`: blobs by content, entries that name them, one writer temp each | write, load, finalize, recover | torn blobs, a `mkdir` that was not synced | an entry has its blob; what was returned is kept; the record holds nothing else |
| campaign controller | `campaigns.py` | `campaigns/<id>/`: frozen inputs, `state.json` | create, resume, inspect | kill inside a phase, drift of inputs, concurrent inspection | slots reserved before use and never returned; promotion is earned; final is final |
| build cache | `build_cache.py`, `build_artifacts.py`, `build_snapshot.py`, `build_identity.py` | materialization journal, canonical record and index, attestation, root | materialize, inspect, lease, clean up, attest | crash-forward of PUBLISHING and CLEANING, lease against cleanup | no lease of an unverified or removed root, canonical record never lost |
| build attempts | `builds.py` | attempt roots with registry and events, recipe index, records, allocation and recipe locks | `begin_build_attempt`, session, settle stale ones, tear down, inspect | two locks, sweeps beside live allocations, a kill between record and registry | a live attempt keeps its root; index, registry and record tell one story |
| cmake engine | `cmake_build.py`, `build_runtime.py` | none of its own | configure, build | child processes | |
| source preparation | `sources.py`, `source_identity.py`, `git_boundary.py` | mirror, worktrees, records, and a registry (event log and `current.json`) per preparation | prepare, lease, inspect, clean up | registry read before the lock, a kill inside a transition, git that outlives its parent, changed worktrees | a lease is of the published candidate; nothing of it goes before that is recorded; a clean-up completes or refuses |
| model cache | `models.py` | hash cache, metadata registry, receipts | verify, inspect, lease | waiting for a lock with a deadline; files edited while they are hashed | a cached digest is of the bytes that bore the identity; each identity is hashed once |
| suite execution | `suites.py`, `capsule_runs.py` | none of its own: a build lease, a run, the machine lock | `run_suite`, `load_finalized_suite_snapshot` | three locks in order, a machine that is taken, a build that changes | a result is published whatever fails, its reason is true, and the reader accepts a success |
| capsule runs | `capsules.py`, `capsule_runs.py`, `executable_identity.py` | phase artifacts, protocol and capsule results, scratch files | `run_capsule`: describe, correctness, benchmark | an executable swapped around a child, failures in every phase | a success is earned in the evidence; the evidence is of the recorded executable |
| capsule snapshots and manifests | `manifests.py`, `capsule_snapshots.py`, ... | none | validation, hashing | | |
| comparison and judge | `capsule_comparison.py`, `judge.py` | none; a comparison run | `compare_runs`, `compare_finalized_capsule_runs` | admission by projections, intervals at zero | what is admitted differs as permitted; the verdict follows the samples |
| bundles | `bundles.py` | stage and destination of an export | export, verify | a record that changes under the export, two exports to one destination | what is published is of the record and verifies; nothing else verifies |
| process supervision | `process.py` | one child, two drains, two spools | `run_process` | exit, overflow and deadline in one poll interval; helpers that keep pipes open | a clean result is complete; spools are whole or absent; the call comes back |
| adapters | `adapters/llama_server.py`, `llama_bench.py`, `backend_ops.py` | one server, its collector; the evidence of one case | `run_*_case` | a port anyone may take, a server that hangs, inputs that drift | a sample is of the inputs it names; the gate fails closed; no server outlives its case |
| machine, doctor, CLI, configuration | the rest | none | probes, parsing, rendering | | |

A campaign calls the build side, the model cache and `run_suite`.  A suite run
holds a build lease, the machine lock and a `RunSession`.  Every component that
persists takes an advisory `flock` (`exclusive_lock`, which waits only in the model
cache) around its operation, publishes files by writing a temp and renaming it, and leaves it
to a later command to finish what a killed one left behind.

## Modules

| Module | Models |
|---|---|
| `RunLifecycle` | the abstract specification: a run is opened once, decided at most once, sealed with that outcome, closed only when sealed durably |
| `RunEvidence` | the run protocol of `evidence.py` on the file system; implements `RunLifecycle` |
| `RunEvidence_proofs` | its theorems and their proofs, the refinement among them |
| `Campaign` | `create_campaign`, `resume_campaign` and `inspect_campaign` of `campaigns.py` |
| `Campaign_proofs` | its theorems and their proofs |
| `MCCampaign` | its plans for TLC |
| `BuildLifecycle` | the abstract specification: one canonical record per build ID, attested before the tree is given up |
| `BuildCache` | the materialization of one build ID in `build_cache.py`, with the part of `cmake_build.py` and `builds.py` that drives it; implements `BuildLifecycle` |
| `BuildCache_proofs` | its theorems and their proofs, the refinement among them |
| `SourcePreparation` | one preparation of `sources.py`: registry, worktree, git's administrative entry, stage and record |
| `SourcePreparation_proofs` | its theorems and their proofs |
| `BuildAttempts` | `begin_build_attempt` and its session in `builds.py`, attempts of several recipes; implements `RunLifecycle` for each attempt |
| `BuildAttempts_proofs` | its theorems and their proofs, the refinement among them |
| `MCBuildAttempts` | its processes and recipes for TLC, with their symmetry |
| `PortableEvidence` | the portable evidence of one run, which `RunEvidence` keeps as one variable |
| `ModelCache` | the registry of one model in `models.py`, with the waiting lock of `locks.py` |
| `ModelCache_proofs` | its theorems and their proofs |
| `ProcessCapture` | `run_process` of `process.py` |
| `LlamaServer` | one case of `adapters/llama_server.py` |
| `AdapterCase` | one case of `adapters/backend_ops.py` or `adapters/llama_bench.py` |
| `SampleCategories` | the category `suites.py` gives a sample, shared by `AdapterCase` and `SuiteRun` |
| `SuiteRun` | `run_suite`, `run_capsule` and their locks, and the reader of a finalized suite; implements `RunLifecycle` for each run |
| `CapsuleRun` | one capsule run with the protocol of `capsules.py` |
| `Bundle` | export and verification in `bundles.py` |
| `Comparison` | `judge.py` and `capsule_comparison.py` |
| `MCMeasurement` | what measures: `SuiteRun`, `CapsuleRun`, `Comparison` twice |
| `Measurement_proofs` | its theorems and their proofs: of suites, the refinement among them, and of the protocol of a capsule |
| `MCOperations` | what runs children and publishes what they left: `ProcessCapture`, `LlamaServer`, `AdapterCase`, `PortableEvidence`, `Bundle` |
| `Operations_proofs` | its theorems and their proofs |

Each of `MCMeasurement` and `MCOperations` instantiates several systems that share no state, and a
behaviour is one of one of them: `system` says of which, a variable the others do
not have is `Unused`, and each property says of which systems it speaks.  One
instance of TLC then checks those a configuration names (`Systems`), with the constants of each.  The modules with
larger state spaces are checked by themselves.

### RunEvidence

One run id, any number of processes.  An action is one durable effect (a file
created, a rename, an fsync, an unlink), so a fault can come between any two.
`pc` says where a process is, `known` what `RunStatusV1` it holds in memory
(`RunSession._status` is never re-read).  On disk there are the allocation stage,
the active tree (`events`, `status`, evidence files, checksums, and the writer
temps of each), the record and the index.  `volatile` holds the directory entries
that have been renamed and not yet fsynced.

* `Begin` ... `ActivateSync` are `begin_run`; `EventCreate` ... `StatusSync` are
  one `_transition`, used by allocation, by finalization and by recovery;
  `LocalCreate` ... `WritePortable` are the session's evidence; `Finish` enters
  finalization, whose steps run from `ClearControlTemps` to `GoneSync`;
  `Recover` and the actions after it are `recover_run`; `SweepList` ...
  `RemoveStage` are `_reconcile_allocation_staging`.
* Every error path of the recovery is an action of its own (`RefuseEntry`,
  `RefuseChain`, `RefuseControl`, `RefusePortable`, `RefuseChecksums`,
  `RefuseStage`, `ReportBusy`); `refused` records the reasons as a ghost.
* `Kill` drops a process with its lock, `Exit` ends a process that holds none,
  `ErrorInWrite` and `Error` raise in the middle of an operation, `PowerLoss`
  drops every process and any subset of the unsynced entries.

Abstractions.  An event is its state, and its place in the journal stands for its
hash links.  Content is not modelled beyond what the verifiers compare: the
checksums of a tree are the payload they were computed from.  An unsynced
directory entry survives a power failure or is lost as a whole.  Temps that a
kill leaves in `records/` and `indexes/` staging are ignored, as the code ignores
them.  A path whose write failed is not written again.  Unlink and fsync of a
dropped event temp are one step.  `portable` is `clean`, `orphan` (a blob temp
that is whole) or `torn`.

### Campaign

One campaign id.  An action is a `_save` that changes what a later step reads, or
a call into a lower layer.  Replacement and fsync of `state.json` are one step
(`_save` returns after both); saves that only move `phase.stage` are left out.  A
build is a number and a suite run is its number in the order of execution, so
that "the build that was screened" and "a fresh run" can be told.  A phase's
evidence is its build and its suite runs.  Calls that raise do so with or
without having run (`RunSuiteRaises`), and `run_suite` may return the id of an
older run (`RunSuiteStale`).  `inputs` is changed or put back by the environment;
`_check_drift` looks at it where the code does: before a phase is reserved
(`AdmitDrifted`: nothing is spent) and before each run (`RunDrifted`: the phase
fails and its slots are spent).  `inspect_campaign` is seen as the lock it holds
on one linked run at a time (`InspectRun`, `InspectEnd`).

### BuildCache

One build ID and the attempts of its recipe.  `journal` is the last event of the
materialization journal, `root` the directory `materialized/<build id>` with its
inode, ownership marker and artifacts; `record`, `index`, `attestation`,
`staged` and `evidence` are the documents, each standing for the attempt that
wrote it.

* `Begin`, `Open`, `Miss`, `Hit`, `Refuse` are `begin_build_attempt`,
  `build_cache_session` and `lookup`; `EnterDiscarding`, `StartRemoval`, `Settle`
  and the publishing steps at `"lookup"` are `_recover_incomplete` and
  `_complete_publishing`, one durable effect at a time.
* `BeginMaterialization` ... `Build` and `StageRecord` ... `Rehydrated` are
  `_execute_leased_build` with the session's methods; `StartFinalizing` ...
  `AttestBusy` the finalization of the attempt and
  `publish_build_attestation`, which takes the build-ID lock a second time.
* `Inspect`, `Lease`, `StartCleaning`, `FinishCleaning`, `Release` are
  `inspect_build`, `lease_build` and `cleanup_build`.
* `Unlink` and `Removed` are `shutil.rmtree`, which a kill may stop with the
  marker already gone.  `RaiseAndUndo`, `RaiseUnmarked`, `Raise` tell the windows of
  the failure handler apart: it removes the root only where it knows its owner
  and publication has not begun.

Abstractions.  A journal transition is one step, since every reader first adopts
an event that `current.json` does not show yet.  The recipe lock is held from
`begin_build_attempt` to the end, so there is one attempt in progress and its
number is `Len(attempts)`.  The build-ID lock is never waited for: a held one
ends the attempt (`OpenBusy`, `AttestBusy`) or refuses the command.  The inode of
a removed root is used again, since identity is compared by inode.  `flushed`
says that `fsync_tree` has returned; a power failure takes from an unflushed root
what it likes.  An error in the finalization of an attempt that has failed is
left out.  `LoseStaged` is the environment.

### SourcePreparation

One preparation ID of one source.  `log` and `current` are its registry,
`known` and `evidence` what a process read of it; `tree` is the worktree, `admin`
git's entry for it in the mirror, and `entries` the directory `worktrees/` that
git makes with the first entry and removes with the last.

* `Prepare` ... `PublishRecord` are `prepare_source`; each transition is
  `RecordEvent` and `ReplaceCurrent`, two durable effects of `_transition`, used
  by all operations with `Target` and `After` saying to what it leads and where
  the caller goes on.
* `LoadForLease`, `Lease`, `LeaseRefused`, `EndLease` are `lease_source`, which
  loads the registry a second time once it has the lock (`LeasedRegistry`).
* `LoadForCleanup` ... `VerifyRemoval` are `cleanup_source`, which does not.
  `MayClean` is what it checks before its first event; `seen` is what it found,
  and decides which removals it makes.  Each removal that finds something else
  raises (`CleanupFails`).
* `Raise` is a call that raises for a reason of its own; inside the `try` of
  `prepare_source` it leads to `FAILED`, recorded from the registry in memory.
  `Kill` drops the process and the lock; the git command it waited for may go on
  (`OrphanAdds`, `OrphanRemoves`), since `git_boundary.py` starts it in a session
  of its own.  `Halfway` says what either leaves of a file being written or of a
  directory being removed.
* `Edit` is the user of the worktree, `Sibling` another preparation in the same
  mirror.

Abstractions.  The worktree is `base`, `candidate`, `changed` or `torn` (its
`.git` file gone); which file was changed does not matter, since the code compares
all of them with the evidence.  Fetching and verifying the pinned commit is one
step.  `scratch` directories are private to a process, and the refs of a
quarantined fetch are deleted on the way out; neither is read by anyone else.
`inspect_source` writes nothing and takes no lock.  Inodes are not modelled: a
preparation ID is drawn once, and nothing makes its worktree a second time.
Of the git commands a killed parent can leave running only `worktree add` and
`worktree remove` are modelled; the others are taken to end with it.  Power
failures are left out: git's own files and the removals are not synced by this
code, so what a power failure leaves of them is git's and the file system's to say.

### BuildAttempts

Two processes and the attempts of one recipe or two.  `Begin` ... `Allocate` are
`begin_build_attempt`: the orphan sweep under the allocation lock, the settling of
stale attempts under the recipe lock, the teardowns the index still owes, the
allocation.  The session and its `finally` end in `_finalize_attempt`; inspection
is what `InspectionAccepts` asks of a recipe when a call is over.

Abstractions.  A registry is its state and outcome.  Temps that a kill leaves in
`events/`, in the indexes or beside a record are read by nobody and left out, as
are the `private` subdirectory and the other evidence.  `rmtree` takes entries in
any order; of the events it matters whether the last, one before it or all are
gone.  The sweep of one root is one step.  A begin that meets the bound on
attempts ends as if the recipe were busy.

### PortableEvidence

One run.  `Call` is `write_portable` with its arguments, `Load` ... `SyncLoad` the
load of entries every operation starts with, `CreateBlob` ... `Return` the two
publications, `End`, `Recover`, `ListBlobs` ... `Settle` finalization and recovery.
`PowerFailure` reverts each directory, independently, to any state since its last
`fsync`.  The checks of role, path, media type, payload and secrets are one
condition of the arguments (`fits`).  When the `fsync` after a `mkdir` fails, the
directory is there and found by the next call, which does not sync it: `unsure` keeps
such directories, until one made beside them is synced, and `lost` says that a power
failure has taken one, with all in it.

### ModelCache

One model with a primary file and a sidecar, and processes that verify, observe or
lease it.  The identity of a file is a stamp that every change moves, as `ctime`
does; that two changes within one tick of the file system's clock have different
`ctime`s is assumed.  `history` says what bytes bore a stamp.  `tool` is the pinned
inspector; one that was changed and put back between two looks (`restored`) is not
detected by the code and exempted from `ReceiptIsOfOneContent`.  `Acquire` and
`TimeOut` are the wait of `exclusive_lock`, after which a verifier looks at the
cache again.

### ProcessCapture

One call of `run_process`: the child, a helper it may leave behind (in its group
or out of it, with pipes it keeps open), the two drain threads, the poll loop,
termination by SIGTERM and SIGKILL, and the spools.  An exception (a second Ctrl-C is
one) may come anywhere: in the poll loop, the termination or the wait (`Interrupt`)
it leaves a child that is not killed yet running and joins the drains without a
deadline, as the code does; before the loop, while threads are started or a spool is
opened, or in the `finally` (`CutBefore`, `OpenRefused`, `CutAfter`, which set `cut`),
nothing is cleaned up.  An unlink of a spool's name may fail, which the code suppresses:
`left`, `named` and `both` are the names that stay.  The child keeps its pipes open to
its end (a helper may keep them longer), SIGKILL ends a process, and a kill
of StrixLab itself is left to the modules with state on disk.

### LlamaServer, AdapterCase, SampleCategories

`LlamaServer` follows one case from the probes to the sample.  Another process may
take the port before the server binds it, and may answer the health request;
`SuccessIsOurs` is therefore about servers that had bound the port when they were
found ready.  SIGTERM is handled once the server serves.  An exception while the server
is watched shuts it down (`Raise`); one between `Popen` and the `try`, such as that of
`collector.start()` (`CutBefore`), or an interrupt in the shutdown (`CutShutdown`) does
not, and SIGKILL may fail (`Kill`).  `AdapterCase` is the way
the two other adapters share: probes, one child, evidence, one sample.  A text is
known by what a parser finds in it and equal texts are equal bytes, which
`write_portable` tells apart by media type.  What `run_process` returns is what
`ProcessCapture` says it may.  The binary or the model may drift at any time (`Drift`) and
come back as the same file when its directory was moved away and back (`Restore`); `foul`
are the children that ran in between and whose drift was not undone.  `process.json` and
`attempt.json` are left out.

### SuiteRun

Two processes, each with one run of a suite or a capsule.  `SuiteRun` has the
locks (build lease, machine), the schedule, the reasons, publication of the
result, and `Loads`, the reader that recomputes everything.  A run is what
`RunLifecycle` says of it; `Recover` is another command's recovery of a dead
owner's run.  Children are in sessions of their own: one that outlives a killed owner may
go on while the machine is free, so `MachineIsExclusive` is about the owners.  A build
changed and restored between two looks is not modelled.

### CapsuleRun

One capsule run.  The executable has an identity and a content; `Swap` is another
process of the owner.  A copy put back is another file, but a file whose directory is
moved away and back has the device, inode and times it had (`executable_identity.py:93`):
`undone` are the operations whose child ran meanwhile.  Each of the three
children gets a request and returns anything a child may print, exit with, or be
cut off in.  `Reason` is the order in which the protocol judges, `Consistent` the
validators of the models of the result.  Equal texts are equal bytes; the sealed
`memfd` of a request reads back as it was written; the lease compares content
only; a refused machine lock is a nondeterministic choice (the competition is in
`SuiteRun`) and the end of the run that of `RunEvidence`.  `incomplete-capture` is
a reason no behaviour has, since a missing stream raises first.

### Bundle

Two exports of one run to one destination.  `ChangeRecord` is a record that changes
under them, `ChangeBundle` a bundle that loses a file, gets one of any run's record, or
has its manifest exchanged for that of another run's bundle.  Making the stage and the
`fsync` after it, and the removal of a stage, may fail and leave it (`Error`, `CleanUp`).
A digest is the content it is taken of.  The owner is the
trust boundary: links, modes and swapped inodes are left out.  Members are written in
groups.  The checks accept a record whose last portable entries are missing, so
`VerifiedIsGenuine` and `PublishedIsOfTheRecord` are about a prefix of them.

### Comparison

One comparison of two arms, suite runs or capsule runs.  What two arms may differ in
are groups of fields, and `CapsuleAdmitted` is stated as the code states it, by
projections that must be equal.  A sample is a power of two, so its logarithm is
an integer; sums stand for means and a quantile is multiplied by forty, so every
statistic is an exact integer.  Positions of the bootstrap come from a digest and
may be anything, so a replicate is any choice with replacement.  A floating-point
overflow is a nondeterministic failure (`Overflow`); rounding and the text of the
report are left out, as is the minimum of five pairs, which a small instance could
not have.  A `succeed` that raises behind its journal entry (`judge.py:692`) is the
business of `RunEvidence`.  `MCMeasurement` has two comparisons: one of arms that differ in no more than
they must, for the statistics, and one of any two arms with a single pair, for the
admission.

## Runs

| Run | Module | Question | Bounds |
|---|---|---|---|
| `run_evidence` | `RunEvidence` | safety, the refinement of `RunLifecycle`, and the end of a dead owner's run | 2 process slots, one evidence file at the root and one nested, 1 kill, 1 power failure, 1 I/O error |
| `campaign` | `MCCampaign` | safety of a campaign and its end | 2 candidates, 10 slots, 1 process slot, 2 faults out of 1 crash, 1 edit of inputs, 1 raising call |
| `build_cache` | `BuildCache` | safety, the refinement of `BuildLifecycle`, and lookups that succeed once faults have stopped | 2 process slots, 2 inodes, 3 attempts, 2 crashes, 1 error, staging lost once |
| `source` | `SourcePreparation` | safety of a preparation, and a forced clean-up that, repeated, comes to an end | 2 process slots, 1 fault (a kill, an error or an edit), no clean-up begun behind 7 events |
| `attempts` | `MCBuildAttempts` | safety and the refinement of `RunLifecycle` per attempt | 2 processes, 2 recipes, 2 attempts, 1 kill or error |
| `model_cache` | `ModelCache` | safety of a model's registry, and a receipt for who verifies again and again | 2 processes, 1 trouble: an edit, a replacement, a changed inspector, a kill, a power failure or an error |
| `measurement` | `MCMeasurement` | suites and capsules competing for the machine; the protocol of a capsule; comparisons | 2 runs, 2 builds, 1 prompt, 2 cases, 1 warm-up, 2 windows, 1 trouble; a capsule of 2 coordinates, all six kinds of output, 2 troubles; 3 pairs of 2 magnitudes (alike or four times apart), 2 replicates, 2 coordinates; up to 5 groups of fields that differ |
| `children` | `MCOperations` | `run_process`, a server case, a case of the other adapters, portable evidence | 2 bytes a stream, limits 1 and 3, 1 failing call or exception; 2 troubles of a server, whose pipes hold one byte; 2 operations asked for, 1 other, 2 rows; 6 offers over 3 blobs with limits that bind, 2 troubles |
| `exports` | `MCOperations` | exports to one destination, and verification | 2 exporters, 3 runs to take files from, 1 change, 1 trouble |
| `overlapping_cleanup` | `SourcePreparation` | violation: `test_sources.py:882` | 2 process slots, 8 events, no fault at all |
| `campaign_inspection` | `MCCampaign` | violation: `campaigns.py:409-411` | 2 process slots, 1 candidate, no fault at all |
| `attempts_recipes` | `MCBuildAttempts` | violation: `test_builds.py:421` | 2 recipes, 2 attempts, no fault at all |

Why the bounds are enough.  The code has one lock per run or campaign, so at most
one process is inside and a second slot is what recovery, the sweep and a
contender need; slots are reused, so more processes come in sequence.  A campaign
has nothing but its lock for a second process to meet (a refused resume changes
nothing), which is why one slot does there, and two only where the second inspects.  A
kill, then a power failure, is the least that separates journal and projection of a
run; a kill, then an error in the recovery that follows, leaves the two status temps
that are refused for good.  Only whether a path is at the root or nested matters to
the code, so one of each.  Ten slots of a campaign are a calibration (2) and two
candidate phases (4 + 4), so a second candidate, or a confirmation after it, meets the
end of the budget; a crash in a phase may be followed by an edit or a call that
raises before the resume, or the other way round.  For a build ID three attempts are
one that fails, its recovery, and one that finds what either left, or a rehydration
after a clean-up; two inodes let a new root have the number of the old one or
another.  For a preparation two slots are the one with the lock and one that has read
the registry before it gets it; seven events are a preparation (five) and a clean-up
that stops and is begun again, and an eighth the event that breaks the log.

In the other modules one actor does the work and the bounds count what may go
wrong.  Two attempts of two recipes are one that is settled or torn down and one
that looks around meanwhile.  For portable evidence six offers share blobs under
one media type and two, and the limits on entries, bytes and files each refuse
one; two troubles are a fault and another in what settles it.  The hash cache needs a
process that hashes and one that waits, and a replacement makes a file different while
a lease is held.  A stream of two bytes with a limit of one is cut inside, and one
with a limit of three is not.  Two of whatever a suite or a scenario lists tell the
order in which it goes through them.  Of three pairs the median is one and the
deviations may be other than zero, and two replicates are the least between which
a quantile lies; more replicates only narrow the interval.  Three groups of fields
reach every combination of a permitted difference with one that is not.

### Properties

Each property of a run groups named parts about one promise; every part is stated in
words at its definition.

| Run | Property | Parts |
|---|---|---|
| `run_evidence` | `RecordIsSound` | `TypeOK`, `TeardownIsSafe`, `VerifierAccepts` |
| | `OwnersAreUndisturbed` | `KnownIsCurrent`, `SessionIsUndisturbed`, `StageIsTheAllocators`, `InterruptedOnlyWhenDead` |
| | `FaultsAreContained` | `RecordStraysAreNested`, `RefusalsHaveACause` |
| | `ImplementsLifecycle` | `RunLifecycle!Spec`, `IdentityIsNotReissued` |
| | `DeadRunIsFinalized` | liveness |
| `campaign` | `StateIsSound` | `TypeOK`, `SavedStateLoads`, `RunsAreReserved` |
| | `PromotionIsEarned` | `PhasesAreEarned`, `ImprovementIsConfirmed` |
| | `HistoryIsFinal` | `HistoryIsKept`, `FinalIsFinal` |
| | `CampaignEnds` | liveness |
| `build_cache` | `BuildIsSound` | `TypeOK`, `LeaseIsSound`, `AttestedBySuccess`, `CleanedIsAttested` |
| | `RecoveryIsPossible` | `LookupIsAnswered`, `PublicationIsCompletable` |
| | `PublishedIsKept` | `CanonicalIsKept`, `PublishedRootIsKept` |
| | `ImplementsBuildLifecycle`, `LookupCompletes` | refinement; liveness |
| `source` | `PreparationIsSound` | `TypeOK`, `LeaseIsUndisturbed`, `PublishedIsWhole`, `EvidenceIsBound` |
| | `LeftoversAreKnown` | `CleanedIsGone`, `LogBreaksAreKnown` |
| | `ChangesAreKept`, `CleanupConverges` | action property; liveness |
| `attempts` | `AttemptsAreSound` | `TypeOK`, `LiveRootIsKept`, `IndexIsBacked`, `InterruptedOnlyWhenDead` |
| | `CallsEndWell` | `InspectionAccepts`, `RefusalsHaveACause` |
| | `ImplementsLifecycle` | refinement, one per attempt |
| `model_cache` | `CacheIsSound` | `TypeOK`, `CacheIsTrue`, `HashedOnce` |
| | `ReceiptsAreReliable` | `ReceiptIsOfOneContent`, `ReceiptsAreKept` |
| | `LeaseIsOfReceipt`, `ModelIsVerified` | action property; liveness |
| `measurement` | `MachineIsGuarded` | of `SuiteRun`: `TypeOK`, `LocksAreNested`, `MachineIsExclusive` |
| | `SuiteResultIsTruthful` | `SuccessIsEarned`, `SuccessIsLoadable`, `ReasonIsTruthful` |
| | `RunsImplementLifecycle` | refinement, one per run |
| | `CapsuleResultIsTruthful` | of `CapsuleRun`: `TypeOK`, `SuccessIsEarned`, `EvidenceIsOfTheExecutable`, `ResultIsOfTheEvidence`, `ResultIsConsistent`, `NothingUnsafeIsPublished` |
| | `CapsuleIsGuarded` | `ChildIsGuarded`, `ReleaseIsOrdered` |
| | `ComparisonIsFair` | of `Comparison`: `TypeOK`, `VerdictIsShown`, `UnanimityDecides`, `ImprovementIsUnvetoed`, `RunHasItsReport`, `AdmittedDiffersAsPermitted` |
| `children` | `ResultIsTruthful` | of `ProcessCapture`: `TypeOK`, `CleanResultIsComplete`, `LimitIsReported` |
| | `SpoolsAreWholeOrGone` | `SpoolsAreSettled`, `PublishedIsWhole` |
| | `NothingIsLeftAlive` | `GroupDiesWithTimeout`; of `LlamaServer`: `ServerDoesNotOutlive` |
| | `ServerSampleIsTruthful` | `TypeOK`, `SuccessIsOurs`, `SampleIsConsistent`, `CaptureIsWhole`, `StatusIsFirstFailure` |
| | `CaseSampleIsTruthful` | of `AdapterCase`: `TypeOK`, `SampleIsOfIntactInputs`, `SampleIsConsistent`, `PassIsEarned`, `MeasurementIsEarned`, `OutcomesHaveSamples` |
| | `PortableEvidenceIsKept` | of `PortableEvidence`: `TypeOK`, `PolicyHolds`, `EntriesAreBacked`, `CommittedIsKept` |
| | `PortableEvidenceIsSettled` | `RecordIsExact`, `RefusalsHaveACause` |
| `exports` | `BundleIsGenuine` | of `Bundle`: `TypeOK`, `PublishedIsOfTheRecord`, `PublishedVerifies`, `VerifiedIsGenuine` |
| | `ExportsAreApart` | `RaisedLeavesNothing`, `DestinationIsKept` |

### Fairness

A process in an operation goes on (weak fairness of each process's steps other
than faults and the session's own, which no one promises to end).  Recovery and
resumption are commands a user or a later `begin_run` issues again and again;
they take the lock without waiting, so "again and again" is strong fairness: an
attempt that meets a held lock is refused and repeated.  Nothing is assumed of
faults, which the bounds end.  `DeadRunIsFinalized` is silent about the states
that recovery refuses for good (`Irrecoverable`); those are what
`RefusalsHaveACause` pins to faults.  `CampaignEnds` is silent while the inputs
stay changed, since every resume is then refused.

`LookupCompletes` assumes that an operation once begun runs on (`Work`), and that
`rmtree` comes to its last step (`Removed`), which weak fairness of `Work` alone
would let it put off.  It asks nothing of a half root, which lookup refuses, and
nothing before the faults have stopped.

`CleanupConverges` assumes that an operation once begun runs on, that a forced
clean-up is asked for again and again while the lock is free (a user repeats a
command that failed, and nothing else starts before it: a registry read earlier
is what `overlapping_cleanup` is about), and that one of the attempts finds the
lock free.  It is silent (`Recoverable`) about what no clean-up accepts: a registry
that does not load, a worktree no registry owns, one whose `worktrees/` git has
removed, and one of which a part is gone on both sides.  Those are reached by one
kill each, and nothing in the code leads out of them.

`ModelIsVerified` assumes that a process in an operation goes on, and that
verification is asked for again and again and gets the lock in one of the attempts.

The other modules are checked for safety: what is to happen there in the end is the
end of a single call, which takes finitely many steps of its own, or of a run, which
`DeadRunIsFinalized` is about.

`CHECK_DEADLOCK FALSE` stands where the system really may stop.  A campaign whose
inputs stay changed, or that was killed in `create_campaign`, leaves no step to take.
When the attempts of a build are used up, nothing need happen.  A preparation whose
registry does not load refuses every operation.  Of a model whose files do not hold
what the manifest pins nothing more can be had when no edit is left.  A suite run, a
capsule or a comparison is over when its last step is taken, and nothing need follow.

## What the violations show

* `RegistryStaysLoadable`: `cleanup_source` reads the registry and the evidence
  before it takes the source lock, and not again.  One that read them while a
  preparation was at work records `CLEANUP_STARTED` from a state the log has left,
  which no later load accepts, and removes the published candidate without
  comparing it, since there was no evidence when it looked.
* `InspectionIsHarmless`: `inspect_campaign` inspects linked runs under their own
  locks, and so does the comparison of the phase in progress; neither waits.  The
  phase that meets the inspection is recorded as failed, and its slots are spent.
* `RecipesAreApart`: an attempt of one recipe raises because one of another recipe
  is torn down while it looks around: the sweep looks at a root it has listed, and the
  stale pass at a registry it has seen, without a guard for either to be gone.

### Where the models follow the code and not its documents

The passing properties below are weaker than a sentence of the documents, by an
exception that names what the code does.  No run is spent on them.

* `RecordStraysAreNested`: control temps are reconciled at the run root only
  (`design.md:593` speaks of the run).  A process killed between creating and renaming
  an evidence file below a subdirectory leaves its temp there; recovery hashes it into
  `checksums.sha256`, and the sealed record contains it.  Its verifier accepts that.
* `HalfRoot` in `LookupIsAnswered`: a clean-up killed after `rmtree` has unlinked the
  ownership marker leaves a root that recovery refuses to remove
  (`test_build_cache.py:839` has a killed clean-up finished).  So does a build whose
  marker could not be written: its failure handler has no owner to remove by.
* `RefusalsHaveACause` of `RunEvidence`: a kill in the projection of `status.json`
  leaves one temp, and a fault in the projection of the recovery that follows a second;
  more than one is refused for good.
* `RefusalsHaveACause` of `BuildAttempts`: a temp beside the registry makes a published
  record divergent (`test_builds.py:118`); a teardown cut short after the registry leaves a
  root nobody can read (`design.md:40`).
* `EvidenceIsOfTheExecutable` and `SuccessIsEarned` of `CapsuleRun`, and
  `SampleIsOfIntactInputs`: a swap between a check and the start of the child that the
  very file undoes before the next check leaves no trace.  "Repeated path-identity checks
  narrow but do not eliminate the small check-to-exec race"
  (`executable_identity.py:8-10`); the exception is that race and no more, since a copy
  put back is caught.
* `SpoolsAreSettled`: an unlink that fails is suppressed (`process.py:223`, `266`), so
  each leaves one name of a spool's file, which the property counts.  It is silent about
  a call `cut` by an exception before the poll loop or in the `finally`
  (`process.py:444-458`), which leaves temporary files where they are.
* `GroupDiesWithTimeout` and `ServerDoesNotOutlive`: an exception in the grace after
  SIGTERM (`process.py:155`) skips SIGKILL, and the joins that follow wait for the child,
  unless no stream of it can be read on.  An exception before the loop or
  in the `finally`, one between the server's `Popen` and its `try`
  (`llama_server.py:984`), an interrupt in the shutdown (`1134`), which is no `OSError`,
  and a SIGKILL that fails leave a process alive.  The properties name these and no others.
* `GroupDiesWithTimeout` and `PublishedIsWhole` of `ProcessCapture`: a child that crosses
  its hard limit and exits before the poll loop looks leaves the rest of its group alive
  (`process.py:338`); when reading a stream fails, its spool is published without the rest
  (`process.py:341`).
* `OutcomesHaveSamples`: two texts with the same bytes and different media types make
  `write_portable` refuse the second, and the case raises without a sample
  (`design.md:808`).
* `RefusalsHaveACause` of `PortableEvidence`: a write that fails leaves its temp torn, and
  its session is never finalized (`design.md:585`).
* `CommittedIsKept` and `EntriesAreBacked`: when the `fsync` after a `mkdir` fails
  (`evidence.py:646`), a later call finds the directory and does not sync it again; the
  power failure that takes it (`lost`) takes entries, or their blobs, of calls that have
  returned ("durable", `evidence.py:1162`).
* `RaisedLeavesNothing`: an `fsync` that fails right after the `mkdir` of the stage
  (`bundles.py:734`) is outside the `try` that removes it, the removal may fail in silence
  (`762`), and what fails after the rename (`757`) leaves the destination.
* `PublishedIsOfTheRecord`: a bundle may lack the last portable entries of its record
  (`design.md:642`).
* `PublishedVerifies`: a bundle whose members leave no room for its manifest in
  `MaxAggregate` is published and does not verify, as only the verifier counts the manifest
  (`bundles.py:282`).
* `ResultIsConsistent` of `CapsuleRun` says nothing of a run that has no protocol result: a
  child that fails and prints a control byte, and one that overruns its limit while it is
  terminated (`Overruns`), end it without one (`design.md:250`).

## Proofs

Eight modules prove every safety property, action property and refinement that the runs
`run_evidence`, `campaign`, `build_cache`, `source`, `attempts`, `model_cache`,
`measurement`, `children` and `exports` check, for every value of the constants that the named
assumptions of each module allow: who holds a free lock is no process, names are told from
labels, bounds are naturals.  The bounds stay in the theorems as arbitrary naturals.

None of the properties is inductive.  Each module states an invariant `IInv`, whose parts
have one lemma each with one step per action, and `Invariance` combines them
(`Measurement_proofs` and `Operations_proofs` have one for each of their systems).

### RunEvidence

`RecordSound`, `OwnersKept`, `FaultsContained` and `LifecycleKept` state the properties
`RecordIsSound`, `OwnersAreUndisturbed`, `FaultsAreContained` and `ImplementsLifecycle`
of the run; their parts have theorems of their own.  The argument adds what each step
relies on:

* `LockInv` and `WritingInv`: whoever is in an operation holds the lock, and what
  it is about to rename exists;
* `FreshInv`: a tree that is not live carries nothing of a later step, so an
  undone allocation starts over;
* `JournalInv`: what the journal, its temp and the status are at each step of the
  process that holds the lock, with recovery (which may adopt an orphan event)
  and the session (which may not meet one) told apart;
* `FinalInv`: finalization works on a whole chain with a terminal status and with
  its temps cleared, so the checksums it writes or accepts are of this tree;
* `SealInv`: what is published is verified, the record is durable before there is
  an index, and both are before the tree is touched;
* `StageIsTheAllocators` itself, and `DeadInv`: `INTERRUPTED` is in writing only
  when the owner is dead, and no owner comes back;
* `OwnerInv`: from the first file of its stage to the end of its session the owner is
  alive and nothing of a later step is on disk (`SessionIsUndisturbed`);
* `FaultInv`, which counts faults along a behaviour.  A temp is of a fault or of the
  step under way (`TraceInv`); the journal is a legal history whatever power took, and
  runs ahead of its status by more than one event only if power was lost upon another
  fault (`OrderInv`); without a fault only the step under way leaves something to be
  synced (`CleanInv`), from which it follows that a single power failure cannot take
  back part of what checksums (`SumsInv`) or a record (`GoneInv`) speak of.  `RefusedStep`
  then needs one case per refusal;
* `PendingInv`: a record that is not yet durable is of the tree as it is.  With it a
  power failure that makes a record durable seals the run with the outcome it was
  decided for.  `SealedOn`, `OpenOn` and `SealsNow` are the moves a run can make as
  `RunLifecycle` tells it, and `MovesStep` finds one of them, or none, in each action.

### BuildCache

`BuildSound`, `RecoveryPossible`, `PublishedKept` and `Implementation` state
`BuildIsSound`, `RecoveryIsPossible`, `PublishedIsKept` and `ImplementsBuildLifecycle`.
The steps of the argument:

* `AttemptsStep`: no step takes back an attempt or changes an outcome, so what was
  once verified of a producer or an attestor stays so;
* `LockInv`, `AttemptInv`: who holds which lock, and that only the last attempt is
  open and nothing on disk bears its number before it builds;
* `BindInv`, `StepInv`: what the journal binds in each state, and which state each
  step of a process may count on;
* `RootInv`, `StagedInv`: the root is owned, whole and flushed from the step
  before `PUBLISHING` on, and the staged bytes are there unless lost;
* `AttestInv`: the states in which a root is given up have an attestation, and
  who comes to attest finds the build `PRESENT`, unless it is attested already;
* `FaultInv`: without a fault the journal is unsettled only while a process is at
  work, which is why a refused half root has a fault behind it;
* `LeaseHeld`: nothing a lease is about changes while it is held, though attempts
  outside the build-ID lock go on.

`LookupAnswered` is then a case split on the state of the journal,
`AbstractStep` one on the actions.

### SourcePreparation

`PreparationSound`, `LeftoversKnown` and `ChangesSafety` state `PreparationIsSound`,
`LeftoversAreKnown` and `ChangesAreKept`.  What a step needs to know of the others:

* `LockInv`, `LogInv`, `FreshInv`: who is past the lock holds it, and there is a
  log, ended by the event in writing, from the allocation on;
* `MakingInv`, `MadeInv`, `RemovingInv`: a preparation on its way to `PUBLISHED`
  is alone and has its worktree whole; nothing is removed unless `current.json`
  says `CLEANUP_STARTED`, also by a git that outlived its parent.  With them
  `PublishedIsWhole` and `LeaseIsUndisturbed` are inductive;
* `HistoryInv`: without a fault the log, `current.json` and what the holder of
  the lock has in memory agree, so only a clean-up that read the registry before
  the lock breaks the chain (`LogBreaksAreKnown`);
* `EarlyInv`, `FailedInv`: what can have been read of a preparation still at work
  is a state before `PUBLISHED`, and a failure after the event `PUBLISHED` is
  recorded from such a state, which breaks the chain for good.  So along a chain
  with `PUBLISHED` in it, who knows of that knows of the digest (`BoundInv`,
  which gives `EvidenceIsBound`);
* `OwnerInv`, `GoneInv`: ownership is bound with `WORKTREE_CREATED`, a git that
  goes on adding a worktree is of a preparation that never came so far, and what
  was verified to be gone stays gone until `CLEANED` is recorded, which gives
  `CleanedIsGone`;
* `EvidenceInv`: who read no evidence of a worktree that is owned read the
  registry before there was any.  `ChangesStep` gets the action property
  `ChangesAreKept` from it.

### Campaign

`StateSound`, `PromotionEarned` and `HistoryKept` state `StateIsSound`,
`PromotionIsEarned` and `HistoryIsFinal`.

* `Earned` and `Evidenced` say of a saved state that its phases come in the order of
  the plan, each after the one that earned it, and that each rests on suite runs of the
  baseline and of its build which no other phase has.  A step moves the state in one of
  three ways: it keeps the phases, takes the last one further (`Progressed`), or admits
  the one that is due (`Admitted`); the lemmas about `Due` and `Wanted` show that each
  way keeps both.
* `LockInv`, `MemInv`, `RunningInv` and `LinkInv` say what the process that holds the
  lock knows of the saved state: its copy is what is on disk, the phase in execution is
  running, and the run it is about to link is new and was made for this place, or is
  linked already.
* `SlotInv` is the ledger.  Slots are counted as pairs of a phase and a number
  (`Slotted`), so that `reserved` is a cardinality; `Spent` says that no phase made more
  runs than it has slots, `Room` that those the phase in execution has left are
  still reserved, with one more run made than linked at `"link"`.

### ModelCache

`CacheSound`, `ReceiptsReliable` and `LeaseOfReceipt` state `CacheIsSound`,
`ReceiptsAreReliable` and `LeaseIsOfReceipt`.  What holds the argument together is that
stamps are fresh: what an edit or a replacement writes bears a stamp no file had, so "the
descriptor's identity has moved" and "the receipt is not current" stay true once they are,
and a digest whose identity is still the descriptor's is of the bytes hashed.  The lock of
a key makes a verifier that looked at the cache after it the only one to hash under it;
an inspector that was changed never counts as pinned again.

### BuildAttempts

`AttemptsSound`, `CallsEnd` and `LifecycleKept` state `AttemptsAreSound`, `CallsEndWell`
and `ImplementsLifecycle`, for every number of processes, recipes and attempts.  Besides
the bounds the proofs use that `Nobody` is no process and `"none"` no recipe
(`NamesAssumption`).

* A step changes documents of one recipe, whose lock its process holds, or of an
  allocation, under the allocation lock.  What one process knows of its recipe is
  therefore undisturbed by the steps of another (`Apart`), and each lemma is about the
  process that moves (`Own`).
* `AttemptInv` says of one attempt which registry, index entry and record go together;
  `SettleInv` what the holder of a recipe lock has still to settle, and that what it has
  passed is settled; `CalmInv` that without a fault a root is there only while somebody
  works on it.
* For `CallsEnd`, `EndsWell` and `Cause` say what is left when a call is over: attempts
  the inspections accept, or a root torn down half way or a temp beside a registry, with
  the fault that left it.
* The refinement is one attempt at a time: `Promised` says that a step is one of
  `RunLifecycle` or none for it, by one of `Stays`, `Opens`, `Decides`, `Seals`, `Closes`.

### Suites

`MachineGuarded`, `SuiteTruthful` and `LifecyclesKept` state `MachineIsGuarded`,
`SuiteResultIsTruthful` and `RunsImplementLifecycle`, for every number of processes and
builds and every manifest: `ManifestAssumption` only says that there is a prompt and a case,
that no two cases are equal, that there is at least one window, and that warm-ups and the
bound on trouble are naturals.

* `Placed` says which locks and which state of its run a process has at each step: the
  lease from `"bind"` to `"release"`, the machine at `"protocol"` and `"scratch"` and, when
  it was taken, until `"unlock"`.  `LocksHeld` adds that the machine has one holder and that
  no two processes lease the same build.  They give nesting and exclusion.
* `Division`, `PlannedCaseShape` and `ScheduleShape` compute the schedule: the probe and
  the prompts, the warm-ups of each case, then the windows, with the case and the window
  of the i-th measurement by quotient and remainder.
* `InPlan` says that the samples of a suite are the beginning of that schedule, and its
  counts and projections functions of their number; `Shown` that its reason is that of
  its last sample.  `ResultOf` makes the result a function of this state, so that
  `SuccessLoads` can compare what `load_finalized_suite_snapshot` recomputes with it.
* `Published`: what a process has published is `ResultOf` its state, and `OfIntactBuild`:
  as long as the build is as leased, and for good once the last check before the result has
  found it so, every measurement was of the leased content.

### Capsules

`CapsuleTruthful` and `CapsuleGuarded` state `CapsuleResultIsTruthful` and
`CapsuleIsGuarded`, for every finite set of coordinates, everything a child may print and
every number of failing calls and swaps (`CapsuleAssumption`).  The parts of
`CapsuleInv`:

* `Ordered`: what is held at each step, and that an exception in flight has left the
  steps of the protocol; `ReleaseIsOrdered` follows from it.
* `Counted` and `InOrder`: how many phases and answers there are at each step, that each
  request quotes the answer before, that all phases but the last went well, cover the
  coordinates of the first and, for `benchmark`, passed, and that a protocol result is
  what `Reason` says of them.  `ConsistentResult` finds one arm of the validator of
  `CapsuleProtocolResultV1` for every such judgement.
* `Witnessed` and `Staged`: of which phase and how far the evidence is published.
  `ArtifactsAre` lists the artifacts of a phase and `ArtifactsAreEvidence` shows that they
  are its evidence and no other's (one output, never two); entries still to be published
  count with those that are (`Settled`) until the phase is concluded.
* `ExecutableKnown` bounds the file at the path by the swaps there were: a copy put back
  is another file, so after a child of another executable the one hashed is not at its
  path when the child is looked at, unless the swap was `undone` by that very file.
  `StrangersLeaveNothing` is what remains of the children whose swap was not.
* `Succeeded`: a run that succeeded has both results, of a judgement that passed.

### Comparisons

`ComparisonFair` states `ComparisonIsFair`, for every number of pairs, replicates and
coordinates, every set of samples and everything a bootstrap may draw
(`ComparisonAssumption`).

* `LeastNatural` and `SetInduction` give induction over a set of naturals, which needs no
  operator as a parameter.  From them follow that the function behind `Sum` exists
  (`PartialSums`), that a sum of differences which all exceed a bound exceeds its multiple
  (`SumAtLeast`), and that the k-th of the ordered samples is one of them
  (`OrderedIsSample`).
* A quantile lies between two neighbours in order (`QuantileBetween`), so the interval of
  the bootstrap is the right way round (`LowBelowHigh`) and lies within what the
  replicates, each a sum of draws, are bounded by (`IntervalWithin`).
* `ShownVerdict` then reads the verdict off interval and noise.  For `UnanimityDecides`,
  pairs that all differ by more than the noise to one side have their mean beyond it and the
  interval clear of zero (`BeyondNoise`), whichever of more and less is better
  (`OneSided`), and pairs that all stay within it have their mean within (`WithinNoise`).
* `ComparingInv` carries this through the operation: which coordinates are reported when,
  and that no improvement passes over a protected regression.  `AdmittingInv` says that
  what is past admission was admitted, and `AdmittedAsPermitted` that the five projections
  of the code then come to what the contract permits, and no more.

### run_process

`ResultTruthful`, `SpoolsWholeOrGone` and, with the server below, `NothingLeftAlive` state
`ResultIsTruthful`, `SpoolsAreWholeOrGone` and `NothingIsLeftAlive`, for every limit, every
size of a pipe and of what a child writes, and every number of failing calls.  The parts of
`ProcessInv`:

* `Counted`: what was written to a stream is counted or still in its pipe, what is kept are
  its first bytes in however many chunks they came (`FirstBytesAreKept`), and a thread that
  is done without an error left neither bytes nor writers.  From it follows that a clean
  result is complete.
* `Watched`: the child is started, watched, terminated and waited for in this order.  A
  group that was killed does not come back, so `GroupIsDead` needs no fairness.
* `Spooled`: what is in the file of a spool at each step of the close, and that only an
  error or an exception has one removed.  `ChunkIsSpooled` is all the threads do to it.
* `Paid`: every name that stays was paid for by an unlink that failed, and a settled name
  by the failure before it.  `DiscardEffect` and `ClosingEffect` give what each removal
  and each close may cost.

### Cases of the adapters

`ServerSampleTruthful` and `CaseSampleTruthful` state `ServerSampleIsTruthful` and
`CaseSampleIsTruthful`.

* `ServerPlaced` and `RepliesAreOurs`: while a server that had bound its port lives, or was
  alive when it was signalled, the port is its own, so each attempt that counts was answered
  by it.  Once stopping it is dead unless it was `Spared`: by an exception that passed the
  shutdown, or by a SIGKILL that failed.  `ServerTold` says that nothing is recorded before it happened.
* `VerdictIsFirst`: the verdict is the first attempt that failed, and a success made both
  attempts.  `SampleIsLast` ties the sample to what is there at the end; the validator's
  conditions (`SampleIsConsistent`) then are a split on its status.
* `RanInOrder` and `CaseTyped`: the children ran in the order of the case, and while the
  inputs are intact none of them is `foul`.  `CategoryOf`, and the lemmas on capabilities and
  verdicts, say what a result of a child makes of the sample.
* `PortableIsOfResults`: what a case has published is of its results, so a refusal of
  `write_portable` is one of the two known ones (`Blamed`), and every other outcome has a
  sample.

### Portable evidence

`EvidenceKeeps` and `EvidenceSettles` state `PortableEvidenceIsKept` and
`PortableEvidenceIsSettled`, for every set of offers, every size of a blob, all limits and
every number of kills, errors and power failures.  A power failure takes back what was
not synced, so `EvidenceInv` speaks of every state it may leave (`EntryStates`,
`BlobStates`), not only of what is there:

* `DirectoriesKept`: a directory whose `fsync` is still to come (`Fresh`) is empty, and
  nothing is put into one before that; one whose `fsync` failed (`unsure`) is used, which
  is one trouble, and to lose it takes a second;
* `EntriesLegal`: each of those states of `entries/` keeps the policy and the limits, has at
  most one temp, of the next sequence number, and holds all that was returned, unless a
  directory was `lost`.
  `PolicyIsKept` shows that what `write_portable` accepts leaves the limits true;
* `EntriesBacked`: each of those states of `blobs/` has the blobs of every committed entry,
  and that of a temp unless two troubles came together, one of which may be the `fsync` of
  a directory that is lost.  Removing an orphan keeps it,
  since what recovery found unreferenced stays so (`CallPlaced`);
* `EntryTempsPlaced` and `BlobTempsCounted`: whose the temps are.  Without trouble there is
  one only between its creation and its rename, and every further one is paid for by a
  trouble.  The causes of a refusal (`CausesStep`) are read off these counts.

`IdleEffect` ... `PowerEffect` first reduce the steps to what they do to directories not
synced yet, `EntriesEffect` and `BlobsEffect` to what they do to the two directories (a
temp written, removed or renamed, an orphan gone, a power failure), and the lemmas on
legality and backing are about those.

### Exports

`BundleGenuine` and `ExportsApart` state `BundleIsGenuine` and `ExportsAreApart`, for every
set of runs and secrets, any number of exporters of one destination, all limits, and every
number of changes to the record, changes to the bundle, kills, power failures and errors.

* `SnapshotIsSurface` is the lemma on what the verifier accepts: members that come from the
  run and satisfy `SnapshotHolds` are the surface of its record down to a prefix of its
  portable entries, whole events, and just the blobs of those entries.
* Validated files reach the destination: `EachExport` says of each export that what it was
  told is of the run it reads (`OfRun`), that what it collected is free of secrets and,
  from the stage on, passed `SnapshotHolds` within the limit on files, and that what is
  staged is what it collected, its manifest last.  The record may change as it likes
  meanwhile; what is held is what counts.
* `DestOk`: everything at the destination is synced before it is renamed there, so no power
  failure breaks it, and it is as it was validated unless someone changed it (`tampered`).
  A bundle that was changed and verifies is of the record of a run all the same: of the run
  exported, or of the one whose manifest was put in the place of its own.
* `Landed`: what is at the destination was put there by an export that is past its rename;
  one that raised there did so for a counted trouble.  `RaisesFrom` lists the steps by
  which an export comes to raise, and what each leaves of the stage.  `ExportsAreApart`
  follows: a rename finds nothing there, and only its owner takes a destination away.

### What the proofs changed

The proofs found one thing wrong with the model: several choices that the code makes in
order (`Category`, `Failure`, `StdoutArtifact` and `Reason` of `CapsuleRun`, the categories
of `AdapterCase`, two verdicts of `Comparison`) were `CASE` expressions with overlapping
arms.  TLC takes the first arm that is true, TLA+ any; they are `IF` chains now.  In
`Bundle`, functions were put together with `@@` of `TLC`, which the provers do not know;
`Atop` is the same in TLA+.  `Comparison` sums with a
recursive function and takes the k-th sample in order as the least that k samples reach
(`Ordered`), in place of a fold and a sort.  `PublishedVerifies` needed the exception above, which the
bounds of the run had kept out of sight, and `RunAssumption` had to say what a run is (its
events, entries and outcome) before anything of a bundle followed.

### Only model-checked

Liveness (`DeadRunIsFinalized`, `CampaignEnds`, `LookupCompletes`, `CleanupConverges`,
`ModelIsVerified`) is out of the prover's reach, as is `ENABLED`.

## Plan

What stands above is done.  What could come next: `PortableEvidence` shown to implement the
three values `RunEvidence` keeps of it.

## Not modelled

Manifests, capsule snapshots, the machine profile and the doctor, the command
line, configuration and serialization: validation, canonical hashing, parsing,
rendering and probes of the host are pure functions or pure I/O, without state of
their own, and no property here depends on their content.  `cmake_build.py` is
modelled as far as it drives the build cache; probing, configuring and reading the
file API are calls of `run_process` whose results are data.  Of `build_cache.py`,
capture and comparison of artifacts are seen as a digest; of `sources.py`, patches
and submodules are.  Of `evidence.py`, the readers of finalized records and trace
chunks change no state and are left out.

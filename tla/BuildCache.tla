----------------------------- MODULE BuildCache -----------------------------
(***************************************************************************)
(* One build ID of builds/: the materialization journal, the build root,   *)
(* the canonical record with its index and attestation, and the attempts   *)
(* of its recipe that touch them, as build_cache.py, _execute_leased_build *)
(* of cmake_build.py and begin_build_attempt of builds.py perform them.    *)
(* Builders, lessees, inspections and clean-ups share the build-ID lock,   *)
(* which none of them waits for.                                           *)
(*                                                                         *)
(* An action is one durable effect.  A journal transition is one: who      *)
(* loads the journal next adopts an event that current.json does not show  *)
(* yet, so the rename of the event is the transition.  A document is the   *)
(* number of the attempt that wrote it, an artifact set is whole or not.   *)
(***************************************************************************)
EXTENDS Naturals, Sequences

CONSTANTS Procs,          \* process slots; a killed one is used again
          Nobody,         \* the holder of a free lock
          Inodes,         \* inode numbers; that of a removed root is used again
          MaxAttempts,    \* bound: attempts of the recipe
          MaxCrashes,     \* bound: kills and power failures
          MaxErrors,      \* bound: calls that raise
          MaxLosses       \* bound: staged records lost from outside

ASSUME SlotsAssumption == Nobody \notin Procs
ASSUME InodesAssumption == Inodes \subseteq Nat \ {0}
ASSUME BoundsAssumption ==
  MaxAttempts \in Nat /\ MaxCrashes \in Nat /\ MaxErrors \in Nat /\ MaxLosses \in Nat

\* MaterializationState, "none" before the first event
States == {"none", "VACANT", "BUILDING", "PUBLISHING", "PRESENT", "CLEANING",
           "CLEANED", "REHYDRATING", "DISCARDING"}

Legal ==
  [s \in States |->
     CASE s \in {"none", "VACANT"} -> {"BUILDING"}
       [] s = "BUILDING"           -> {"BUILDING", "PUBLISHING", "DISCARDING"}
       [] s = "PUBLISHING"         -> {"PRESENT", "DISCARDING"}
       [] s = "PRESENT"            -> {"CLEANING"}
       [] s = "CLEANING"           -> {"CLEANED"}
       [] s = "CLEANED"            -> {"REHYDRATING"}
       [] s = "REHYDRATING"        -> {"REHYDRATING", "PRESENT", "DISCARDING"}
       [] s = "DISCARDING"         -> {"VACANT", "CLEANED"}]

VARIABLES
  recipe,       \* the recipe lock: the process that builds, or Nobody
  lock,         \* the build-ID lock: a process, or Nobody
  pc,           \* where each process is; "idle" outside every operation
  class,        \* execution_class of the attempt in progress
  leased,       \* the inode a lease was taken on
  attempts,     \* the attempts of the recipe, each with its state or outcome
  journal,      \* the last event: state, attempt, root inode, what it binds
  root,         \* materialized/<build id>
  staged,       \* attempts whose staged canonical record can be read
  evidence,     \* materialization.json: the attempt that wrote it, or 0
  record,       \* the canonical record: the attempt that produced it, or 0
  index,        \* the build index: the producer it names, or 0
  attestation,  \* the attestation: the attestor it names, or 0
  crashes, errors, losses

procVars  == <<recipe, lock, pc, class, leased>>
rootVars  == <<journal, root>>
stageVars == <<staged, evidence>>
storeVars == <<record, index, attestation>>
faultVars == <<crashes, errors, losses>>
vars      == <<procVars, attempts, rootVars, stageVars, storeVars, faultVars>>

\* Nothing is there; marker is the attempt the ownership marker names.
NoRoot == [there |-> FALSE, inode |-> 0, marker |-> 0, whole |-> FALSE, flushed |-> FALSE]

Init ==
  /\ recipe = Nobody /\ lock = Nobody
  /\ pc = [p \in Procs |-> "idle"]
  /\ class = "none" /\ leased = 0
  /\ attempts = << >>
  /\ journal = [state |-> "none", attempt |-> 0, inode |-> 0,
                canonical |-> 0, staging |-> 0, evidence |-> 0]
  /\ root = NoRoot
  /\ staged = {} /\ evidence = 0
  /\ record = 0 /\ index = 0 /\ attestation = 0
  /\ crashes = 0 /\ errors = 0 /\ losses = 0

-----------------------------------------------------------------------------
(* Processes, attempts and the journal *)

At(p, l) == pc[p] = l

Goto(p, l) ==
  /\ pc' = [pc EXCEPT ![p] = l]
  /\ UNCHANGED <<recipe, lock, class, leased>>

\* The build-ID lock is taken, or was free: exclusive_lock does not wait.
Enter(p, l) ==
  /\ lock = Nobody
  /\ lock' = p
  /\ pc' = [pc EXCEPT ![p] = l]

\* The session ends, its attempt goes on under the recipe lock.
LeaveSession(p, l) ==
  /\ lock' = Nobody
  /\ pc' = [pc EXCEPT ![p] = l]

\* The operation is over, returned, raised or killed: its locks are free.
Return(p) ==
  /\ pc' = [pc EXCEPT ![p] = "idle"]
  /\ lock' = IF lock = p THEN Nobody ELSE lock
  /\ recipe' = IF recipe = p THEN Nobody ELSE recipe
  /\ class' = IF recipe = p THEN "none" ELSE class
  /\ leased' = IF At(p, "lease") THEN 0 ELSE leased

\* Mutant of Me: the number of the attempt to come.
NextAttempt == Len(attempts) + 1

\* The attempt in progress; the recipe lock lets in one at a time.
Me == Len(attempts)

\* Outcome of an attempt whose process is gone, or that raised
Settled(o, otherwise) ==
  CASE o = "active" -> otherwise
    [] o = "finalizing" -> "success"
    [] OTHER -> o

\* The build raises: its attempt is finalized, FAILED unless it had come to its
\* own finalization.
Fail(p) ==
  /\ attempts' = [attempts EXCEPT ![Me] = Settled(@, "failed")]
  /\ Return(p)

\* _transition to s, of the fields j; what j does not set is carried forward.
Move(s, j) ==
  /\ s \in Legal[journal.state]
  /\ journal' = [j EXCEPT !.state = s]

-----------------------------------------------------------------------------
(* What the readers verify *)

\* _verify_owner_against_journal
Owned ==
  /\ root.there
  /\ journal.inode # 0 /\ root.inode = journal.inode
  /\ root.marker = journal.attempt

\* _require_journal_bound_canonical
PairBound == record # 0 /\ index = record /\ journal.canonical = record

\* The immutable attempt record of the producer is there.
ProducerFinal == record # 0 /\ attempts[record] \notin {"active", "finalizing"}

\* _verify_materialized_root
RootVerified ==
  /\ Owned /\ root.whole
  /\ evidence # 0 /\ evidence = journal.evidence /\ evidence = journal.attempt

AttestationHolds == attestation # 0 => attempts[attestation] = "success"

\* What a PRESENT build passes in lookup, inspect_build, lease_build, cleanup_build
PresentVerified ==
  /\ journal.state = "PRESENT"
  /\ PairBound /\ ProducerFinal /\ RootVerified /\ AttestationHolds

-----------------------------------------------------------------------------
(* What lookup can do about the state it finds, _recover_incomplete first *)

\* A published record, or the staged one, lets a publication be completed.
Completable == record # 0 \/ journal.staging \in staged

\* _complete_publishing: the owned root still holds the artifacts.
CanComplete ==
  /\ journal.state = "PUBLISHING"
  /\ Completable
  /\ record # 0 => record = journal.attempt /\ record = journal.staging
  /\ Owned /\ root.whole

\* Mutant of Interrupted: a rehydration is not among the states discarded.
InterruptedBuild == journal.state = "BUILDING"

Interrupted ==
  \/ journal.state = "BUILDING"
  \/ journal.state = "REHYDRATING" /\ (journal.canonical # 0 => PairBound)

\* Neither record nor staged bytes: the publication is given up.
Unpublishable ==
  /\ journal.state = "PUBLISHING"
  /\ ~Completable /\ index = 0 /\ root.there

CanDiscard == (Interrupted \/ Unpublishable) /\ (root.there => Owned)

\* A removal of the root was begun, with the canonical pair it may not outlive.
Removing ==
  \/ journal.state = "CLEANING" /\ PairBound
  \/ journal.state = "DISCARDING" /\ (journal.canonical # 0 => PairBound)

CanRemove == Removing /\ root.there /\ Owned
CanSettle == Removing /\ ~root.there

Recovers == CanComplete \/ CanDiscard \/ CanRemove \/ CanSettle

CanMiss == journal.state \in {"none", "VACANT"} /\ record = 0 /\ index = 0 /\ ~root.there
CanRehydrate == journal.state = "CLEANED" /\ PairBound /\ ProducerFinal /\ ~root.there
CanHit == PresentVerified

Answers == CanMiss \/ CanRehydrate \/ CanHit

-----------------------------------------------------------------------------
(* An attempt: begin_build_attempt, and the lookup of its session *)

\* Dead attempts are finalized before the next one is allocated.
Begin(p) ==
  /\ At(p, "idle")
  /\ recipe = Nobody
  /\ Len(attempts) < MaxAttempts
  /\ recipe' = p
  /\ attempts' = Append([i \in DOMAIN attempts |-> Settled(attempts[i], "interrupted")], "active")
  /\ pc' = [pc EXCEPT ![p] = "begun"]
  /\ UNCHANGED <<lock, class, leased, rootVars, stageVars, storeVars, faultVars>>

\* build_cache_session, once the probe has given the build ID
Open(p) ==
  /\ At(p, "begun")
  /\ Enter(p, "lookup")
  /\ UNCHANGED <<recipe, class, leased, attempts, rootVars, stageVars, storeVars, faultVars>>

OpenBusy(p) ==
  /\ At(p, "begun")
  /\ lock # Nobody
  /\ Fail(p)
  /\ UNCHANGED <<rootVars, stageVars, storeVars, faultVars>>

EnterDiscarding(p) ==
  /\ At(p, "lookup")
  /\ CanDiscard
  /\ Move("DISCARDING", journal)
  /\ UNCHANGED <<procVars, attempts, root, stageVars, storeVars, faultVars>>

StartRemoval(p) ==
  /\ At(p, "lookup")
  /\ CanRemove
  /\ Goto(p, "remove")
  /\ UNCHANGED <<attempts, rootVars, stageVars, storeVars, faultVars>>

\* Mutant of Destination: the canonical record is forgotten.
Vacant == "VACANT"

Destination == IF journal.canonical = 0 THEN "VACANT" ELSE "CLEANED"

Settle(p) ==
  /\ At(p, "lookup")
  /\ CanSettle
  /\ Move(Destination, journal)
  /\ UNCHANGED <<procVars, attempts, root, stageVars, storeVars, faultVars>>

Miss(p) ==
  /\ At(p, "lookup")
  /\ \/ CanMiss /\ class' = "built"
     \/ CanRehydrate /\ class' = "rehydrated"
  /\ pc' = [pc EXCEPT ![p] = "begin"]
  /\ UNCHANGED <<recipe, lock, leased, attempts, rootVars, stageVars, storeVars, faultVars>>

\* A root without attestation is taken over by this attempt.
Hit(p) ==
  /\ At(p, "lookup")
  /\ CanHit
  /\ class' = IF attestation = 0 THEN "recovered" ELSE "cache-hit"
  /\ LeaveSession(p, "finalize")
  /\ UNCHANGED <<recipe, leased, attempts, rootVars, stageVars, storeVars, faultVars>>

Refuse(p) ==
  /\ At(p, "lookup")
  /\ ~(Recovers \/ Answers)
  /\ Fail(p)
  /\ UNCHANGED <<rootVars, stageVars, storeVars, faultVars>>

-----------------------------------------------------------------------------
(* shutil.rmtree of the root: by a recovery, a clean-up, or a failed build *)

Removes(p) == pc[p] \in {"remove", "clean", "undo"} /\ root.there

\* Files go in any order, the ownership marker among them.
Unlink(p) ==
  /\ Removes(p)
  /\ \E m \in {root.marker, 0} :
       root' = [root EXCEPT !.whole = FALSE, !.flushed = FALSE, !.marker = m]
  /\ UNCHANGED <<procVars, attempts, journal, stageVars, storeVars, faultVars>>

\* The directory goes last, and its parent is synced.
Removed(p) ==
  /\ Removes(p)
  /\ root' = NoRoot
  /\ Goto(p, IF At(p, "remove") THEN "lookup" ELSE pc[p])
  /\ UNCHANGED <<attempts, journal, stageVars, storeVars, faultVars>>

-----------------------------------------------------------------------------
(* A build, and its publication *)

BeginMaterialization(p) ==
  /\ At(p, "begin")
  /\ Move(IF class = "built" THEN "BUILDING" ELSE "REHYDRATING", [journal EXCEPT !.attempt = Me])
  /\ Goto(p, "mkdir")
  /\ UNCHANGED <<attempts, root, stageVars, storeVars, faultVars>>

PrepareRoot(p) ==
  /\ At(p, "mkdir")
  /\ ~root.there
  /\ \E i \in Inodes : root' = [NoRoot EXCEPT !.there = TRUE, !.inode = i]
  /\ Goto(p, "mark")
  /\ UNCHANGED <<attempts, journal, stageVars, storeVars, faultVars>>

WriteOwner(p) ==
  /\ At(p, "mark")
  /\ root' = [root EXCEPT !.marker = Me]
  /\ Goto(p, "bind")
  /\ UNCHANGED <<attempts, journal, stageVars, storeVars, faultVars>>

BindRoot(p) ==
  /\ At(p, "bind")
  /\ Move(journal.state, [journal EXCEPT !.attempt = Me, !.inode = root.inode])
  /\ Goto(p, "build")
  /\ UNCHANGED <<attempts, root, stageVars, storeVars, faultVars>>

\* Mutant of Build: the tree is not flushed before it is published.
BuildUnflushed(p) ==
  /\ At(p, "build")
  /\ root' = [root EXCEPT !.whole = TRUE]
  /\ Goto(p, IF class = "built" THEN "stage" ELSE "rehydrate")
  /\ UNCHANGED <<attempts, journal, stageVars, storeVars, faultVars>>

\* Configure, build, capture, evidence of the attempt, fsync_tree
Build(p) ==
  /\ At(p, "build")
  /\ root' = [root EXCEPT !.whole = TRUE, !.flushed = TRUE]
  /\ Goto(p, IF class = "built" THEN "stage" ELSE "rehydrate")
  /\ UNCHANGED <<attempts, journal, stageVars, storeVars, faultVars>>

StageRecord(p) ==
  /\ At(p, "stage")
  /\ staged' = staged \cup {Me}
  /\ Goto(p, "publishing")
  /\ UNCHANGED <<attempts, rootVars, evidence, storeVars, faultVars>>

EnterPublishing(p) ==
  /\ At(p, "publishing")
  /\ Move("PUBLISHING", [journal EXCEPT !.attempt = Me, !.staging = Me])
  /\ Goto(p, "publish")
  /\ UNCHANGED <<attempts, root, stageVars, storeVars, faultVars>>

\* The producer publishes, or a later lookup in its place.
Publishes(p) == At(p, "publish") \/ (At(p, "lookup") /\ CanComplete)

PublishRecord(p) ==
  /\ Publishes(p)
  /\ record = 0
  /\ record' = journal.attempt
  /\ UNCHANGED <<procVars, attempts, rootVars, stageVars, index, attestation, faultVars>>

PublishIndex(p) ==
  /\ Publishes(p)
  /\ record # 0 /\ index = 0
  /\ index' = record
  /\ UNCHANGED <<procVars, attempts, rootVars, stageVars, record, attestation, faultVars>>

PublishEvidence(p) ==
  /\ Publishes(p)
  /\ index # 0 /\ evidence # journal.attempt
  /\ evidence' = journal.attempt
  /\ UNCHANGED <<procVars, attempts, rootVars, staged, storeVars, faultVars>>

\* Mutant of BecomePresent: the evidence is written and not bound.
PresentUnbound(p) ==
  /\ Publishes(p)
  /\ index # 0 /\ evidence = journal.attempt
  /\ Move("PRESENT", [journal EXCEPT !.canonical = record])
  /\ IF At(p, "publish") THEN LeaveSession(p, "finalize") /\ UNCHANGED <<recipe, class, leased>>
                         ELSE UNCHANGED procVars
  /\ UNCHANGED <<attempts, root, stageVars, storeVars, faultVars>>

BecomePresent(p) ==
  /\ Publishes(p)
  /\ index # 0 /\ evidence = journal.attempt
  /\ Move("PRESENT", [journal EXCEPT !.canonical = record, !.evidence = evidence])
  /\ IF At(p, "publish") THEN LeaveSession(p, "finalize") /\ UNCHANGED <<recipe, class, leased>>
                         ELSE UNCHANGED procVars
  /\ UNCHANGED <<attempts, root, stageVars, storeVars, faultVars>>

\* A rehydration publishes no record, only the evidence of its own root.
RehydratedEvidence(p) ==
  /\ At(p, "rehydrate")
  /\ PairBound
  /\ evidence' = Me
  /\ Goto(p, "rehydrated")
  /\ UNCHANGED <<attempts, rootVars, staged, storeVars, faultVars>>

Rehydrated(p) ==
  /\ At(p, "rehydrated")
  /\ Move("PRESENT", [journal EXCEPT !.attempt = Me, !.evidence = Me])
  /\ LeaveSession(p, "finalize")
  /\ UNCHANGED <<recipe, class, leased, attempts, root, stageVars, storeVars, faultVars>>

-----------------------------------------------------------------------------
(* Finalization SUCCESS, and the attestation after it *)

StartFinalizing(p) ==
  /\ At(p, "finalize")
  /\ attempts' = [attempts EXCEPT ![Me] = "finalizing"]
  /\ Goto(p, "record")
  /\ UNCHANGED <<rootVars, stageVars, storeVars, faultVars>>

Attests == class \in {"built", "recovered"}

Finalized(p) ==
  /\ At(p, "record")
  /\ attempts' = [attempts EXCEPT ![Me] = "success"]
  /\ IF Attests THEN Goto(p, "attest") ELSE Return(p)
  /\ UNCHANGED <<rootVars, stageVars, storeVars, faultVars>>

\* Mutant of Attest: the producer is named, its outcome taken for granted.
AttestProducer(p) ==
  /\ At(p, "attest")
  /\ lock = Nobody
  /\ record # 0 /\ index = record /\ ProducerFinal
  /\ attestation = 0
  /\ attestation' = record
  /\ Return(p)
  /\ UNCHANGED <<attempts, rootVars, stageVars, record, index, faultVars>>

\* publish_build_attestation: the lock is taken again, the attestor authenticated.
Attest(p) ==
  /\ At(p, "attest")
  /\ lock = Nobody
  /\ record # 0 /\ index = record /\ ProducerFinal
  /\ attempts[Me] = "success"
  /\ attestation = 0
  /\ attestation' = Me
  /\ Return(p)
  /\ UNCHANGED <<attempts, rootVars, stageVars, record, index, faultVars>>

\* The lock is held: the build raises, the attempt is a SUCCESS without attestation.
AttestBusy(p) ==
  /\ At(p, "attest")
  /\ lock # Nobody
  /\ Return(p)
  /\ UNCHANGED <<attempts, rootVars, stageVars, storeVars, faultVars>>

-----------------------------------------------------------------------------
(* A build that raises *)

\* Mutant of Undoes: the handler covers the publication as well.
UndoesPublication == {"bind", "build", "stage", "publishing", "publish"}

\* Where the build holds the owner of the root and has not begun to publish
Undoes == {"bind", "build"}

RaiseAndUndo(p) ==
  /\ pc[p] \in Undoes
  /\ errors < MaxErrors
  /\ errors' = errors + 1
  /\ Goto(p, "undo")
  /\ UNCHANGED <<attempts, rootVars, stageVars, storeVars, crashes, losses>>

\* remove_owned_build_root has removed the root.
Undone(p) ==
  /\ At(p, "undo")
  /\ ~root.there
  /\ Fail(p)
  /\ UNCHANGED <<rootVars, stageVars, storeVars, faultVars>>

\* write_build_root_owner raises: the handler knows no owner and removes nothing.
RaiseUnmarked(p) ==
  /\ At(p, "mark")
  /\ errors < MaxErrors
  /\ errors' = errors + 1
  /\ \E m \in {0, Me} : root' = [root EXCEPT !.marker = m]
  /\ Fail(p)
  /\ UNCHANGED <<journal, stageVars, storeVars, crashes, losses>>

\* Any other call raises; an error in the handler's own removal is suppressed.
Raise(p) ==
  /\ recipe = p
  /\ pc[p] \notin Undoes \cup {"mark"}
  /\ errors < MaxErrors
  /\ errors' = errors + 1
  /\ Fail(p)
  /\ UNCHANGED <<rootVars, stageVars, storeVars, crashes, losses>>

-----------------------------------------------------------------------------
(* inspect_build, lease_build, cleanup_build *)

\* The lock is held while records and root are hashed, whatever comes of it.
Inspect(p) ==
  /\ At(p, "idle")
  /\ journal.state # "none"
  /\ Enter(p, "inspect")
  /\ UNCHANGED <<recipe, class, leased, attempts, rootVars, stageVars, storeVars, faultVars>>

Lease(p) ==
  /\ At(p, "idle")
  /\ PresentVerified /\ attestation # 0
  /\ Enter(p, "lease")
  /\ leased' = root.inode
  /\ UNCHANGED <<recipe, class, attempts, rootVars, stageVars, storeVars, faultVars>>

Release(p) ==
  /\ pc[p] \in {"inspect", "lease"}
  /\ Return(p)
  /\ UNCHANGED <<attempts, rootVars, stageVars, storeVars, faultVars>>

\* Mutant of StartCleaning: the lock is not asked for.
CleanUnlocked(p) ==
  /\ At(p, "idle")
  /\ PresentVerified /\ attestation # 0
  /\ lock' = p
  /\ pc' = [pc EXCEPT ![p] = "clean"]
  /\ Move("CLEANING", journal)
  /\ UNCHANGED <<recipe, class, leased, attempts, root, stageVars, storeVars, faultVars>>

\* Mutant of StartCleaning: a root nobody attested to is cleaned too.
CleanUnattested(p) ==
  /\ At(p, "idle")
  /\ PresentVerified
  /\ Enter(p, "clean")
  /\ Move("CLEANING", journal)
  /\ UNCHANGED <<recipe, class, leased, attempts, root, stageVars, storeVars, faultVars>>

StartCleaning(p) ==
  /\ At(p, "idle")
  /\ PresentVerified /\ attestation # 0
  /\ Enter(p, "clean")
  /\ Move("CLEANING", journal)
  /\ UNCHANGED <<recipe, class, leased, attempts, root, stageVars, storeVars, faultVars>>

FinishCleaning(p) ==
  /\ At(p, "clean")
  /\ ~root.there
  /\ Move("CLEANED", journal)
  /\ Return(p)
  /\ UNCHANGED <<attempts, root, stageVars, storeVars, faultVars>>

RaiseCleaning(p) ==
  /\ At(p, "clean")
  /\ errors < MaxErrors
  /\ errors' = errors + 1
  /\ Return(p)
  /\ UNCHANGED <<attempts, rootVars, stageVars, storeVars, crashes, losses>>

-----------------------------------------------------------------------------
(* Faults *)

\* SIGKILL: the locks are dropped, the files stay.
Crash(p) ==
  /\ ~At(p, "idle")
  /\ crashes < MaxCrashes
  /\ crashes' = crashes + 1
  /\ Return(p)
  /\ UNCHANGED <<attempts, rootVars, stageVars, storeVars, errors, losses>>

\* The power goes: of a root that was not flushed anything may be missing.
PowerLoss ==
  /\ \E p \in Procs : ~At(p, "idle")
  /\ crashes < MaxCrashes
  /\ crashes' = crashes + 1
  /\ recipe' = Nobody /\ lock' = Nobody
  /\ pc' = [p \in Procs |-> "idle"]
  /\ class' = "none" /\ leased' = 0
  /\ IF root.there /\ ~root.flushed
       THEN root' \in {NoRoot, [root EXCEPT !.whole = FALSE, !.marker = 0],
                       [root EXCEPT !.whole = FALSE]}
       ELSE UNCHANGED root
  /\ UNCHANGED <<attempts, journal, stageVars, storeVars, errors, losses>>

\* The staging directory is cleared, or its files are damaged.
LoseStaged ==
  /\ staged # {}
  /\ losses < MaxLosses
  /\ losses' = losses + 1
  /\ staged' = {}
  /\ UNCHANGED <<procVars, attempts, rootVars, evidence, storeVars, crashes, errors>>

-----------------------------------------------------------------------------

Lookup(p) ==
  \/ EnterDiscarding(p) \/ StartRemoval(p) \/ Settle(p)
  \/ Miss(p) \/ Hit(p) \/ Refuse(p)

Remove(p) == Unlink(p) \/ Removed(p)

Materialize(p) ==
  \/ BeginMaterialization(p) \/ PrepareRoot(p) \/ WriteOwner(p) \/ BindRoot(p) \/ Build(p)

Publish(p) ==
  \/ StageRecord(p) \/ EnterPublishing(p)
  \/ PublishRecord(p) \/ PublishIndex(p) \/ PublishEvidence(p) \/ BecomePresent(p)
  \/ RehydratedEvidence(p) \/ Rehydrated(p)

Finalize(p) == StartFinalizing(p) \/ Finalized(p) \/ Attest(p) \/ AttestBusy(p)

Fault(p) == RaiseAndUndo(p) \/ RaiseUnmarked(p) \/ Raise(p) \/ RaiseCleaning(p) \/ Crash(p)

\* What a process goes on with once it has begun, except for faults
Work(p) ==
  \/ Open(p) \/ OpenBusy(p) \/ Lookup(p) \/ Remove(p) \/ Materialize(p)
  \/ Publish(p) \/ Finalize(p) \/ Undone(p) \/ Release(p) \/ FinishCleaning(p)

Next ==
  \/ \E p \in Procs : \/ Begin(p) \/ Inspect(p) \/ Lease(p) \/ StartCleaning(p)
                      \/ Work(p) \/ Fault(p)
  \/ PowerLoss \/ LoseStaged

Spec == Init /\ [][Next]_vars

\* A running operation runs on; nobody needs to begin one.  Of the steps of
\* rmtree it is the last that has to come.
Fairness == \A p \in Procs : WF_vars(Work(p)) /\ WF_vars(Removed(p))

FairSpec == Spec /\ Fairness

-----------------------------------------------------------------------------
(* Correctness *)

Labels == {"idle", "begun", "lookup", "remove", "begin", "mkdir", "mark", "bind", "build",
           "undo", "stage", "publishing", "publish", "rehydrate", "rehydrated",
           "finalize", "record", "attest", "inspect", "lease", "clean"}

Ids == 0 .. Len(attempts)

Outcomes == {"active", "finalizing", "success", "failed", "interrupted"}

ProcTypeOK ==
  /\ recipe \in Procs \cup {Nobody} /\ lock \in Procs \cup {Nobody}
  /\ pc \in [Procs -> Labels]
  /\ class \in {"none", "built", "rehydrated", "cache-hit", "recovered"}
  /\ leased \in Inodes \cup {0}

RootTypeOK ==
  /\ journal \in [state : States, attempt : Ids, inode : Inodes \cup {0},
                  canonical : Ids, staging : Ids, evidence : Ids]
  /\ root \in [there : BOOLEAN, inode : Inodes \cup {0}, marker : Ids,
               whole : BOOLEAN, flushed : BOOLEAN]

StoreTypeOK ==
  /\ staged \subseteq Ids /\ evidence \in Ids
  /\ record \in Ids /\ index \in Ids /\ attestation \in Ids

FaultTypeOK ==
  crashes \in 0 .. MaxCrashes /\ errors \in 0 .. MaxErrors /\ losses \in 0 .. MaxLosses

\* Every variable stays within its type; documents name allocated attempts.
TypeOK == attempts \in Seq(Outcomes) /\ ProcTypeOK /\ RootTypeOK /\ StoreTypeOK /\ FaultTypeOK

\* While a lease is held the build stays what was leased: attested, whole, and
\* the very directory it was, whoever cleans, rebuilds or recovers meanwhile.
LeaseIsSound ==
  \A p \in Procs : At(p, "lease") => PresentVerified /\ attestation # 0 /\ root.inode = leased

\* A root removed by half, or never bound, and the journal not past it
HalfRoot ==
  /\ root.there /\ ~Owned
  /\ journal.state \in {"BUILDING", "REHYDRATING", "DISCARDING", "CLEANING"}

\* Whatever was killed, raised or lost before, a lookup knows what to do: it
\* refuses only a half root, and that only where something did go wrong.
LookupIsAnswered ==
  \A p \in Procs : At(p, "lookup") => Recovers \/ Answers \/ (HalfRoot /\ crashes + errors > 0)

\* An attestation names an attempt that was finalized SUCCESS, never a producer
\* that died or failed after its record was published.
AttestedBySuccess ==
  attestation # 0 => record # 0 /\ attestation >= record /\ attempts[attestation] = "success"

\* Where a root has been given up the canonical pair is bound and attested: no
\* clean-up, failed rehydration or recovery leaves a build nobody vouches for.
CleanedIsAttested ==
  (\/ journal.state \in {"CLEANING", "CLEANED", "REHYDRATING"}
   \/ journal.state = "DISCARDING" /\ journal.canonical # 0) => PairBound /\ attestation # 0

\* A publication that has begun can be completed by whoever comes next: the root
\* is durable, owned and whole, and the staged bytes are there unless lost.
PublicationIsCompletable ==
  journal.state = "PUBLISHING" =>
    /\ Owned /\ root.whole
    /\ losses = 0 => Completable

\* Record, index and attestation are never replaced or taken back, and a journal
\* that binds a record binds it for good.
CanonicalIsKept ==
  [][/\ record # 0 => record' = record
     /\ index # 0 => index' = index
     /\ attestation # 0 => attestation' = attestation
     /\ journal.canonical # 0 =>
          journal'.canonical = journal.canonical
          /\ journal'.state \notin {"VACANT", "BUILDING", "PUBLISHING"}]_vars

\* The root of a publication that has begun, or of a build that is PRESENT, is
\* touched by nothing: not by the failure handler of the build, nor by recovery.
PublishedRootIsKept ==
  [][journal.state \in {"PUBLISHING", "PRESENT"} => root' = root]_vars

Lifecycle == INSTANCE BuildLifecycle WITH
  producer <- index, attestor <- attestation, present <- journal.state = "PRESENT"

\* Seen from outside a build is stored once, attested before it is given up, and
\* had again without another record.
ImplementsBuildLifecycle == Lifecycle!Spec

NoMoreFaults == crashes = MaxCrashes /\ errors = MaxErrors /\ losses = MaxLosses

\* An attempt that gets to its lookup ends in SUCCESS, from whatever state the
\* faults before it have left, half roots excepted.
LookupCompletes ==
  \A a \in 1 .. MaxAttempts :
    (Len(attempts) = a /\ NoMoreFaults /\ ~HalfRoot /\ \E p \in Procs : At(p, "lookup"))
      ~> (Len(attempts) >= a /\ attempts[a] = "success")

\* At every step the build is what its documents say: typed, whole and the same
\* under a lease, attested by a success, and given up only when attested.
BuildIsSound == TypeOK /\ LeaseIsSound /\ AttestedBySuccess /\ CleanedIsAttested

\* No fault leaves a build that the next lookup can neither answer nor complete,
\* the half root of an interrupted removal excepted.
RecoveryIsPossible == LookupIsAnswered /\ PublicationIsCompletable

\* What was published is not touched again: documents, nor root.
PublishedIsKept == CanonicalIsKept /\ PublishedRootIsKept
=============================================================================

--------------------------- MODULE BuildCache_proofs ---------------------------
(***************************************************************************)
(* Safety of BuildCache, and that it implements BuildLifecycle, for any    *)
(* number of processes, inodes and attempts and every bound on the faults. *)
(* All of it follows from the inductive invariant IInv, whose parts each   *)
(* have a lemma with one step per action.                                  *)
(***************************************************************************)
EXTENDS BuildCache, TLAPS

\* The labels of a build
Building == {"begun", "lookup", "remove", "begin", "mkdir", "mark", "bind", "build", "undo",
             "stage", "publishing", "publish", "rehydrate", "rehydrated",
             "finalize", "record", "attest"}

\* The steps at which a process holds the lock of the build ID
Locked == (Building \ {"begun", "finalize", "record", "attest"}) \cup {"inspect", "lease", "clean"}

\* Who builds holds the recipe lock, who is in a session the build-ID lock.
LockInv ==
  \A p \in Procs : (pc[p] \in Building <=> recipe = p) /\ (pc[p] \in Locked <=> lock = p)

\* Only the last attempt is open, as far as its process has come; until it builds
\* nothing bears its number.
AttemptInv ==
  /\ recipe # Nobody => Me > 0
  /\ \A i \in DOMAIN attempts : attempts[i] \in {"active", "finalizing"} => i = Me
  /\ \A p \in Procs :
       /\ pc[p] \in Building \ {"record", "attest"} => attempts[Me] = "active"
       /\ pc[p] = "record" => attempts[Me] = "finalizing"
       /\ pc[p] = "attest" => attempts[Me] = "success"
       /\ pc[p] \in {"begun", "lookup", "remove"} => record # Me /\ journal.attempt # Me

\* What the journal binds in each of its states
BindInv ==
  /\ index \in {0, record}
  /\ journal.canonical # 0 => journal.canonical = record /\ index = record
  /\ journal.state \in {"none", "VACANT", "BUILDING", "PUBLISHING"} => journal.canonical = 0
  /\ journal.state \in {"PRESENT", "CLEANING", "CLEANED", "REHYDRATING"} => journal.canonical # 0
  /\ journal.canonical = 0 /\ journal.state # "PUBLISHING" => record = 0
  /\ journal.state = "PUBLISHING" =>
       /\ journal.attempt # 0 /\ journal.staging = journal.attempt
       /\ record \in {0, journal.attempt}
  /\ journal.state = "PRESENT" =>
       evidence # 0 /\ evidence = journal.evidence /\ evidence = journal.attempt

\* The journal under each step of a process
StepInv ==
  \A p \in Procs :
    /\ pc[p] = "remove" => journal.state \in {"CLEANING", "DISCARDING"}
    /\ pc[p] = "clean" => journal.state = "CLEANING"
    /\ pc[p] = "begin" =>
         \/ class = "built" /\ journal.state \in {"none", "VACANT"}
         \/ class = "rehydrated" /\ journal.state = "CLEANED"
    /\ pc[p] \in {"mkdir", "mark", "bind", "build", "undo"} =>
         \/ class = "built" /\ journal.state = "BUILDING"
         \/ class = "rehydrated" /\ journal.state = "REHYDRATING"
    /\ pc[p] \in {"stage", "publishing"} => journal.state = "BUILDING"
    /\ pc[p] = "publish" => journal.state = "PUBLISHING"
    /\ pc[p] \in {"rehydrate", "rehydrated"} => journal.state = "REHYDRATING"
    /\ pc[p] \in {"mkdir", "mark", "bind", "build", "stage", "publishing", "publish",
                  "rehydrate", "rehydrated"} => journal.attempt = Me
    /\ pc[p] = "rehydrated" => evidence = Me

\* The root in each state of the journal, and under each step of a build
RootInv ==
  /\ journal.state \in {"none", "VACANT", "CLEANED"} => ~root.there
  /\ journal.state \in {"PUBLISHING", "PRESENT"} => Owned /\ root.whole /\ root.flushed
  /\ \A p \in Procs :
       /\ pc[p] \in {"mark", "bind"} => root.there /\ root.inode # 0
       /\ pc[p] = "bind" => root.marker = Me
       /\ pc[p] \in {"build", "stage", "publishing", "rehydrate", "rehydrated"} => Owned
       /\ pc[p] \in {"stage", "publishing", "rehydrate", "rehydrated"} => root.whole /\ root.flushed

\* While nothing has been lost, what is being published is staged or published.
StagedInv ==
  losses = 0 =>
    /\ \A p \in Procs : pc[p] = "publishing" => Me \in staged
    /\ journal.state = "PUBLISHING" => Completable

\* Who gives up a root has an attested record behind it, and who comes to its
\* attestation has the root it is about, unless attested already.
AttestInv ==
  /\ journal.state \in {"CLEANING", "CLEANED", "REHYDRATING"} => attestation # 0
  /\ journal.state = "DISCARDING" /\ journal.canonical # 0 => attestation # 0
  /\ \A p \in Procs :
       pc[p] \in {"finalize", "record", "attest"} => attestation # 0 \/ journal.state = "PRESENT"

\* The states of the journal that an operation at work, or a fault, has left
Unsettled == {"BUILDING", "REHYDRATING", "PUBLISHING", "CLEANING", "DISCARDING"}

\* The steps at which a process is on its way to settle the journal
Working == {"mkdir", "mark", "bind", "build", "stage", "publishing", "publish",
            "rehydrate", "rehydrated", "clean"}

\* Without a fault the journal is between two settled states only while the
\* process that moved it is at work.
FaultInv ==
  journal.state \in Unsettled /\ crashes + errors = 0 => \E p \in Procs : pc[p] \in Working

\* Types, and who holds which lock
TypeInv == TypeOK /\ LockInv

\* The inductive invariant
IInv ==
  /\ TypeInv /\ AttemptInv /\ AttestedBySuccess /\ BindInv /\ StepInv /\ RootInv
  /\ StagedInv /\ AttestInv /\ FaultInv /\ LeaseIsSound

----------------------------------------
\* What an attempt becomes when its process is gone is an outcome, and one that it
\* has already is kept.
LEMMA SettledOutcome ==
  ASSUME NEW o \in Outcomes, NEW d \in Outcomes
  PROVE  /\ Settled(o, d) \in Outcomes
         /\ o \notin {"active", "finalizing"} => Settled(o, d) = o
BY DEF Settled, Outcomes

\* The last attempt gets another outcome.
LEMMA LastAttempt ==
  ASSUME attempts \in Seq(Outcomes), NEW o \in Outcomes, attempts' = [attempts EXCEPT ![Me] = o]
  PROVE  /\ attempts' \in Seq(Outcomes) /\ Len(attempts') = Len(attempts)
         /\ \A i \in 1 .. Len(attempts) : attempts'[i] = IF i = Me THEN o ELSE attempts[i]
<1>1. attempts' \in Seq(Outcomes) /\ Len(attempts') = Len(attempts)
 <2>1. attempts \in [1 .. Len(attempts) -> Outcomes] /\ Len(attempts) \in Nat OBVIOUS
 <2>2. attempts' \in [1 .. Len(attempts) -> Outcomes] BY <2>1
 <2> QED BY <2>1, <2>2
<1>2. DOMAIN attempts = 1 .. Len(attempts) OBVIOUS
<1>3. ASSUME NEW i \in 1 .. Len(attempts)
      PROVE  attempts'[i] = IF i = Me THEN o ELSE attempts[i]
  BY <1>2, <1>3
<1> QED BY <1>1, <1>3

\* Every build that is begun adds an attempt, after the others have their outcome.
LEMMA NewAttempt ==
  ASSUME attempts \in Seq(Outcomes), NEW p \in Procs, Begin(p)
  PROVE  /\ attempts' \in Seq(Outcomes) /\ Len(attempts') = Len(attempts) + 1
         /\ attempts'[Len(attempts) + 1] = "active"
         /\ \A i \in 1 .. Len(attempts) : attempts'[i] = Settled(attempts[i], "interrupted")
<1> DEFINE old == [i \in DOMAIN attempts |-> Settled(attempts[i], "interrupted")]
<1>1. DOMAIN attempts = 1 .. Len(attempts) /\ Len(attempts) \in Nat OBVIOUS
<1>2. \A i \in 1 .. Len(attempts) : attempts[i] \in Outcomes OBVIOUS
<1>3. \A i \in 1 .. Len(attempts) : Settled(attempts[i], "interrupted") \in Outcomes
  BY <1>2, SettledOutcome DEF Outcomes
<1>4. old \in [1 .. Len(attempts) -> Outcomes] BY <1>1, <1>3
<1>5. old \in Seq(Outcomes) /\ Len(old) = Len(attempts) BY <1>1, <1>4
<1>6. attempts' = Append(old, "active") BY DEF Begin
<1>7. \A i \in 1 .. Len(attempts) : old[i] = Settled(attempts[i], "interrupted") BY <1>1
<1> HIDE DEF old
<1>8. "active" \in Outcomes BY DEF Outcomes
<1> QED BY <1>1, <1>5, <1>6, <1>7, <1>8

\* The attempts stay well typed, none is taken back, and one that is SUCCESS stays.
AttemptsKept ==
  /\ attempts' \in Seq(Outcomes) /\ Len(attempts') >= Len(attempts)
  /\ Ids \subseteq Ids'
  /\ \A i \in 1 .. Len(attempts) :
       attempts[i] \notin {"active", "finalizing"} => attempts'[i] = attempts[i]

\* A step that leaves the attempts alone keeps them.
LEMMA Unchanged == attempts \in Seq(Outcomes) /\ attempts' = attempts => AttemptsKept
<1> SUFFICES ASSUME attempts \in Seq(Outcomes), attempts' = attempts PROVE AttemptsKept OBVIOUS
<1>1. Len(attempts) \in Nat /\ Len(attempts') = Len(attempts) OBVIOUS
<1> QED BY <1>1 DEF AttemptsKept, Ids

\* A build that raises gives its attempt an outcome, if it has none.
LEMMA FailKeeps ==
  ASSUME attempts \in Seq(Outcomes), NEW p \in Procs, Fail(p)
  PROVE  AttemptsKept /\ Len(attempts') = Len(attempts)
<1> DEFINE o == Settled(attempts[Me], "failed")
<1>1. attempts' = [attempts EXCEPT ![Me] = o] BY DEF Fail
<1>2. CASE Me \in 1 .. Len(attempts)
 <2>1. attempts[Me] \in Outcomes BY <1>2
 <2>2. o \in Outcomes /\ (attempts[Me] \notin {"active", "finalizing"} => o = attempts[Me])
   BY <2>1, SettledOutcome DEF Outcomes
 <2> HIDE DEF o
 <2>3. attempts' \in Seq(Outcomes) /\ Len(attempts') = Len(attempts) BY <1>1, <2>2, LastAttempt
 <2>4. \A i \in 1 .. Len(attempts) : attempts'[i] = IF i = Me THEN o ELSE attempts[i] BY <1>1, <2>2, LastAttempt
 <2> QED BY <2>2, <2>3, <2>4 DEF AttemptsKept, Ids
<1>3. CASE Me \notin 1 .. Len(attempts)
 <2>1. DOMAIN attempts = 1 .. Len(attempts) OBVIOUS
 <2>2. attempts' = attempts BY <1>1, <1>3, <2>1
 <2> QED BY <2>2, Unchanged DEF AttemptsKept
<1> QED BY <1>2, <1>3

\* No step takes back an attempt or changes the outcome of one.
LEMMA AttemptsStep == TypeInv /\ AttemptInv /\ [Next]_vars => AttemptsKept
<1> SUFFICES ASSUME TypeInv, AttemptInv, [Next]_vars PROVE AttemptsKept OBVIOUS
<1> USE SlotsAssumption, InodesAssumption, BoundsAssumption DEF vars, procVars,
    rootVars, stageVars, storeVars, faultVars, TypeInv, TypeOK
<1>1. ASSUME NEW p \in Procs, Open(p) \/ EnterDiscarding(p) \/ StartRemoval(p) \/
         Settle(p) PROVE AttemptsKept
  BY <1>1, Unchanged DEF Open, EnterDiscarding, StartRemoval, Settle
<1>2. ASSUME NEW p \in Procs, Miss(p) \/ Hit(p) \/ Unlink(p) \/ Removed(p) PROVE
         AttemptsKept
  BY <1>2, Unchanged DEF Miss, Hit, Unlink, Removed
<1>3. ASSUME NEW p \in Procs, BeginMaterialization(p) \/ PrepareRoot(p) \/ WriteOwner(p)
         \/ BindRoot(p) PROVE AttemptsKept
  BY <1>3, Unchanged DEF BeginMaterialization, PrepareRoot, WriteOwner, BindRoot
<1>4. ASSUME NEW p \in Procs, Build(p) \/ StageRecord(p) \/ EnterPublishing(p) \/
         PublishRecord(p) PROVE AttemptsKept
  BY <1>4, Unchanged DEF Build, StageRecord, EnterPublishing, PublishRecord
<1>5. ASSUME NEW p \in Procs, PublishIndex(p) \/ PublishEvidence(p) \/ BecomePresent(p)
         \/ RehydratedEvidence(p) PROVE AttemptsKept
  BY <1>5, Unchanged DEF PublishIndex, PublishEvidence, BecomePresent, RehydratedEvidence
<1>6. ASSUME NEW p \in Procs, Rehydrated(p) \/ Attest(p) \/ AttestBusy(p) \/ Inspect(p)
         PROVE AttemptsKept
  BY <1>6, Unchanged DEF Rehydrated, Attest, AttestBusy, Inspect
<1>7. ASSUME NEW p \in Procs, Lease(p) \/ Release(p) \/ StartCleaning(p) \/
         FinishCleaning(p) PROVE AttemptsKept
  BY <1>7, Unchanged DEF Lease, Release, StartCleaning, FinishCleaning
<1>8. ASSUME NEW p \in Procs, RaiseAndUndo(p) \/ RaiseCleaning(p) \/ Crash(p) PROVE
         AttemptsKept
  BY <1>8, Unchanged DEF RaiseAndUndo, RaiseCleaning, Crash
<1>9. ASSUME NEW p \in Procs, Begin(p) PROVE AttemptsKept
 <2>1. \A i \in 1 .. Len(attempts) : attempts[i] \in Outcomes OBVIOUS
 <2>2. Len(attempts') = Len(attempts) + 1 /\ attempts' \in Seq(Outcomes) BY <1>9, NewAttempt
 <2>3. ASSUME NEW i \in 1 .. Len(attempts), attempts[i] \notin {"active", "finalizing"}
       PROVE  attempts'[i] = attempts[i]
  <3>1. attempts'[i] = Settled(attempts[i], "interrupted") BY <1>9, NewAttempt
  <3> QED BY <2>1, <2>3, <3>1, SettledOutcome DEF Outcomes
 <2>4. Len(attempts) \in Nat OBVIOUS
 <2> QED BY <2>2, <2>3, <2>4 DEF AttemptsKept, Ids
<1>10. ASSUME NEW p \in Procs, OpenBusy(p) PROVE AttemptsKept BY <1>10, FailKeeps DEF OpenBusy
<1>11. ASSUME NEW p \in Procs, Refuse(p) PROVE AttemptsKept BY <1>11, FailKeeps DEF Refuse
<1>12. ASSUME NEW p \in Procs, StartFinalizing(p) PROVE AttemptsKept
 <2>1. Me \in 1 .. Len(attempts) /\ attempts[Me] = "active"
   BY <1>12 DEF StartFinalizing, At, TypeInv, TypeOK, LockInv, AttemptInv, Building, Me
 <2> QED BY <1>12, <2>1, LastAttempt DEF StartFinalizing, AttemptsKept, Ids, Outcomes
<1>13. ASSUME NEW p \in Procs, Finalized(p) PROVE AttemptsKept
 <2>1. Me \in 1 .. Len(attempts) /\ attempts[Me] = "finalizing"
   BY <1>13 DEF Finalized, At, TypeInv, TypeOK, LockInv, AttemptInv, Building, Me
 <2> QED BY <1>13, <2>1, LastAttempt DEF Finalized, AttemptsKept, Ids, Outcomes
<1>14. ASSUME NEW p \in Procs, Undone(p) PROVE AttemptsKept BY <1>14, FailKeeps DEF Undone
<1>15. ASSUME NEW p \in Procs, RaiseUnmarked(p) PROVE AttemptsKept BY <1>15, FailKeeps DEF RaiseUnmarked
<1>16. ASSUME NEW p \in Procs, Raise(p) PROVE AttemptsKept BY <1>16, FailKeeps DEF Raise
<1>17. CASE PowerLoss BY <1>17, Unchanged DEF PowerLoss
<1>18. CASE LoseStaged BY <1>18, Unchanged DEF LoseStaged
<1>19. CASE UNCHANGED vars BY <1>19, Unchanged
<1> QED BY <1>1, <1>2, <1>3, <1>4, <1>5, <1>6, <1>7, <1>8, <1>9, <1>10, <1>11, <1>12,
     <1>13, <1>14, <1>15, <1>16, <1>17, <1>18, <1>19 DEF Next, Work, Lookup, Remove,
     Materialize, Publish, Finalize, Fault

\* Every step keeps the processes well typed and the locks with their holders.
LEMMA ProcStep == TypeInv /\ [Next]_vars => (ProcTypeOK /\ LockInv)'
<1> SUFFICES ASSUME TypeInv, [Next]_vars PROVE (ProcTypeOK /\ LockInv)' OBVIOUS
<1> USE SlotsAssumption, InodesAssumption DEF vars, procVars, rootVars, stageVars,
    storeVars, faultVars, TypeInv, TypeOK, ProcTypeOK, LockInv, Building, Locked, Labels
<1>1. ASSUME NEW p \in Procs, EnterDiscarding(p) \/ Settle(p) \/ Unlink(p) \/
         PublishRecord(p) \/ PublishIndex(p) \/ PublishEvidence(p) PROVE (ProcTypeOK /\
         LockInv)'
  BY <1>1 DEF EnterDiscarding, Settle, Unlink, PublishRecord, PublishIndex, PublishEvidence
<1>2. ASSUME NEW p \in Procs, Begin(p) PROVE (ProcTypeOK /\ LockInv)' BY <1>2 DEF Begin, At
<1>3. ASSUME NEW p \in Procs, Open(p) PROVE (ProcTypeOK /\ LockInv)' BY <1>3 DEF Open, At, Enter
<1>4. ASSUME NEW p \in Procs, OpenBusy(p) PROVE (ProcTypeOK /\ LockInv)' BY <1>4 DEF OpenBusy, At, Fail, Return
<1>5. ASSUME NEW p \in Procs, StartRemoval(p) PROVE (ProcTypeOK /\ LockInv)'
  BY <1>5 DEF StartRemoval, At, CanRemove, Removing, Goto
<1>6. ASSUME NEW p \in Procs, Miss(p) PROVE (ProcTypeOK /\ LockInv)' BY <1>6 DEF Miss, At, CanMiss, CanRehydrate
<1>7. ASSUME NEW p \in Procs, Hit(p) PROVE (ProcTypeOK /\ LockInv)'
  BY <1>7 DEF Hit, At, CanHit, PresentVerified, LeaveSession
<1>8. ASSUME NEW p \in Procs, Refuse(p) PROVE (ProcTypeOK /\ LockInv)' BY <1>8 DEF Refuse, At, Fail, Return
<1>9. ASSUME NEW p \in Procs, Removed(p) PROVE (ProcTypeOK /\ LockInv)' BY <1>9 DEF Removed, Removes, NoRoot, At, Goto
<1>10. ASSUME NEW p \in Procs, BeginMaterialization(p) PROVE (ProcTypeOK /\ LockInv)'
  BY <1>10 DEF BeginMaterialization, At, Move, Goto
<1>11. ASSUME NEW p \in Procs, PrepareRoot(p) PROVE (ProcTypeOK /\ LockInv)' BY <1>11 DEF PrepareRoot, At, NoRoot, Goto
<1>12. ASSUME NEW p \in Procs, WriteOwner(p) PROVE (ProcTypeOK /\ LockInv)' BY <1>12 DEF WriteOwner, At, Goto
<1>13. ASSUME NEW p \in Procs, BindRoot(p) PROVE (ProcTypeOK /\ LockInv)' BY <1>13 DEF BindRoot, At, Move, Goto
<1>14. ASSUME NEW p \in Procs, Build(p) PROVE (ProcTypeOK /\ LockInv)' BY <1>14 DEF Build, At, Goto
<1>15. ASSUME NEW p \in Procs, StageRecord(p) PROVE (ProcTypeOK /\ LockInv)' BY <1>15 DEF StageRecord, At, Goto
<1>16. ASSUME NEW p \in Procs, EnterPublishing(p) PROVE (ProcTypeOK /\ LockInv)'
  BY <1>16 DEF EnterPublishing, At, Move, Goto
<1>17. ASSUME NEW p \in Procs, BecomePresent(p) PROVE (ProcTypeOK /\ LockInv)'
  BY <1>17 DEF BecomePresent, Publishes, CanComplete, At, Move, LeaveSession
<1>18. ASSUME NEW p \in Procs, RehydratedEvidence(p) PROVE (ProcTypeOK /\ LockInv)'
  BY <1>18 DEF RehydratedEvidence, At, Goto
<1>19. ASSUME NEW p \in Procs, Rehydrated(p) PROVE (ProcTypeOK /\ LockInv)'
  BY <1>19 DEF Rehydrated, At, Move, LeaveSession
<1>20. ASSUME NEW p \in Procs, StartFinalizing(p) PROVE (ProcTypeOK /\ LockInv)' BY <1>20 DEF StartFinalizing, At, Goto
<1>21. ASSUME NEW p \in Procs, Finalized(p) PROVE (ProcTypeOK /\ LockInv)'
  BY <1>21 DEF Finalized, At, Attests, Goto, Return
<1>22. ASSUME NEW p \in Procs, Attest(p) PROVE (ProcTypeOK /\ LockInv)' BY <1>22 DEF Attest, At, Return
<1>23. ASSUME NEW p \in Procs, AttestBusy(p) PROVE (ProcTypeOK /\ LockInv)' BY <1>23 DEF AttestBusy, At, Return
<1>24. ASSUME NEW p \in Procs, Undone(p) PROVE (ProcTypeOK /\ LockInv)' BY <1>24 DEF Undone, At, Fail, Return
<1>25. ASSUME NEW p \in Procs, Inspect(p) PROVE (ProcTypeOK /\ LockInv)' BY <1>25 DEF Inspect, At, Enter
<1>26. ASSUME NEW p \in Procs, Lease(p) PROVE (ProcTypeOK /\ LockInv)'
 <2>1. root.inode \in Inodes \cup {0} BY DEF RootTypeOK
 <2> QED BY <1>26, <2>1 DEF Lease, At, Enter
<1>27. ASSUME NEW p \in Procs, Release(p) PROVE (ProcTypeOK /\ LockInv)' BY <1>27 DEF Release, At, Return
<1>28. ASSUME NEW p \in Procs, StartCleaning(p) PROVE (ProcTypeOK /\ LockInv)'
  BY <1>28 DEF StartCleaning, At, Enter, PresentVerified, Move
<1>29. ASSUME NEW p \in Procs, FinishCleaning(p) PROVE (ProcTypeOK /\ LockInv)'
  BY <1>29 DEF FinishCleaning, At, Move, Return
<1>30. ASSUME NEW p \in Procs, RaiseAndUndo(p) PROVE (ProcTypeOK /\ LockInv)'
  BY <1>30 DEF RaiseAndUndo, Undoes, At, Goto
<1>31. ASSUME NEW p \in Procs, RaiseUnmarked(p) PROVE (ProcTypeOK /\ LockInv)'
  BY <1>31 DEF RaiseUnmarked, At, Fail, Return
<1>32. ASSUME NEW p \in Procs, Raise(p) PROVE (ProcTypeOK /\ LockInv)' BY <1>32 DEF Raise, Undoes, At, Fail, Return
<1>33. ASSUME NEW p \in Procs, RaiseCleaning(p) PROVE (ProcTypeOK /\ LockInv)' BY <1>33 DEF RaiseCleaning, At, Return
<1>34. ASSUME NEW p \in Procs, Crash(p) PROVE (ProcTypeOK /\ LockInv)' BY <1>34 DEF Crash, At, Return
<1>35. CASE PowerLoss BY <1>35 DEF PowerLoss, At, NoRoot
<1>36. CASE LoseStaged BY <1>36 DEF LoseStaged
<1>37. CASE UNCHANGED vars BY <1>37
<1> QED BY <1>1, <1>2, <1>3, <1>4, <1>5, <1>6, <1>7, <1>8, <1>9, <1>10, <1>11, <1>12,
     <1>13, <1>14, <1>15, <1>16, <1>17, <1>18, <1>19, <1>20, <1>21, <1>22, <1>23, <1>24,
     <1>25, <1>26, <1>27, <1>28, <1>29, <1>30, <1>31, <1>32, <1>33, <1>34, <1>35, <1>36,
     <1>37 DEF Next, Work, Lookup, Remove, Materialize, Publish, Finalize, Fault

\* The number of the attempt in progress, and no attempt, are identities.
LEMMA MeId == attempts \in Seq(Outcomes) => Me \in Ids /\ 0 \in Ids
<1> SUFFICES ASSUME attempts \in Seq(Outcomes) PROVE Me \in Ids /\ 0 \in Ids OBVIOUS
<1>1. Len(attempts) \in Nat OBVIOUS
<1> QED BY <1>1 DEF Me, Ids

\* Every step keeps the journal and the root well typed.
LEMMA RootTypeStep == AttemptsKept /\ TypeInv /\ [Next]_vars => RootTypeOK'
<1> SUFFICES ASSUME AttemptsKept, TypeInv, [Next]_vars PROVE RootTypeOK' OBVIOUS
<1> USE InodesAssumption DEF vars, procVars, rootVars, stageVars, storeVars, faultVars,
    TypeInv, TypeOK, RootTypeOK, AttemptsKept
<1>1. ASSUME NEW p \in Procs, Begin(p) \/ Open(p) \/ OpenBusy(p) \/ StartRemoval(p)
         PROVE RootTypeOK'
  BY <1>1 DEF Begin, Open, OpenBusy, StartRemoval
<1>2. ASSUME NEW p \in Procs, Miss(p) \/ Hit(p) \/ Refuse(p) \/ StageRecord(p) PROVE
         RootTypeOK'
  BY <1>2 DEF Miss, Hit, Refuse, StageRecord
<1>3. ASSUME NEW p \in Procs, PublishRecord(p) \/ PublishIndex(p) \/ PublishEvidence(p)
         \/ RehydratedEvidence(p) PROVE RootTypeOK'
  BY <1>3 DEF PublishRecord, PublishIndex, PublishEvidence, RehydratedEvidence
<1>4. ASSUME NEW p \in Procs, StartFinalizing(p) \/ Finalized(p) \/ Attest(p) \/
         AttestBusy(p) PROVE RootTypeOK'
  BY <1>4 DEF StartFinalizing, Finalized, Attest, AttestBusy
<1>5. ASSUME NEW p \in Procs, Undone(p) \/ Inspect(p) \/ Lease(p) \/ Release(p) PROVE
         RootTypeOK'
  BY <1>5 DEF Undone, Inspect, Lease, Release
<1>6. ASSUME NEW p \in Procs, RaiseAndUndo(p) \/ Raise(p) \/ RaiseCleaning(p) \/
         Crash(p) PROVE RootTypeOK'
  BY <1>6 DEF RaiseAndUndo, Raise, RaiseCleaning, Crash
<1>7. ASSUME NEW p \in Procs, EnterDiscarding(p) PROVE RootTypeOK' BY <1>7 DEF EnterDiscarding, Move, States
<1>8. ASSUME NEW p \in Procs, Settle(p) PROVE RootTypeOK' BY <1>8 DEF Settle, Move, Destination, States
<1>9. ASSUME NEW p \in Procs, Unlink(p) PROVE RootTypeOK' BY <1>9, MeId DEF Unlink
<1>10. ASSUME NEW p \in Procs, Removed(p) PROVE RootTypeOK' BY <1>10, MeId DEF Removed, NoRoot
<1>11. ASSUME NEW p \in Procs, BeginMaterialization(p) PROVE RootTypeOK'
  BY <1>11, MeId DEF BeginMaterialization, Move, States
<1>12. ASSUME NEW p \in Procs, PrepareRoot(p) PROVE RootTypeOK' BY <1>12, MeId DEF PrepareRoot, NoRoot
<1>13. ASSUME NEW p \in Procs, WriteOwner(p) PROVE RootTypeOK' BY <1>13, MeId DEF WriteOwner
<1>14. ASSUME NEW p \in Procs, BindRoot(p) PROVE RootTypeOK' BY <1>14, MeId DEF BindRoot, Move
<1>15. ASSUME NEW p \in Procs, Build(p) PROVE RootTypeOK' BY <1>15 DEF Build
<1>16. ASSUME NEW p \in Procs, EnterPublishing(p) PROVE RootTypeOK' BY <1>16, MeId DEF EnterPublishing, Move, States
<1>17. ASSUME NEW p \in Procs, BecomePresent(p) PROVE RootTypeOK' BY <1>17 DEF BecomePresent, Move, States, StoreTypeOK
<1>18. ASSUME NEW p \in Procs, Rehydrated(p) PROVE RootTypeOK' BY <1>18, MeId DEF Rehydrated, Move, States
<1>19. ASSUME NEW p \in Procs, StartCleaning(p) PROVE RootTypeOK' BY <1>19 DEF StartCleaning, Move, States
<1>20. ASSUME NEW p \in Procs, FinishCleaning(p) PROVE RootTypeOK' BY <1>20 DEF FinishCleaning, Move, States
<1>21. ASSUME NEW p \in Procs, RaiseUnmarked(p) PROVE RootTypeOK' BY <1>21, MeId DEF RaiseUnmarked
<1>22. CASE PowerLoss
 <2>1. root' \in {root, NoRoot, [root EXCEPT !.whole = FALSE, !.marker = 0],
                  [root EXCEPT !.whole = FALSE]}
   BY <1>22 DEF PowerLoss
 <2>2. 0 \in Ids' BY MeId
 <2>3. (root \in [there : BOOLEAN, inode : Inodes \cup {0}, marker : Ids,
                 whole : BOOLEAN, flushed : BOOLEAN])'
  <3>1. CASE root' = root BY <3>1
  <3>2. CASE root' = NoRoot BY <3>2, <2>2 DEF NoRoot
  <3>3. CASE root' = [root EXCEPT !.whole = FALSE, !.marker = 0] BY <3>3, <2>2
  <3>4. CASE root' = [root EXCEPT !.whole = FALSE] BY <3>4
  <3> QED BY <2>1, <3>1, <3>2, <3>3, <3>4
 <2> QED BY <1>22, <2>3 DEF PowerLoss
<1>23. CASE LoseStaged BY <1>23 DEF LoseStaged
<1>24. CASE UNCHANGED vars BY <1>24
<1> QED BY <1>1, <1>2, <1>3, <1>4, <1>5, <1>6, <1>7, <1>8, <1>9, <1>10, <1>11, <1>12,
     <1>13, <1>14, <1>15, <1>16, <1>17, <1>18, <1>19, <1>20, <1>21, <1>22, <1>23, <1>24
     DEF Next, Work, Lookup, Remove, Materialize, Publish, Finalize, Fault

\* Every step keeps the documents well typed.
LEMMA StoreTypeStep == AttemptsKept /\ TypeInv /\ [Next]_vars => StoreTypeOK'
<1> SUFFICES ASSUME AttemptsKept, TypeInv, [Next]_vars PROVE StoreTypeOK' OBVIOUS
<1> USE InodesAssumption DEF vars, procVars, rootVars, stageVars, storeVars, faultVars,
    TypeInv, TypeOK, StoreTypeOK, AttemptsKept
<1>1. ASSUME NEW p \in Procs, Begin(p) \/ Open(p) \/ OpenBusy(p) \/ EnterDiscarding(p)
         \/ StartRemoval(p) PROVE StoreTypeOK'
  BY <1>1 DEF Begin, Open, OpenBusy, EnterDiscarding, StartRemoval
<1>2. ASSUME NEW p \in Procs, Settle(p) \/ Miss(p) \/ Hit(p) \/ Refuse(p) \/ Unlink(p)
         PROVE StoreTypeOK'
  BY <1>2 DEF Settle, Miss, Hit, Refuse, Unlink
<1>3. ASSUME NEW p \in Procs, Removed(p) \/ BeginMaterialization(p) \/ PrepareRoot(p) \/
         WriteOwner(p) \/ BindRoot(p) PROVE StoreTypeOK'
  BY <1>3 DEF Removed, BeginMaterialization, PrepareRoot, WriteOwner, BindRoot
<1>4. ASSUME NEW p \in Procs, Build(p) \/ EnterPublishing(p) \/ BecomePresent(p) \/
         Rehydrated(p) \/ StartFinalizing(p) PROVE StoreTypeOK'
  BY <1>4 DEF Build, EnterPublishing, BecomePresent, Rehydrated, StartFinalizing
<1>5. ASSUME NEW p \in Procs, Finalized(p) \/ AttestBusy(p) \/ Undone(p) \/ Inspect(p)
         \/ Lease(p) PROVE StoreTypeOK'
  BY <1>5 DEF Finalized, AttestBusy, Undone, Inspect, Lease
<1>6. ASSUME NEW p \in Procs, Release(p) \/ StartCleaning(p) \/ FinishCleaning(p) \/
         RaiseAndUndo(p) \/ RaiseUnmarked(p) PROVE StoreTypeOK'
  BY <1>6 DEF Release, StartCleaning, FinishCleaning, RaiseAndUndo, RaiseUnmarked
<1>7. ASSUME NEW p \in Procs, Raise(p) \/ RaiseCleaning(p) \/ Crash(p) PROVE
         StoreTypeOK'
  BY <1>7 DEF Raise, RaiseCleaning, Crash
<1>8. ASSUME NEW p \in Procs, StageRecord(p) PROVE StoreTypeOK' BY <1>8, MeId DEF StageRecord
<1>9. ASSUME NEW p \in Procs, PublishRecord(p) PROVE StoreTypeOK' BY <1>9 DEF PublishRecord, RootTypeOK
<1>10. ASSUME NEW p \in Procs, PublishIndex(p) PROVE StoreTypeOK' BY <1>10 DEF PublishIndex
<1>11. ASSUME NEW p \in Procs, PublishEvidence(p) PROVE StoreTypeOK' BY <1>11 DEF PublishEvidence, RootTypeOK
<1>12. ASSUME NEW p \in Procs, RehydratedEvidence(p) PROVE StoreTypeOK' BY <1>12, MeId DEF RehydratedEvidence
<1>13. ASSUME NEW p \in Procs, Attest(p) PROVE StoreTypeOK' BY <1>13, MeId DEF Attest
<1>14. CASE PowerLoss BY <1>14 DEF PowerLoss
<1>15. CASE LoseStaged BY <1>15 DEF LoseStaged
<1>16. CASE UNCHANGED vars BY <1>16
<1> QED BY <1>1, <1>2, <1>3, <1>4, <1>5, <1>6, <1>7, <1>8, <1>9, <1>10, <1>11, <1>12,
     <1>13, <1>14, <1>15, <1>16 DEF Next, Work, Lookup, Remove, Materialize, Publish,
     Finalize, Fault

\* The faults stay within their bounds.
LEMMA FaultTypeStep == TypeInv /\ [Next]_vars => FaultTypeOK'
<1> SUFFICES ASSUME TypeInv, [Next]_vars PROVE FaultTypeOK' OBVIOUS
<1> USE BoundsAssumption DEF vars, procVars, rootVars, stageVars, storeVars, faultVars,
    TypeInv, TypeOK, FaultTypeOK
<1>1. ASSUME NEW p \in Procs, Begin(p) \/ Open(p) \/ OpenBusy(p) \/ EnterDiscarding(p)
         \/ StartRemoval(p) PROVE FaultTypeOK'
  BY <1>1 DEF Begin, Open, OpenBusy, EnterDiscarding, StartRemoval
<1>2. ASSUME NEW p \in Procs, Settle(p) \/ Miss(p) \/ Hit(p) \/ Refuse(p) \/ Unlink(p)
         PROVE FaultTypeOK'
  BY <1>2 DEF Settle, Miss, Hit, Refuse, Unlink
<1>3. ASSUME NEW p \in Procs, Removed(p) \/ BeginMaterialization(p) \/ PrepareRoot(p) \/
         WriteOwner(p) \/ BindRoot(p) PROVE FaultTypeOK'
  BY <1>3 DEF Removed, BeginMaterialization, PrepareRoot, WriteOwner, BindRoot
<1>4. ASSUME NEW p \in Procs, Build(p) \/ StageRecord(p) \/ EnterPublishing(p) \/
         PublishRecord(p) \/ PublishIndex(p) PROVE FaultTypeOK'
  BY <1>4 DEF Build, StageRecord, EnterPublishing, PublishRecord, PublishIndex
<1>5. ASSUME NEW p \in Procs, PublishEvidence(p) \/ BecomePresent(p) \/
         RehydratedEvidence(p) \/ Rehydrated(p) \/ StartFinalizing(p) PROVE FaultTypeOK'
  BY <1>5 DEF PublishEvidence, BecomePresent, RehydratedEvidence, Rehydrated, StartFinalizing
<1>6. ASSUME NEW p \in Procs, Finalized(p) \/ Attest(p) \/ AttestBusy(p) \/ Undone(p) \/
         Inspect(p) PROVE FaultTypeOK'
  BY <1>6 DEF Finalized, Attest, AttestBusy, Undone, Inspect
<1>7. ASSUME NEW p \in Procs, Lease(p) \/ Release(p) \/ StartCleaning(p) \/
         FinishCleaning(p) PROVE FaultTypeOK'
  BY <1>7 DEF Lease, Release, StartCleaning, FinishCleaning
<1>8. ASSUME NEW p \in Procs, RaiseAndUndo(p) PROVE FaultTypeOK' BY <1>8 DEF RaiseAndUndo
<1>9. ASSUME NEW p \in Procs, RaiseUnmarked(p) PROVE FaultTypeOK' BY <1>9 DEF RaiseUnmarked
<1>10. ASSUME NEW p \in Procs, Raise(p) PROVE FaultTypeOK' BY <1>10 DEF Raise
<1>11. ASSUME NEW p \in Procs, RaiseCleaning(p) PROVE FaultTypeOK' BY <1>11 DEF RaiseCleaning
<1>12. ASSUME NEW p \in Procs, Crash(p) PROVE FaultTypeOK' BY <1>12 DEF Crash
<1>13. CASE PowerLoss BY <1>13 DEF PowerLoss
<1>14. CASE LoseStaged BY <1>14 DEF LoseStaged
<1>15. CASE UNCHANGED vars BY <1>15
<1> QED BY <1>1, <1>2, <1>3, <1>4, <1>5, <1>6, <1>7, <1>8, <1>9, <1>10, <1>11, <1>12,
     <1>13, <1>14, <1>15 DEF Next, Work, Lookup, Remove, Materialize, Publish, Finalize,
     Fault

\* Every step keeps the types and the locks.
LEMMA TypeStep == TypeInv /\ AttemptInv /\ [Next]_vars => TypeInv'
<1> SUFFICES ASSUME TypeInv, AttemptInv, [Next]_vars PROVE TypeInv' OBVIOUS
<1>1. AttemptsKept BY AttemptsStep
<1>2. (attempts \in Seq(Outcomes))' BY <1>1 DEF AttemptsKept
<1> QED BY <1>1, <1>2, ProcStep, RootTypeStep, StoreTypeStep, FaultTypeStep DEF TypeInv, TypeOK

\* A build that raises leaves no attempt open.
LEMMA FailAttempts ==
  ASSUME TypeInv, AttemptInv, NEW p \in Procs, recipe = p, Fail(p)
  PROVE  AttemptInv'
<1> USE SlotsAssumption DEF TypeInv, TypeOK, LockInv, ProcTypeOK
<1> DEFINE o == Settled(attempts[Me], "failed")
<1>1. \A q \in Procs : pc'[q] \notin Building /\ recipe' = Nobody BY DEF Fail, Return, Building
<1>2. Me \in 1 .. Len(attempts) /\ attempts[Me] \in Outcomes BY DEF AttemptInv, Me
<1>3. o \in Outcomes /\ o \notin {"active", "finalizing"} BY <1>2 DEF Settled, Outcomes
<1>4. attempts' = [attempts EXCEPT ![Me] = o] BY DEF Fail
<1> HIDE DEF o
<1>5. /\ attempts' \in Seq(Outcomes) /\ Len(attempts') = Len(attempts)
      /\ \A i \in 1 .. Len(attempts) : attempts'[i] = IF i = Me THEN o ELSE attempts[i]
  BY <1>3, <1>4, LastAttempt
<1>6. DOMAIN attempts = 1 .. Len(attempts) /\ DOMAIN attempts' = 1 .. Len(attempts) BY <1>5
<1>7. \A i \in DOMAIN attempts' : attempts'[i] \notin {"active", "finalizing"} BY <1>3, <1>5, <1>6 DEF AttemptInv
<1> QED BY <1>1, <1>7 DEF AttemptInv, Building

\* Only the last attempt is open, and nothing bears its number before it builds.
LEMMA AttemptStep == TypeInv /\ AttemptInv /\ BindInv /\ StepInv /\ [Next]_vars => AttemptInv'
<1> SUFFICES ASSUME TypeInv, AttemptInv, BindInv, StepInv, [Next]_vars PROVE AttemptInv' OBVIOUS
<1> USE SlotsAssumption DEF vars, procVars, rootVars, stageVars, storeVars, faultVars,
    TypeInv, TypeOK, LockInv, Building, Locked, AttemptInv, Me
<1>1. ASSUME NEW p \in Procs, Unlink(p) \/ PublishIndex(p) \/ PublishEvidence(p) PROVE
         AttemptInv'
  BY <1>1 DEF Unlink, PublishIndex, PublishEvidence
<1>2. ASSUME NEW p \in Procs, Begin(p) PROVE AttemptInv'
 <2>1. /\ attempts' \in Seq(Outcomes) /\ Len(attempts') = Len(attempts) + 1
       /\ attempts'[Len(attempts) + 1] = "active"
       /\ \A i \in 1 .. Len(attempts) : attempts'[i] = Settled(attempts[i], "interrupted")
   BY <1>2, NewAttempt
 <2>2. \A i \in 1 .. Len(attempts) : attempts[i] \in Outcomes OBVIOUS
 <2>3. \A i \in 1 .. Len(attempts) : attempts'[i] \notin {"active", "finalizing"} BY <2>1, <2>2 DEF Settled, Outcomes
 <2>4. Len(attempts) \in Nat /\ DOMAIN attempts' = 1 .. Len(attempts) + 1 BY <2>1
 <2>5. recipe' = p /\ pc' = [pc EXCEPT ![p] = "begun"] BY <1>2 DEF Begin
 <2>6. record' < Len(attempts) + 1 /\ journal'.attempt < Len(attempts) + 1
   BY <1>2, <2>4 DEF Begin, Ids, StoreTypeOK, RootTypeOK
 <2>7. \A q \in Procs : pc'[q] \in Building => q = p BY <1>2, <2>5 DEF Begin, At
 <2>8. \A i \in DOMAIN attempts' : attempts'[i] \in {"active", "finalizing"} => i = Len(attempts') BY <2>1, <2>3, <2>4
 <2>9. record' # Len(attempts') /\ journal'.attempt # Len(attempts') /\ Len(attempts') > 0
   BY <2>1, <2>4, <2>6 DEF Ids, StoreTypeOK, RootTypeOK
 <2>10. pc'[p] = "begun" /\ attempts'[Len(attempts')] = "active" BY <2>1, <2>5 DEF ProcTypeOK
 <2> HIDE DEF TypeInv, TypeOK, Settled
 <2> QED BY <2>7, <2>8, <2>9, <2>10
<1>3. ASSUME NEW p \in Procs, Open(p) PROVE AttemptInv' BY <1>3 DEF Open, At, Enter
<1>4. ASSUME NEW p \in Procs, OpenBusy(p) PROVE AttemptInv'
 <2>1. recipe = p BY <1>4 DEF OpenBusy, At
 <2> QED BY <1>4, <2>1, FailAttempts DEF OpenBusy
<1>5. ASSUME NEW p \in Procs, EnterDiscarding(p) PROVE AttemptInv'
  BY <1>5 DEF EnterDiscarding, At, CanDiscard, Interrupted, Unpublishable, Completable, Move
<1>6. ASSUME NEW p \in Procs, StartRemoval(p) PROVE AttemptInv' BY <1>6 DEF StartRemoval, At, CanRemove, Removing, Goto
<1>7. ASSUME NEW p \in Procs, Settle(p) PROVE AttemptInv'
  BY <1>7 DEF Settle, At, CanSettle, Removing, Move, Destination
<1>8. ASSUME NEW p \in Procs, Miss(p) PROVE AttemptInv' BY <1>8 DEF Miss, At, CanMiss, CanRehydrate
<1>9. ASSUME NEW p \in Procs, Hit(p) PROVE AttemptInv' BY <1>9 DEF Hit, At, CanHit, PresentVerified, LeaveSession
<1>10. ASSUME NEW p \in Procs, Refuse(p) PROVE AttemptInv'
 <2>1. recipe = p BY <1>10 DEF Refuse, At
 <2> QED BY <1>10, <2>1, FailAttempts DEF Refuse
<1>11. ASSUME NEW p \in Procs, Removed(p) PROVE AttemptInv' BY <1>11 DEF Removed, Removes, NoRoot, At, Goto
<1>12. ASSUME NEW p \in Procs, BeginMaterialization(p) PROVE AttemptInv'
  BY <1>12 DEF BeginMaterialization, At, Move, Goto
<1>13. ASSUME NEW p \in Procs, PrepareRoot(p) PROVE AttemptInv' BY <1>13 DEF PrepareRoot, At, NoRoot, Goto
<1>14. ASSUME NEW p \in Procs, WriteOwner(p) PROVE AttemptInv' BY <1>14 DEF WriteOwner, At, Goto
<1>15. ASSUME NEW p \in Procs, BindRoot(p) PROVE AttemptInv' BY <1>15 DEF BindRoot, At, Move, Goto
<1>16. ASSUME NEW p \in Procs, Build(p) PROVE AttemptInv' BY <1>16 DEF Build, At, Goto
<1>17. ASSUME NEW p \in Procs, StageRecord(p) PROVE AttemptInv' BY <1>17 DEF StageRecord, At, Goto
<1>18. ASSUME NEW p \in Procs, EnterPublishing(p) PROVE AttemptInv' BY <1>18 DEF EnterPublishing, At, Move, Goto
<1>19. ASSUME NEW p \in Procs, PublishRecord(p) PROVE AttemptInv'
  BY <1>19 DEF PublishRecord, Publishes, CanComplete, At
<1>20. ASSUME NEW p \in Procs, BecomePresent(p) PROVE AttemptInv'
 <2>1. journal'.attempt = journal.attempt BY <1>20 DEF BecomePresent, Move, RootTypeOK
 <2>2. CASE At(p, "publish") BY <1>20, <2>1, <2>2 DEF BecomePresent, At, LeaveSession, ProcTypeOK
 <2>3. CASE ~At(p, "publish") BY <1>20, <2>1, <2>3 DEF BecomePresent
 <2> QED BY <2>2, <2>3
<1>21. ASSUME NEW p \in Procs, RehydratedEvidence(p) PROVE AttemptInv' BY <1>21 DEF RehydratedEvidence, At, Goto
<1>22. ASSUME NEW p \in Procs, Rehydrated(p) PROVE AttemptInv' BY <1>22 DEF Rehydrated, At, Move, LeaveSession
<1>23. ASSUME NEW p \in Procs, StartFinalizing(p) PROVE AttemptInv'
 <2>1. recipe = p /\ Me \in 1 .. Len(attempts) BY <1>23 DEF StartFinalizing, At
 <2>2. attempts' = [attempts EXCEPT ![Me] = "finalizing"] /\ "finalizing" \in Outcomes
   BY <1>23 DEF StartFinalizing, Outcomes
 <2>3. /\ attempts' \in Seq(Outcomes) /\ Len(attempts') = Len(attempts)
       /\ \A i \in 1 .. Len(attempts) : attempts'[i] = IF i = Me THEN "finalizing" ELSE attempts[i]
   BY <2>2, LastAttempt
 <2>4. DOMAIN attempts = 1 .. Len(attempts) /\ DOMAIN attempts' = 1 .. Len(attempts) BY <2>3
 <2>5. \A i \in DOMAIN attempts' : attempts'[i] \in {"active", "finalizing"} => i = Len(attempts') BY <2>3, <2>4
 <2>6. attempts'[Len(attempts')] = "finalizing" /\ Len(attempts') > 0 BY <2>1, <2>3
 <2>7. \A q \in Procs : pc'[q] \in Building => q = p /\ pc'[q] = "record"
   BY <1>23, <2>1 DEF StartFinalizing, At, Goto, Return, Attests, ProcTypeOK
 <2> HIDE DEF TypeInv, TypeOK
 <2> QED BY <2>5, <2>6, <2>7
<1>24. ASSUME NEW p \in Procs, Finalized(p) PROVE AttemptInv'
 <2>1. recipe = p /\ Me \in 1 .. Len(attempts) BY <1>24 DEF Finalized, At
 <2>2. attempts' = [attempts EXCEPT ![Me] = "success"] /\ "success" \in Outcomes BY <1>24 DEF Finalized, Outcomes
 <2>3. /\ attempts' \in Seq(Outcomes) /\ Len(attempts') = Len(attempts)
       /\ \A i \in 1 .. Len(attempts) : attempts'[i] = IF i = Me THEN "success" ELSE attempts[i]
   BY <2>2, LastAttempt
 <2>4. DOMAIN attempts = 1 .. Len(attempts) /\ DOMAIN attempts' = 1 .. Len(attempts) BY <2>3
 <2>5. \A i \in DOMAIN attempts' : attempts'[i] \in {"active", "finalizing"} => i = Len(attempts') BY <2>3, <2>4
 <2>6. attempts'[Len(attempts')] = "success" /\ Len(attempts') > 0 BY <2>1, <2>3
 <2>7. \A q \in Procs : pc'[q] \in Building => q = p /\ pc'[q] = "attest"
   BY <1>24, <2>1 DEF Finalized, At, Goto, Return, Attests, ProcTypeOK
 <2> HIDE DEF TypeInv, TypeOK
 <2> QED BY <2>5, <2>6, <2>7
<1>25. ASSUME NEW p \in Procs, Attest(p) PROVE AttemptInv' BY <1>25 DEF Attest, At, Return
<1>26. ASSUME NEW p \in Procs, AttestBusy(p) PROVE AttemptInv' BY <1>26 DEF AttestBusy, At, Return
<1>27. ASSUME NEW p \in Procs, Undone(p) PROVE AttemptInv'
 <2>1. recipe = p BY <1>27 DEF Undone, At
 <2> QED BY <1>27, <2>1, FailAttempts DEF Undone
<1>28. ASSUME NEW p \in Procs, Inspect(p) PROVE AttemptInv' BY <1>28 DEF Inspect, At, Enter
<1>29. ASSUME NEW p \in Procs, Lease(p) PROVE AttemptInv' BY <1>29 DEF Lease, At, Enter, PresentVerified
<1>30. ASSUME NEW p \in Procs, Release(p) PROVE AttemptInv' BY <1>30 DEF Release, At, Return
<1>31. ASSUME NEW p \in Procs, StartCleaning(p) PROVE AttemptInv'
  BY <1>31 DEF StartCleaning, At, Enter, PresentVerified, Move
<1>32. ASSUME NEW p \in Procs, FinishCleaning(p) PROVE AttemptInv' BY <1>32 DEF FinishCleaning, At, Move, Return
<1>33. ASSUME NEW p \in Procs, RaiseAndUndo(p) PROVE AttemptInv' BY <1>33 DEF RaiseAndUndo, Undoes, At, Goto
<1>34. ASSUME NEW p \in Procs, RaiseUnmarked(p) PROVE AttemptInv'
 <2>1. recipe = p BY <1>34 DEF RaiseUnmarked, At
 <2> QED BY <1>34, <2>1, FailAttempts DEF RaiseUnmarked
<1>35. ASSUME NEW p \in Procs, Raise(p) PROVE AttemptInv'
 <2>1. recipe = p BY <1>35 DEF Raise, At
 <2> QED BY <1>35, <2>1, FailAttempts DEF Raise
<1>36. ASSUME NEW p \in Procs, RaiseCleaning(p) PROVE AttemptInv' BY <1>36 DEF RaiseCleaning, At, Return
<1>37. ASSUME NEW p \in Procs, Crash(p) PROVE AttemptInv' BY <1>37 DEF Crash, At, Return
<1>38. CASE PowerLoss BY <1>38 DEF PowerLoss, At, NoRoot
<1>39. CASE LoseStaged BY <1>39 DEF LoseStaged
<1>40. CASE UNCHANGED vars BY <1>40
<1> QED BY <1>1, <1>2, <1>3, <1>4, <1>5, <1>6, <1>7, <1>8, <1>9, <1>10, <1>11, <1>12,
     <1>13, <1>14, <1>15, <1>16, <1>17, <1>18, <1>19, <1>20, <1>21, <1>22, <1>23, <1>24,
     <1>25, <1>26, <1>27, <1>28, <1>29, <1>30, <1>31, <1>32, <1>33, <1>34, <1>35, <1>36,
     <1>37, <1>38, <1>39, <1>40 DEF Next, Work, Lookup, Remove, Materialize, Publish,
     Finalize, Fault

\* What the journal binds stays in order.
LEMMA BindStep == IInv /\ AttemptsKept /\ [Next]_vars => BindInv'
<1> SUFFICES ASSUME IInv, AttemptsKept, [Next]_vars PROVE BindInv' OBVIOUS
<1> USE SlotsAssumption DEF vars, procVars, rootVars, stageVars, storeVars, faultVars,
    IInv, TypeInv, TypeOK, RootTypeOK, LockInv, Locked, BindInv, StepInv
<1>1. ASSUME NEW p \in Procs, Begin(p) \/ Open(p) \/ OpenBusy(p) \/ StartRemoval(p) \/
         Miss(p) PROVE BindInv'
  BY <1>1 DEF Begin, Open, OpenBusy, StartRemoval, Miss
<1>2. ASSUME NEW p \in Procs, Hit(p) \/ Refuse(p) \/ StartFinalizing(p) \/ Finalized(p)
         \/ AttestBusy(p) PROVE BindInv'
  BY <1>2 DEF Hit, Refuse, StartFinalizing, Finalized, AttestBusy
<1>3. ASSUME NEW p \in Procs, Undone(p) \/ Inspect(p) \/ Lease(p) \/ Release(p) \/
         RaiseAndUndo(p) PROVE BindInv'
  BY <1>3 DEF Undone, Inspect, Lease, Release, RaiseAndUndo
<1>4. ASSUME NEW p \in Procs, Raise(p) \/ RaiseCleaning(p) \/ Crash(p) \/
         RaiseUnmarked(p) \/ Unlink(p) PROVE BindInv'
  BY <1>4 DEF Raise, RaiseCleaning, Crash, RaiseUnmarked, Unlink
<1>5. ASSUME NEW p \in Procs, Removed(p) \/ PrepareRoot(p) \/ WriteOwner(p) \/ Build(p)
         PROVE BindInv'
  BY <1>5 DEF Removed, PrepareRoot, WriteOwner, Build
<1>6. ASSUME NEW p \in Procs, EnterDiscarding(p) PROVE BindInv'
  BY <1>6 DEF EnterDiscarding, At, CanDiscard, Interrupted, Unpublishable, Completable, Move
<1>7. ASSUME NEW p \in Procs, Settle(p) PROVE BindInv' BY <1>7 DEF Settle, At, CanSettle, Removing, Move, Destination
<1>8. ASSUME NEW p \in Procs, BeginMaterialization(p) PROVE BindInv' BY <1>8 DEF BeginMaterialization, At, Move, Goto
<1>9. ASSUME NEW p \in Procs, BindRoot(p) PROVE BindInv' BY <1>9 DEF BindRoot, At, Move, Goto
<1>10. ASSUME NEW p \in Procs, StageRecord(p) PROVE BindInv' BY <1>10 DEF StageRecord, At, Goto
<1>11. ASSUME NEW p \in Procs, EnterPublishing(p) PROVE BindInv'
 <2>1. Me > 0 /\ At(p, "publishing") BY <1>11 DEF EnterPublishing, At, AttemptInv, Building
 <2> QED BY <1>11, <2>1 DEF EnterPublishing, At, Move, Goto
<1>12. ASSUME NEW p \in Procs, PublishRecord(p) PROVE BindInv' BY <1>12 DEF PublishRecord, Publishes, CanComplete, At
<1>13. ASSUME NEW p \in Procs, PublishIndex(p) PROVE BindInv' BY <1>13 DEF PublishIndex, Publishes, CanComplete, At
<1>14. ASSUME NEW p \in Procs, PublishEvidence(p) PROVE BindInv'
  BY <1>14 DEF PublishEvidence, Publishes, CanComplete, At
<1>15. ASSUME NEW p \in Procs, BecomePresent(p) PROVE BindInv'
  BY <1>15 DEF BecomePresent, Publishes, CanComplete, At, Move, LeaveSession
<1>16. ASSUME NEW p \in Procs, RehydratedEvidence(p) PROVE BindInv' BY <1>16 DEF RehydratedEvidence, At, Goto
<1>17. ASSUME NEW p \in Procs, Rehydrated(p) PROVE BindInv'
 <2>1. Me > 0 /\ At(p, "rehydrated") BY <1>17 DEF Rehydrated, At, AttemptInv, Building
 <2> QED BY <1>17, <2>1 DEF Rehydrated, At, Move, LeaveSession
<1>18. ASSUME NEW p \in Procs, Attest(p) PROVE BindInv' BY <1>18 DEF Attest, At, Return
<1>19. ASSUME NEW p \in Procs, StartCleaning(p) PROVE BindInv'
  BY <1>19 DEF StartCleaning, At, Enter, PresentVerified, Move
<1>20. ASSUME NEW p \in Procs, FinishCleaning(p) PROVE BindInv' BY <1>20 DEF FinishCleaning, At, Move, Return
<1>21. CASE PowerLoss BY <1>21 DEF PowerLoss
<1>22. CASE LoseStaged BY <1>22 DEF LoseStaged
<1>23. CASE UNCHANGED vars BY SMTT(40), <1>23
<1> QED BY <1>1, <1>2, <1>3, <1>4, <1>5, <1>6, <1>7, <1>8, <1>9, <1>10, <1>11, <1>12,
     <1>13, <1>14, <1>15, <1>16, <1>17, <1>18, <1>19, <1>20, <1>21, <1>22, <1>23 DEF
     Next, Work, Lookup, Remove, Materialize, Publish, Finalize, Fault

\* The journal is where the steps of each process take it to be.
LEMMA StepStep == IInv /\ AttemptsKept /\ [Next]_vars => StepInv'
<1> SUFFICES ASSUME IInv, AttemptsKept, [Next]_vars PROVE StepInv' OBVIOUS
<1> USE SlotsAssumption DEF vars, procVars, rootVars, stageVars, storeVars, faultVars,
    IInv, TypeInv, TypeOK, RootTypeOK, ProcTypeOK, LockInv, Locked, Building, StepInv,
    Me
<1>1. ASSUME NEW p \in Procs, PublishRecord(p) \/ PublishIndex(p) PROVE StepInv'
  BY <1>1 DEF PublishRecord, PublishIndex
<1>2. ASSUME NEW p \in Procs, Begin(p) PROVE StepInv' BY <1>2 DEF Begin, At
<1>3. ASSUME NEW p \in Procs, Open(p) PROVE StepInv' BY <1>3 DEF Open, At, Enter
<1>4. ASSUME NEW p \in Procs, OpenBusy(p) PROVE StepInv' BY <1>4 DEF OpenBusy, At, Fail, Return
<1>5. ASSUME NEW p \in Procs, EnterDiscarding(p) PROVE StepInv'
  BY <1>5 DEF EnterDiscarding, At, CanDiscard, Interrupted, Unpublishable, Completable, Move
<1>6. ASSUME NEW p \in Procs, StartRemoval(p) PROVE StepInv' BY <1>6 DEF StartRemoval, At, CanRemove, Removing, Goto
<1>7. ASSUME NEW p \in Procs, Settle(p) PROVE StepInv' BY <1>7 DEF Settle, At, CanSettle, Removing, Move, Destination
<1>8. ASSUME NEW p \in Procs, Miss(p) PROVE StepInv' BY <1>8 DEF Miss, At, CanMiss, CanRehydrate
<1>9. ASSUME NEW p \in Procs, Hit(p) PROVE StepInv' BY <1>9 DEF Hit, At, CanHit, PresentVerified, LeaveSession
<1>10. ASSUME NEW p \in Procs, Refuse(p) PROVE StepInv' BY <1>10 DEF Refuse, At, Fail, Return
<1>11. ASSUME NEW p \in Procs, Unlink(p) PROVE StepInv' BY <1>11 DEF Unlink, Removes
<1>12. ASSUME NEW p \in Procs, Removed(p) PROVE StepInv' BY <1>12 DEF Removed, Removes, NoRoot, At, Goto
<1>13. ASSUME NEW p \in Procs, BeginMaterialization(p) PROVE StepInv' BY <1>13 DEF BeginMaterialization, At, Move, Goto
<1>14. ASSUME NEW p \in Procs, PrepareRoot(p) PROVE StepInv' BY <1>14 DEF PrepareRoot, At, NoRoot, Goto
<1>15. ASSUME NEW p \in Procs, WriteOwner(p) PROVE StepInv' BY <1>15 DEF WriteOwner, At, Goto
<1>16. ASSUME NEW p \in Procs, BindRoot(p) PROVE StepInv' BY <1>16 DEF BindRoot, At, Move, Goto
<1>17. ASSUME NEW p \in Procs, Build(p) PROVE StepInv' BY <1>17 DEF Build, At, Goto
<1>18. ASSUME NEW p \in Procs, StageRecord(p) PROVE StepInv' BY <1>18 DEF StageRecord, At, Goto
<1>19. ASSUME NEW p \in Procs, EnterPublishing(p) PROVE StepInv' BY <1>19 DEF EnterPublishing, At, Move, Goto
<1>20. ASSUME NEW p \in Procs, PublishEvidence(p) PROVE StepInv'
  BY <1>20 DEF PublishEvidence, Publishes, CanComplete, At
<1>21. ASSUME NEW p \in Procs, BecomePresent(p) PROVE StepInv'
  BY <1>21 DEF BecomePresent, Publishes, CanComplete, At, Move, LeaveSession
<1>22. ASSUME NEW p \in Procs, RehydratedEvidence(p) PROVE StepInv' BY <1>22 DEF RehydratedEvidence, At, Goto
<1>23. ASSUME NEW p \in Procs, Rehydrated(p) PROVE StepInv' BY <1>23 DEF Rehydrated, At, Move, LeaveSession
<1>24. ASSUME NEW p \in Procs, StartFinalizing(p) PROVE StepInv' BY <1>24 DEF StartFinalizing, At, Goto
<1>25. ASSUME NEW p \in Procs, Finalized(p) PROVE StepInv' BY <1>25 DEF Finalized, At, Attests, Goto, Return
<1>26. ASSUME NEW p \in Procs, Attest(p) PROVE StepInv' BY <1>26 DEF Attest, At, Return
<1>27. ASSUME NEW p \in Procs, AttestBusy(p) PROVE StepInv' BY <1>27 DEF AttestBusy, At, Return
<1>28. ASSUME NEW p \in Procs, Undone(p) PROVE StepInv' BY <1>28 DEF Undone, At, Fail, Return
<1>29. ASSUME NEW p \in Procs, Inspect(p) PROVE StepInv' BY <1>29 DEF Inspect, At, Enter
<1>30. ASSUME NEW p \in Procs, Lease(p) PROVE StepInv' BY <1>30 DEF Lease, At, Enter, PresentVerified
<1>31. ASSUME NEW p \in Procs, Release(p) PROVE StepInv' BY <1>31 DEF Release, At, Return
<1>32. ASSUME NEW p \in Procs, StartCleaning(p) PROVE StepInv'
  BY <1>32 DEF StartCleaning, At, Enter, PresentVerified, Move
<1>33. ASSUME NEW p \in Procs, FinishCleaning(p) PROVE StepInv' BY <1>33 DEF FinishCleaning, At, Move, Return
<1>34. ASSUME NEW p \in Procs, RaiseAndUndo(p) PROVE StepInv' BY <1>34 DEF RaiseAndUndo, Undoes, At, Goto
<1>35. ASSUME NEW p \in Procs, RaiseUnmarked(p) PROVE StepInv' BY <1>35 DEF RaiseUnmarked, At, Fail, Return
<1>36. ASSUME NEW p \in Procs, Raise(p) PROVE StepInv' BY <1>36 DEF Raise, Undoes, At, Fail, Return
<1>37. ASSUME NEW p \in Procs, RaiseCleaning(p) PROVE StepInv' BY <1>37 DEF RaiseCleaning, At, Return
<1>38. ASSUME NEW p \in Procs, Crash(p) PROVE StepInv' BY <1>38 DEF Crash, At, Return
<1>39. CASE PowerLoss BY <1>39 DEF PowerLoss, At, NoRoot
<1>40. CASE LoseStaged BY <1>40 DEF LoseStaged
<1>41. CASE UNCHANGED vars BY SMTT(40), <1>41
<1> QED BY <1>1, <1>2, <1>3, <1>4, <1>5, <1>6, <1>7, <1>8, <1>9, <1>10, <1>11, <1>12,
     <1>13, <1>14, <1>15, <1>16, <1>17, <1>18, <1>19, <1>20, <1>21, <1>22, <1>23, <1>24,
     <1>25, <1>26, <1>27, <1>28, <1>29, <1>30, <1>31, <1>32, <1>33, <1>34, <1>35, <1>36,
     <1>37, <1>38, <1>39, <1>40, <1>41 DEF Next, Work, Lookup, Remove, Materialize,
     Publish, Finalize, Fault

\* The root is where the journal and the steps of a build take it to be.
LEMMA RootStep == IInv /\ AttemptsKept /\ [Next]_vars => RootInv'
<1> SUFFICES ASSUME IInv, AttemptsKept, [Next]_vars PROVE RootInv' OBVIOUS
<1> USE SlotsAssumption, InodesAssumption DEF vars, procVars, rootVars, stageVars,
    storeVars, faultVars, IInv, TypeInv, TypeOK, RootTypeOK, ProcTypeOK, LockInv,
    Locked, Building, StepInv, RootInv, Owned, Me
<1>1. ASSUME NEW p \in Procs, PublishRecord(p) \/ PublishIndex(p) PROVE RootInv'
  BY <1>1 DEF PublishRecord, PublishIndex
<1>2. ASSUME NEW p \in Procs, Begin(p) PROVE RootInv' BY <1>2 DEF Begin, At
<1>3. ASSUME NEW p \in Procs, Open(p) PROVE RootInv' BY <1>3 DEF Open, At, Enter
<1>4. ASSUME NEW p \in Procs, OpenBusy(p) PROVE RootInv' BY <1>4 DEF OpenBusy, At, Fail, Return
<1>5. ASSUME NEW p \in Procs, EnterDiscarding(p) PROVE RootInv'
  BY <1>5 DEF EnterDiscarding, At, CanDiscard, Interrupted, Unpublishable, Completable, Move
<1>6. ASSUME NEW p \in Procs, StartRemoval(p) PROVE RootInv' BY <1>6 DEF StartRemoval, At, CanRemove, Removing, Goto
<1>7. ASSUME NEW p \in Procs, Settle(p) PROVE RootInv' BY <1>7 DEF Settle, At, CanSettle, Removing, Move, Destination
<1>8. ASSUME NEW p \in Procs, Miss(p) PROVE RootInv' BY <1>8 DEF Miss, At, CanMiss, CanRehydrate
<1>9. ASSUME NEW p \in Procs, Hit(p) PROVE RootInv' BY <1>9 DEF Hit, At, CanHit, PresentVerified, LeaveSession
<1>10. ASSUME NEW p \in Procs, Refuse(p) PROVE RootInv' BY <1>10 DEF Refuse, At, Fail, Return
<1>11. ASSUME NEW p \in Procs, Unlink(p) PROVE RootInv' BY <1>11 DEF Unlink, Removes
<1>12. ASSUME NEW p \in Procs, Removed(p) PROVE RootInv' BY <1>12 DEF Removed, Removes, NoRoot, At, Goto
<1>13. ASSUME NEW p \in Procs, BeginMaterialization(p) PROVE RootInv' BY <1>13 DEF BeginMaterialization, At, Move, Goto
<1>14. ASSUME NEW p \in Procs, PrepareRoot(p) PROVE RootInv' BY <1>14 DEF PrepareRoot, At, NoRoot, Goto
<1>15. ASSUME NEW p \in Procs, WriteOwner(p) PROVE RootInv' BY <1>15 DEF WriteOwner, At, Goto
<1>16. ASSUME NEW p \in Procs, BindRoot(p) PROVE RootInv' BY <1>16 DEF BindRoot, At, Move, Goto
<1>17. ASSUME NEW p \in Procs, Build(p) PROVE RootInv' BY <1>17 DEF Build, At, Goto
<1>18. ASSUME NEW p \in Procs, StageRecord(p) PROVE RootInv' BY <1>18 DEF StageRecord, At, Goto
<1>19. ASSUME NEW p \in Procs, EnterPublishing(p) PROVE RootInv' BY <1>19 DEF EnterPublishing, At, Move, Goto
<1>20. ASSUME NEW p \in Procs, PublishEvidence(p) PROVE RootInv'
  BY <1>20 DEF PublishEvidence, Publishes, CanComplete, At
<1>21. ASSUME NEW p \in Procs, BecomePresent(p) PROVE RootInv'
  BY <1>21 DEF BecomePresent, Publishes, CanComplete, At, Move, LeaveSession
<1>22. ASSUME NEW p \in Procs, RehydratedEvidence(p) PROVE RootInv' BY <1>22 DEF RehydratedEvidence, At, Goto
<1>23. ASSUME NEW p \in Procs, Rehydrated(p) PROVE RootInv' BY <1>23 DEF Rehydrated, At, Move, LeaveSession
<1>24. ASSUME NEW p \in Procs, StartFinalizing(p) PROVE RootInv' BY <1>24 DEF StartFinalizing, At, Goto
<1>25. ASSUME NEW p \in Procs, Finalized(p) PROVE RootInv' BY <1>25 DEF Finalized, At, Attests, Goto, Return
<1>26. ASSUME NEW p \in Procs, Attest(p) PROVE RootInv' BY <1>26 DEF Attest, At, Return
<1>27. ASSUME NEW p \in Procs, AttestBusy(p) PROVE RootInv' BY <1>27 DEF AttestBusy, At, Return
<1>28. ASSUME NEW p \in Procs, Undone(p) PROVE RootInv' BY <1>28 DEF Undone, At, Fail, Return
<1>29. ASSUME NEW p \in Procs, Inspect(p) PROVE RootInv' BY <1>29 DEF Inspect, At, Enter
<1>30. ASSUME NEW p \in Procs, Lease(p) PROVE RootInv' BY <1>30 DEF Lease, At, Enter, PresentVerified
<1>31. ASSUME NEW p \in Procs, Release(p) PROVE RootInv' BY <1>31 DEF Release, At, Return
<1>32. ASSUME NEW p \in Procs, StartCleaning(p) PROVE RootInv'
  BY <1>32 DEF StartCleaning, At, Enter, PresentVerified, Move
<1>33. ASSUME NEW p \in Procs, FinishCleaning(p) PROVE RootInv' BY <1>33 DEF FinishCleaning, At, Move, Return
<1>34. ASSUME NEW p \in Procs, RaiseAndUndo(p) PROVE RootInv' BY <1>34 DEF RaiseAndUndo, Undoes, At, Goto
<1>35. ASSUME NEW p \in Procs, RaiseUnmarked(p) PROVE RootInv' BY <1>35 DEF RaiseUnmarked, At, Fail, Return
<1>36. ASSUME NEW p \in Procs, Raise(p) PROVE RootInv' BY <1>36 DEF Raise, Undoes, At, Fail, Return
<1>37. ASSUME NEW p \in Procs, RaiseCleaning(p) PROVE RootInv' BY <1>37 DEF RaiseCleaning, At, Return
<1>38. ASSUME NEW p \in Procs, Crash(p) PROVE RootInv' BY <1>38 DEF Crash, At, Return
<1>39. CASE PowerLoss BY <1>39 DEF PowerLoss, At, NoRoot
<1>40. CASE LoseStaged BY <1>40 DEF LoseStaged
<1>41. CASE UNCHANGED vars BY <1>41
<1> QED BY <1>1, <1>2, <1>3, <1>4, <1>5, <1>6, <1>7, <1>8, <1>9, <1>10, <1>11, <1>12,
     <1>13, <1>14, <1>15, <1>16, <1>17, <1>18, <1>19, <1>20, <1>21, <1>22, <1>23, <1>24,
     <1>25, <1>26, <1>27, <1>28, <1>29, <1>30, <1>31, <1>32, <1>33, <1>34, <1>35, <1>36,
     <1>37, <1>38, <1>39, <1>40, <1>41 DEF Next, Work, Lookup, Remove, Materialize,
     Publish, Finalize, Fault

\* What is being published stays staged or published, unless it is lost.
LEMMA StagedStep == IInv /\ AttemptsKept /\ [Next]_vars => StagedInv'
<1> SUFFICES ASSUME IInv, AttemptsKept, [Next]_vars PROVE StagedInv' OBVIOUS
<1> USE SlotsAssumption, BoundsAssumption DEF vars, procVars, rootVars, stageVars,
    storeVars, faultVars, IInv, TypeInv, TypeOK, ProcTypeOK, FaultTypeOK, LockInv,
    Locked, Building, StepInv, StagedInv, Completable, Me
<1>1. ASSUME NEW p \in Procs, Begin(p) PROVE StagedInv' BY <1>1 DEF Begin, At
<1>2. ASSUME NEW p \in Procs, Open(p) PROVE StagedInv' BY <1>2 DEF Open, At, Enter
<1>3. ASSUME NEW p \in Procs, OpenBusy(p) PROVE StagedInv' BY <1>3 DEF OpenBusy, At, Fail, Return
<1>4. ASSUME NEW p \in Procs, EnterDiscarding(p) PROVE StagedInv'
  BY <1>4 DEF EnterDiscarding, At, CanDiscard, Interrupted, Unpublishable, Completable, Move
<1>5. ASSUME NEW p \in Procs, StartRemoval(p) PROVE StagedInv' BY <1>5 DEF StartRemoval, At, CanRemove, Removing, Goto
<1>6. ASSUME NEW p \in Procs, Settle(p) PROVE StagedInv' BY <1>6 DEF Settle, At, CanSettle, Removing, Move, Destination
<1>7. ASSUME NEW p \in Procs, Miss(p) PROVE StagedInv' BY <1>7 DEF Miss, At, CanMiss, CanRehydrate
<1>8. ASSUME NEW p \in Procs, Hit(p) PROVE StagedInv' BY <1>8 DEF Hit, At, CanHit, PresentVerified, LeaveSession
<1>9. ASSUME NEW p \in Procs, Refuse(p) PROVE StagedInv' BY <1>9 DEF Refuse, At, Fail, Return
<1>10. ASSUME NEW p \in Procs, Unlink(p) PROVE StagedInv' BY <1>10 DEF Unlink, Removes
<1>11. ASSUME NEW p \in Procs, Removed(p) PROVE StagedInv' BY <1>11 DEF Removed, Removes, NoRoot, At, Goto
<1>12. ASSUME NEW p \in Procs, BeginMaterialization(p) PROVE StagedInv'
  BY <1>12 DEF BeginMaterialization, At, Move, Goto
<1>13. ASSUME NEW p \in Procs, PrepareRoot(p) PROVE StagedInv' BY <1>13 DEF PrepareRoot, At, NoRoot, Goto
<1>14. ASSUME NEW p \in Procs, WriteOwner(p) PROVE StagedInv' BY <1>14 DEF WriteOwner, At, Goto
<1>15. ASSUME NEW p \in Procs, BindRoot(p) PROVE StagedInv' BY <1>15 DEF BindRoot, At, Move, Goto
<1>16. ASSUME NEW p \in Procs, Build(p) PROVE StagedInv' BY <1>16 DEF Build, At, Goto
<1>17. ASSUME NEW p \in Procs, StageRecord(p) PROVE StagedInv' BY <1>17 DEF StageRecord, At, Goto
<1>18. ASSUME NEW p \in Procs, EnterPublishing(p) PROVE StagedInv' BY <1>18 DEF EnterPublishing, At, Move, Goto
<1>19. ASSUME NEW p \in Procs, PublishRecord(p) PROVE StagedInv' BY <1>19 DEF PublishRecord, Publishes, CanComplete, At
<1>20. ASSUME NEW p \in Procs, PublishIndex(p) PROVE StagedInv' BY <1>20 DEF PublishIndex, Publishes, CanComplete, At
<1>21. ASSUME NEW p \in Procs, PublishEvidence(p) PROVE StagedInv'
  BY <1>21 DEF PublishEvidence, Publishes, CanComplete, At
<1>22. ASSUME NEW p \in Procs, BecomePresent(p) PROVE StagedInv'
  BY <1>22 DEF BecomePresent, Publishes, CanComplete, At, Move, LeaveSession
<1>23. ASSUME NEW p \in Procs, RehydratedEvidence(p) PROVE StagedInv' BY <1>23 DEF RehydratedEvidence, At, Goto
<1>24. ASSUME NEW p \in Procs, Rehydrated(p) PROVE StagedInv' BY <1>24 DEF Rehydrated, At, Move, LeaveSession
<1>25. ASSUME NEW p \in Procs, StartFinalizing(p) PROVE StagedInv' BY <1>25 DEF StartFinalizing, At, Goto
<1>26. ASSUME NEW p \in Procs, Finalized(p) PROVE StagedInv' BY <1>26 DEF Finalized, At, Attests, Goto, Return
<1>27. ASSUME NEW p \in Procs, Attest(p) PROVE StagedInv' BY <1>27 DEF Attest, At, Return
<1>28. ASSUME NEW p \in Procs, AttestBusy(p) PROVE StagedInv' BY <1>28 DEF AttestBusy, At, Return
<1>29. ASSUME NEW p \in Procs, Undone(p) PROVE StagedInv' BY <1>29 DEF Undone, At, Fail, Return
<1>30. ASSUME NEW p \in Procs, Inspect(p) PROVE StagedInv' BY <1>30 DEF Inspect, At, Enter
<1>31. ASSUME NEW p \in Procs, Lease(p) PROVE StagedInv' BY <1>31 DEF Lease, At, Enter, PresentVerified
<1>32. ASSUME NEW p \in Procs, Release(p) PROVE StagedInv' BY <1>32 DEF Release, At, Return
<1>33. ASSUME NEW p \in Procs, StartCleaning(p) PROVE StagedInv'
  BY <1>33 DEF StartCleaning, At, Enter, PresentVerified, Move
<1>34. ASSUME NEW p \in Procs, FinishCleaning(p) PROVE StagedInv' BY <1>34 DEF FinishCleaning, At, Move, Return
<1>35. ASSUME NEW p \in Procs, RaiseAndUndo(p) PROVE StagedInv' BY <1>35 DEF RaiseAndUndo, Undoes, At, Goto
<1>36. ASSUME NEW p \in Procs, RaiseUnmarked(p) PROVE StagedInv' BY <1>36 DEF RaiseUnmarked, At, Fail, Return
<1>37. ASSUME NEW p \in Procs, Raise(p) PROVE StagedInv' BY <1>37 DEF Raise, Undoes, At, Fail, Return
<1>38. ASSUME NEW p \in Procs, RaiseCleaning(p) PROVE StagedInv' BY <1>38 DEF RaiseCleaning, At, Return
<1>39. ASSUME NEW p \in Procs, Crash(p) PROVE StagedInv' BY <1>39 DEF Crash, At, Return
<1>40. CASE PowerLoss BY <1>40 DEF PowerLoss, At, NoRoot
<1>41. CASE LoseStaged BY <1>41 DEF LoseStaged
<1>42. CASE UNCHANGED vars BY <1>42
<1> QED BY <1>1, <1>2, <1>3, <1>4, <1>5, <1>6, <1>7, <1>8, <1>9, <1>10, <1>11, <1>12,
     <1>13, <1>14, <1>15, <1>16, <1>17, <1>18, <1>19, <1>20, <1>21, <1>22, <1>23, <1>24,
     <1>25, <1>26, <1>27, <1>28, <1>29, <1>30, <1>31, <1>32, <1>33, <1>34, <1>35, <1>36,
     <1>37, <1>38, <1>39, <1>40, <1>41, <1>42 DEF Next, Work, Lookup, Remove,
     Materialize, Publish, Finalize, Fault

\* A step that leaves record and attestation alone leaves the attestation in order.
LEMMA SameAttestation ==
  IInv /\ AttemptsKept /\ record' = record /\ attestation' = attestation => AttestedBySuccess'
<1> SUFFICES ASSUME IInv, AttemptsKept, UNCHANGED <<record, attestation>>, attestation # 0
             PROVE  record # 0 /\ attestation >= record /\ attempts'[attestation] = "success"
  BY DEF AttestedBySuccess
<1>1. record # 0 /\ attestation >= record /\ attempts[attestation] = "success" BY DEF IInv, AttestedBySuccess
<1>2. attestation \in 1 .. Len(attempts) BY DEF IInv, TypeInv, TypeOK, StoreTypeOK, Ids
<1> QED BY <1>1, <1>2 DEF AttemptsKept

\* An attestation keeps naming an attempt that is SUCCESS.
LEMMA AttestedStep == IInv /\ AttemptsKept /\ [Next]_vars => AttestedBySuccess'
<1> SUFFICES ASSUME IInv, AttemptsKept, [Next]_vars PROVE AttestedBySuccess' OBVIOUS
<1> USE SlotsAssumption DEF vars, procVars, rootVars, stageVars, storeVars, faultVars
<1>1. ASSUME NEW p \in Procs, Begin(p) \/ Open(p) \/ OpenBusy(p) \/ EnterDiscarding(p)
         PROVE AttestedBySuccess'
  BY <1>1, SameAttestation DEF Begin, Open, OpenBusy, EnterDiscarding
<1>2. ASSUME NEW p \in Procs, StartRemoval(p) \/ Settle(p) \/ Miss(p) \/ Hit(p) PROVE
         AttestedBySuccess'
  BY <1>2, SameAttestation DEF StartRemoval, Settle, Miss, Hit
<1>3. ASSUME NEW p \in Procs, Refuse(p) \/ Unlink(p) \/ Removed(p) \/
         BeginMaterialization(p) PROVE AttestedBySuccess'
  BY <1>3, SameAttestation DEF Refuse, Unlink, Removed, BeginMaterialization
<1>4. ASSUME NEW p \in Procs, PrepareRoot(p) \/ WriteOwner(p) \/ BindRoot(p) \/ Build(p)
         PROVE AttestedBySuccess'
  BY <1>4, SameAttestation DEF PrepareRoot, WriteOwner, BindRoot, Build
<1>5. ASSUME NEW p \in Procs, StageRecord(p) \/ EnterPublishing(p) \/ PublishIndex(p) \/
         PublishEvidence(p) PROVE AttestedBySuccess'
  BY <1>5, SameAttestation DEF StageRecord, EnterPublishing, PublishIndex, PublishEvidence
<1>6. ASSUME NEW p \in Procs, BecomePresent(p) \/ RehydratedEvidence(p) \/ Rehydrated(p)
         \/ StartFinalizing(p) PROVE AttestedBySuccess'
  BY <1>6, SameAttestation DEF BecomePresent, RehydratedEvidence, Rehydrated, StartFinalizing
<1>7. ASSUME NEW p \in Procs, Finalized(p) \/ AttestBusy(p) \/ Undone(p) \/ Inspect(p)
         PROVE AttestedBySuccess'
  BY <1>7, SameAttestation DEF Finalized, AttestBusy, Undone, Inspect
<1>8. ASSUME NEW p \in Procs, Lease(p) \/ Release(p) \/ StartCleaning(p) \/
         FinishCleaning(p) PROVE AttestedBySuccess'
  BY <1>8, SameAttestation DEF Lease, Release, StartCleaning, FinishCleaning
<1>9. ASSUME NEW p \in Procs, RaiseAndUndo(p) \/ RaiseUnmarked(p) \/ Raise(p) \/
         RaiseCleaning(p) PROVE AttestedBySuccess'
  BY <1>9, SameAttestation DEF RaiseAndUndo, RaiseUnmarked, Raise, RaiseCleaning
<1>10. ASSUME NEW p \in Procs, Crash(p) PROVE AttestedBySuccess' BY <1>10, SameAttestation DEF Crash
<1>11. ASSUME NEW p \in Procs, PublishRecord(p) PROVE AttestedBySuccess'
 <2>1. attestation = 0 BY <1>11 DEF PublishRecord, IInv, AttestedBySuccess
 <2> QED BY <1>11, <2>1 DEF PublishRecord, AttestedBySuccess
<1>12. ASSUME NEW p \in Procs, Attest(p) PROVE AttestedBySuccess'
 <2>1. Me \in 1 .. Len(attempts) /\ attempts[Me] = "success" /\ record # 0
   BY <1>12 DEF IInv, TypeInv, TypeOK, Attest, At, AttemptInv, LockInv, Building, Me
 <2>2. attempts' = attempts /\ attestation' = Me /\ record' = record BY <1>12 DEF Attest
 <2>3. record \in 0 .. Len(attempts) /\ Len(attempts) \in Nat BY DEF IInv, TypeInv, TypeOK, StoreTypeOK, Ids
 <2> QED BY <2>1, <2>2, <2>3 DEF AttestedBySuccess, StoreTypeOK, Ids, Me
<1>13. CASE PowerLoss BY <1>13, SameAttestation DEF PowerLoss
<1>14. CASE LoseStaged BY <1>14, SameAttestation DEF LoseStaged
<1>15. CASE UNCHANGED vars BY <1>15, SameAttestation
<1> QED BY <1>1, <1>2, <1>3, <1>4, <1>5, <1>6, <1>7, <1>8, <1>9, <1>10, <1>11, <1>12,
     <1>13, <1>14, <1>15 DEF Next, Work, Lookup, Remove, Materialize, Publish, Finalize,
     Fault

\* Who gives up a root has an attested record behind it.
LEMMA AttestStep == IInv /\ AttemptsKept /\ [Next]_vars => AttestInv'
<1> SUFFICES ASSUME IInv, AttemptsKept, [Next]_vars PROVE AttestInv' OBVIOUS
<1> USE SlotsAssumption DEF vars, procVars, rootVars, stageVars, storeVars, faultVars,
    IInv, TypeInv, TypeOK, RootTypeOK, ProcTypeOK, LockInv, Locked, Building, BindInv,
    StepInv, AttestInv
<1>1. ASSUME NEW p \in Procs, Begin(p) PROVE AttestInv' BY <1>1 DEF Begin, At
<1>2. ASSUME NEW p \in Procs, Open(p) PROVE AttestInv' BY <1>2 DEF Open, At, Enter
<1>3. ASSUME NEW p \in Procs, OpenBusy(p) PROVE AttestInv' BY <1>3 DEF OpenBusy, At, Fail, Return
<1>4. ASSUME NEW p \in Procs, EnterDiscarding(p) PROVE AttestInv'
  BY <1>4 DEF EnterDiscarding, At, CanDiscard, Interrupted, Unpublishable, Completable, Move
<1>5. ASSUME NEW p \in Procs, StartRemoval(p) PROVE AttestInv' BY <1>5 DEF StartRemoval, At, CanRemove, Removing, Goto
<1>6. ASSUME NEW p \in Procs, Settle(p) PROVE AttestInv' BY <1>6 DEF Settle, At, CanSettle, Removing, Move, Destination
<1>7. ASSUME NEW p \in Procs, Miss(p) PROVE AttestInv' BY <1>7 DEF Miss, At, CanMiss, CanRehydrate
<1>8. ASSUME NEW p \in Procs, Hit(p) PROVE AttestInv' BY <1>8 DEF Hit, At, CanHit, PresentVerified, LeaveSession
<1>9. ASSUME NEW p \in Procs, Refuse(p) PROVE AttestInv' BY <1>9 DEF Refuse, At, Fail, Return
<1>10. ASSUME NEW p \in Procs, Unlink(p) PROVE AttestInv' BY <1>10 DEF Unlink, Removes
<1>11. ASSUME NEW p \in Procs, Removed(p) PROVE AttestInv' BY <1>11 DEF Removed, Removes, NoRoot, At, Goto
<1>12. ASSUME NEW p \in Procs, BeginMaterialization(p) PROVE AttestInv'
  BY <1>12 DEF BeginMaterialization, At, Move, Goto
<1>13. ASSUME NEW p \in Procs, PrepareRoot(p) PROVE AttestInv' BY <1>13 DEF PrepareRoot, At, NoRoot, Goto
<1>14. ASSUME NEW p \in Procs, WriteOwner(p) PROVE AttestInv' BY <1>14 DEF WriteOwner, At, Goto
<1>15. ASSUME NEW p \in Procs, BindRoot(p) PROVE AttestInv' BY <1>15 DEF BindRoot, At, Move, Goto
<1>16. ASSUME NEW p \in Procs, Build(p) PROVE AttestInv' BY <1>16 DEF Build, At, Goto
<1>17. ASSUME NEW p \in Procs, StageRecord(p) PROVE AttestInv' BY <1>17 DEF StageRecord, At, Goto
<1>18. ASSUME NEW p \in Procs, EnterPublishing(p) PROVE AttestInv' BY <1>18 DEF EnterPublishing, At, Move, Goto
<1>19. ASSUME NEW p \in Procs, PublishRecord(p) PROVE AttestInv' BY <1>19 DEF PublishRecord, Publishes, CanComplete, At
<1>20. ASSUME NEW p \in Procs, PublishIndex(p) PROVE AttestInv' BY <1>20 DEF PublishIndex, Publishes, CanComplete, At
<1>21. ASSUME NEW p \in Procs, PublishEvidence(p) PROVE AttestInv'
  BY <1>21 DEF PublishEvidence, Publishes, CanComplete, At
<1>22. ASSUME NEW p \in Procs, BecomePresent(p) PROVE AttestInv'
  BY <1>22 DEF BecomePresent, Publishes, CanComplete, At, Move, LeaveSession
<1>23. ASSUME NEW p \in Procs, RehydratedEvidence(p) PROVE AttestInv' BY <1>23 DEF RehydratedEvidence, At, Goto
<1>24. ASSUME NEW p \in Procs, Rehydrated(p) PROVE AttestInv' BY <1>24 DEF Rehydrated, At, Move, LeaveSession
<1>25. ASSUME NEW p \in Procs, StartFinalizing(p) PROVE AttestInv' BY <1>25 DEF StartFinalizing, At, Goto
<1>26. ASSUME NEW p \in Procs, Finalized(p) PROVE AttestInv' BY <1>26 DEF Finalized, At, Attests, Goto, Return
<1>27. ASSUME NEW p \in Procs, Attest(p) PROVE AttestInv' BY <1>27 DEF Attest, At, Return
<1>28. ASSUME NEW p \in Procs, AttestBusy(p) PROVE AttestInv' BY <1>28 DEF AttestBusy, At, Return
<1>29. ASSUME NEW p \in Procs, Undone(p) PROVE AttestInv' BY <1>29 DEF Undone, At, Fail, Return
<1>30. ASSUME NEW p \in Procs, Inspect(p) PROVE AttestInv' BY <1>30 DEF Inspect, At, Enter
<1>31. ASSUME NEW p \in Procs, Lease(p) PROVE AttestInv' BY <1>31 DEF Lease, At, Enter, PresentVerified
<1>32. ASSUME NEW p \in Procs, Release(p) PROVE AttestInv' BY <1>32 DEF Release, At, Return
<1>33. ASSUME NEW p \in Procs, StartCleaning(p) PROVE AttestInv'
  BY <1>33 DEF StartCleaning, At, Enter, PresentVerified, Move
<1>34. ASSUME NEW p \in Procs, FinishCleaning(p) PROVE AttestInv' BY <1>34 DEF FinishCleaning, At, Move, Return
<1>35. ASSUME NEW p \in Procs, RaiseAndUndo(p) PROVE AttestInv' BY <1>35 DEF RaiseAndUndo, Undoes, At, Goto
<1>36. ASSUME NEW p \in Procs, RaiseUnmarked(p) PROVE AttestInv' BY <1>36 DEF RaiseUnmarked, At, Fail, Return
<1>37. ASSUME NEW p \in Procs, Raise(p) PROVE AttestInv' BY <1>37 DEF Raise, Undoes, At, Fail, Return
<1>38. ASSUME NEW p \in Procs, RaiseCleaning(p) PROVE AttestInv' BY <1>38 DEF RaiseCleaning, At, Return
<1>39. ASSUME NEW p \in Procs, Crash(p) PROVE AttestInv' BY <1>39 DEF Crash, At, Return
<1>40. CASE PowerLoss BY <1>40 DEF PowerLoss, At, NoRoot
<1>41. CASE LoseStaged BY <1>41 DEF LoseStaged
<1>42. CASE UNCHANGED vars BY <1>42
<1> QED BY <1>1, <1>2, <1>3, <1>4, <1>5, <1>6, <1>7, <1>8, <1>9, <1>10, <1>11, <1>12,
     <1>13, <1>14, <1>15, <1>16, <1>17, <1>18, <1>19, <1>20, <1>21, <1>22, <1>23, <1>24,
     <1>25, <1>26, <1>27, <1>28, <1>29, <1>30, <1>31, <1>32, <1>33, <1>34, <1>35, <1>36,
     <1>37, <1>38, <1>39, <1>40, <1>41, <1>42 DEF Next, Work, Lookup, Remove,
     Materialize, Publish, Finalize, Fault

\* Without a fault the journal is left unsettled only by a process at work.
LEMMA FaultStep == IInv /\ AttemptsKept /\ [Next]_vars => FaultInv'
<1> SUFFICES ASSUME IInv, AttemptsKept, [Next]_vars PROVE FaultInv' OBVIOUS
<1> USE SlotsAssumption, BoundsAssumption DEF vars, procVars, rootVars, stageVars,
    storeVars, faultVars, IInv, TypeInv, TypeOK, RootTypeOK, ProcTypeOK, FaultTypeOK,
    LockInv, Locked, Building, BindInv, StepInv, FaultInv, Unsettled, Working
<1>1. ASSUME NEW p \in Procs, Begin(p) PROVE FaultInv' BY <1>1 DEF Begin, At
<1>2. ASSUME NEW p \in Procs, Open(p) PROVE FaultInv' BY <1>2 DEF Open, At, Enter
<1>3. ASSUME NEW p \in Procs, OpenBusy(p) PROVE FaultInv' BY <1>3 DEF OpenBusy, At, Fail, Return
<1>4. ASSUME NEW p \in Procs, EnterDiscarding(p) PROVE FaultInv'
  BY <1>4 DEF EnterDiscarding, At, CanDiscard, Interrupted, Unpublishable, Completable, Move
<1>5. ASSUME NEW p \in Procs, StartRemoval(p) PROVE FaultInv' BY <1>5 DEF StartRemoval, At, CanRemove, Removing, Goto
<1>6. ASSUME NEW p \in Procs, Settle(p) PROVE FaultInv' BY <1>6 DEF Settle, At, CanSettle, Removing, Move, Destination
<1>7. ASSUME NEW p \in Procs, Miss(p) PROVE FaultInv' BY <1>7 DEF Miss, At, CanMiss, CanRehydrate
<1>8. ASSUME NEW p \in Procs, Hit(p) PROVE FaultInv' BY <1>8 DEF Hit, At, CanHit, PresentVerified, LeaveSession
<1>9. ASSUME NEW p \in Procs, Refuse(p) PROVE FaultInv' BY <1>9 DEF Refuse, At, Fail, Return
<1>10. ASSUME NEW p \in Procs, Unlink(p) PROVE FaultInv' BY <1>10 DEF Unlink, Removes
<1>11. ASSUME NEW p \in Procs, Removed(p) PROVE FaultInv' BY <1>11 DEF Removed, Removes, NoRoot, At, Goto
<1>12. ASSUME NEW p \in Procs, BeginMaterialization(p) PROVE FaultInv'
  BY <1>12 DEF BeginMaterialization, At, Move, Goto
<1>13. ASSUME NEW p \in Procs, PrepareRoot(p) PROVE FaultInv' BY <1>13 DEF PrepareRoot, At, NoRoot, Goto
<1>14. ASSUME NEW p \in Procs, WriteOwner(p) PROVE FaultInv' BY <1>14 DEF WriteOwner, At, Goto
<1>15. ASSUME NEW p \in Procs, BindRoot(p) PROVE FaultInv' BY <1>15 DEF BindRoot, At, Move, Goto
<1>16. ASSUME NEW p \in Procs, Build(p) PROVE FaultInv' BY <1>16 DEF Build, At, Goto
<1>17. ASSUME NEW p \in Procs, StageRecord(p) PROVE FaultInv' BY <1>17 DEF StageRecord, At, Goto
<1>18. ASSUME NEW p \in Procs, EnterPublishing(p) PROVE FaultInv' BY <1>18 DEF EnterPublishing, At, Move, Goto
<1>19. ASSUME NEW p \in Procs, PublishRecord(p) PROVE FaultInv' BY <1>19 DEF PublishRecord, Publishes, CanComplete, At
<1>20. ASSUME NEW p \in Procs, PublishIndex(p) PROVE FaultInv' BY <1>20 DEF PublishIndex, Publishes, CanComplete, At
<1>21. ASSUME NEW p \in Procs, PublishEvidence(p) PROVE FaultInv'
  BY <1>21 DEF PublishEvidence, Publishes, CanComplete, At
<1>22. ASSUME NEW p \in Procs, BecomePresent(p) PROVE FaultInv'
  BY <1>22 DEF BecomePresent, Publishes, CanComplete, At, Move, LeaveSession
<1>23. ASSUME NEW p \in Procs, RehydratedEvidence(p) PROVE FaultInv' BY <1>23 DEF RehydratedEvidence, At, Goto
<1>24. ASSUME NEW p \in Procs, Rehydrated(p) PROVE FaultInv' BY <1>24 DEF Rehydrated, At, Move, LeaveSession
<1>25. ASSUME NEW p \in Procs, StartFinalizing(p) PROVE FaultInv' BY <1>25 DEF StartFinalizing, At, Goto
<1>26. ASSUME NEW p \in Procs, Finalized(p) PROVE FaultInv' BY <1>26 DEF Finalized, At, Attests, Goto, Return
<1>27. ASSUME NEW p \in Procs, Attest(p) PROVE FaultInv' BY <1>27 DEF Attest, At, Return
<1>28. ASSUME NEW p \in Procs, AttestBusy(p) PROVE FaultInv' BY <1>28 DEF AttestBusy, At, Return
<1>29. ASSUME NEW p \in Procs, Undone(p) PROVE FaultInv' BY <1>29 DEF Undone, At, Fail, Return
<1>30. ASSUME NEW p \in Procs, Inspect(p) PROVE FaultInv' BY <1>30 DEF Inspect, At, Enter
<1>31. ASSUME NEW p \in Procs, Lease(p) PROVE FaultInv' BY <1>31 DEF Lease, At, Enter, PresentVerified
<1>32. ASSUME NEW p \in Procs, Release(p) PROVE FaultInv' BY <1>32 DEF Release, At, Return
<1>33. ASSUME NEW p \in Procs, StartCleaning(p) PROVE FaultInv'
  BY <1>33 DEF StartCleaning, At, Enter, PresentVerified, Move
<1>34. ASSUME NEW p \in Procs, FinishCleaning(p) PROVE FaultInv' BY <1>34 DEF FinishCleaning, At, Move, Return
<1>35. ASSUME NEW p \in Procs, RaiseAndUndo(p) PROVE FaultInv' BY <1>35 DEF RaiseAndUndo, Undoes, At, Goto
<1>36. ASSUME NEW p \in Procs, RaiseUnmarked(p) PROVE FaultInv' BY <1>36 DEF RaiseUnmarked, At, Fail, Return
<1>37. ASSUME NEW p \in Procs, Raise(p) PROVE FaultInv' BY <1>37 DEF Raise, Undoes, At, Fail, Return
<1>38. ASSUME NEW p \in Procs, RaiseCleaning(p) PROVE FaultInv' BY <1>38 DEF RaiseCleaning, At, Return
<1>39. ASSUME NEW p \in Procs, Crash(p) PROVE FaultInv' BY <1>39 DEF Crash, At, Return
<1>40. CASE PowerLoss BY <1>40 DEF PowerLoss, At, NoRoot
<1>41. CASE LoseStaged BY <1>41 DEF LoseStaged
<1>42. CASE UNCHANGED vars BY <1>42
<1> QED BY <1>1, <1>2, <1>3, <1>4, <1>5, <1>6, <1>7, <1>8, <1>9, <1>10, <1>11, <1>12,
     <1>13, <1>14, <1>15, <1>16, <1>17, <1>18, <1>19, <1>20, <1>21, <1>22, <1>23, <1>24,
     <1>25, <1>26, <1>27, <1>28, <1>29, <1>30, <1>31, <1>32, <1>33, <1>34, <1>35, <1>36,
     <1>37, <1>38, <1>39, <1>40, <1>41, <1>42 DEF Next, Work, Lookup, Remove,
     Materialize, Publish, Finalize, Fault

\* What a lease is about
LeasedVars == <<journal, root, evidence, record, index, attestation, leased>>

\* q takes a lease, or keeps one that nothing happens to.
Leasing(q) == Lease(q) \/ (At(q, "lease") /\ UNCHANGED LeasedVars)

\* Whoever holds a lease after a step has just taken it, or holds it still and
\* nothing that it is about has changed.
LEMMA LeaseHeld ==
  ASSUME TypeInv, [Next]_vars, NEW q \in Procs, At(q, "lease")'
  PROVE  Leasing(q)
<1> USE SlotsAssumption DEF vars, procVars, rootVars, stageVars, storeVars, faultVars,
    TypeInv, TypeOK, ProcTypeOK, LockInv, Building, Locked, LeasedVars, Leasing, At
<1>1. ASSUME NEW p \in Procs, Begin(p) PROVE Leasing(q) BY <1>1 DEF Begin, At
<1>2. ASSUME NEW p \in Procs, Open(p) PROVE Leasing(q) BY <1>2 DEF Open, At, Enter
<1>3. ASSUME NEW p \in Procs, OpenBusy(p) PROVE Leasing(q) BY <1>3 DEF OpenBusy, At, Fail, Return
<1>4. ASSUME NEW p \in Procs, EnterDiscarding(p) PROVE Leasing(q)
  BY <1>4 DEF EnterDiscarding, At, CanDiscard, Interrupted, Unpublishable, Completable, Move
<1>5. ASSUME NEW p \in Procs, StartRemoval(p) PROVE Leasing(q) BY <1>5 DEF StartRemoval, At, CanRemove, Removing, Goto
<1>6. ASSUME NEW p \in Procs, Settle(p) PROVE Leasing(q) BY <1>6 DEF Settle, At, CanSettle, Removing, Move, Destination
<1>7. ASSUME NEW p \in Procs, Miss(p) PROVE Leasing(q) BY <1>7 DEF Miss, At, CanMiss, CanRehydrate
<1>8. ASSUME NEW p \in Procs, Hit(p) PROVE Leasing(q) BY <1>8 DEF Hit, At, CanHit, PresentVerified, LeaveSession
<1>9. ASSUME NEW p \in Procs, Refuse(p) PROVE Leasing(q) BY <1>9 DEF Refuse, At, Fail, Return
<1>10. ASSUME NEW p \in Procs, Unlink(p) PROVE Leasing(q) BY <1>10 DEF Unlink, Removes
<1>11. ASSUME NEW p \in Procs, Removed(p) PROVE Leasing(q) BY <1>11 DEF Removed, Removes, NoRoot, At, Goto
<1>12. ASSUME NEW p \in Procs, BeginMaterialization(p) PROVE Leasing(q)
  BY <1>12 DEF BeginMaterialization, At, Move, Goto
<1>13. ASSUME NEW p \in Procs, PrepareRoot(p) PROVE Leasing(q) BY <1>13 DEF PrepareRoot, At, NoRoot, Goto
<1>14. ASSUME NEW p \in Procs, WriteOwner(p) PROVE Leasing(q) BY <1>14 DEF WriteOwner, At, Goto
<1>15. ASSUME NEW p \in Procs, BindRoot(p) PROVE Leasing(q) BY <1>15 DEF BindRoot, At, Move, Goto
<1>16. ASSUME NEW p \in Procs, Build(p) PROVE Leasing(q) BY <1>16 DEF Build, At, Goto
<1>17. ASSUME NEW p \in Procs, StageRecord(p) PROVE Leasing(q) BY <1>17 DEF StageRecord, At, Goto
<1>18. ASSUME NEW p \in Procs, EnterPublishing(p) PROVE Leasing(q) BY <1>18 DEF EnterPublishing, At, Move, Goto
<1>19. ASSUME NEW p \in Procs, PublishRecord(p) PROVE Leasing(q) BY <1>19 DEF PublishRecord, Publishes, CanComplete, At
<1>20. ASSUME NEW p \in Procs, PublishIndex(p) PROVE Leasing(q) BY <1>20 DEF PublishIndex, Publishes, CanComplete, At
<1>21. ASSUME NEW p \in Procs, PublishEvidence(p) PROVE Leasing(q)
  BY <1>21 DEF PublishEvidence, Publishes, CanComplete, At
<1>22. ASSUME NEW p \in Procs, BecomePresent(p) PROVE Leasing(q)
  BY <1>22 DEF BecomePresent, Publishes, CanComplete, At, Move, LeaveSession
<1>23. ASSUME NEW p \in Procs, RehydratedEvidence(p) PROVE Leasing(q) BY <1>23 DEF RehydratedEvidence, At, Goto
<1>24. ASSUME NEW p \in Procs, Rehydrated(p) PROVE Leasing(q) BY <1>24 DEF Rehydrated, At, Move, LeaveSession
<1>25. ASSUME NEW p \in Procs, StartFinalizing(p) PROVE Leasing(q) BY <1>25 DEF StartFinalizing, At, Goto
<1>26. ASSUME NEW p \in Procs, Finalized(p) PROVE Leasing(q) BY <1>26 DEF Finalized, At, Attests, Goto, Return
<1>27. ASSUME NEW p \in Procs, Attest(p) PROVE Leasing(q) BY <1>27 DEF Attest, At, Return
<1>28. ASSUME NEW p \in Procs, AttestBusy(p) PROVE Leasing(q) BY <1>28 DEF AttestBusy, At, Return
<1>29. ASSUME NEW p \in Procs, Undone(p) PROVE Leasing(q) BY <1>29 DEF Undone, At, Fail, Return
<1>30. ASSUME NEW p \in Procs, Inspect(p) PROVE Leasing(q) BY <1>30 DEF Inspect, At, Enter
<1>31. ASSUME NEW p \in Procs, Lease(p) PROVE Leasing(q) BY <1>31 DEF Lease, At, Enter, PresentVerified
<1>32. ASSUME NEW p \in Procs, Release(p) PROVE Leasing(q) BY <1>32 DEF Release, At, Return
<1>33. ASSUME NEW p \in Procs, StartCleaning(p) PROVE Leasing(q)
  BY <1>33 DEF StartCleaning, At, Enter, PresentVerified, Move
<1>34. ASSUME NEW p \in Procs, FinishCleaning(p) PROVE Leasing(q) BY <1>34 DEF FinishCleaning, At, Move, Return
<1>35. ASSUME NEW p \in Procs, RaiseAndUndo(p) PROVE Leasing(q) BY <1>35 DEF RaiseAndUndo, Undoes, At, Goto
<1>36. ASSUME NEW p \in Procs, RaiseUnmarked(p) PROVE Leasing(q) BY <1>36 DEF RaiseUnmarked, At, Fail, Return
<1>37. ASSUME NEW p \in Procs, Raise(p) PROVE Leasing(q) BY <1>37 DEF Raise, Undoes, At, Fail, Return
<1>38. ASSUME NEW p \in Procs, RaiseCleaning(p) PROVE Leasing(q) BY <1>38 DEF RaiseCleaning, At, Return
<1>39. ASSUME NEW p \in Procs, Crash(p) PROVE Leasing(q) BY <1>39 DEF Crash, At, Return
<1>40. CASE PowerLoss BY <1>40 DEF PowerLoss, At, NoRoot
<1>41. CASE LoseStaged BY <1>41 DEF LoseStaged
<1>42. CASE UNCHANGED vars BY <1>42
<1> QED BY <1>1, <1>2, <1>3, <1>4, <1>5, <1>6, <1>7, <1>8, <1>9, <1>10, <1>11, <1>12,
     <1>13, <1>14, <1>15, <1>16, <1>17, <1>18, <1>19, <1>20, <1>21, <1>22, <1>23, <1>24,
     <1>25, <1>26, <1>27, <1>28, <1>29, <1>30, <1>31, <1>32, <1>33, <1>34, <1>35, <1>36,
     <1>37, <1>38, <1>39, <1>40, <1>41, <1>42 DEF Next, Work, Lookup, Remove,
     Materialize, Publish, Finalize, Fault

\* A lease is sound when it is taken and stays so: the attempts it rests on keep
\* their outcomes.
LEMMA LeaseStep == IInv /\ AttemptsKept /\ [Next]_vars => LeaseIsSound'
<1> SUFFICES ASSUME IInv, AttemptsKept, [Next]_vars, NEW q \in Procs, At(q, "lease")'
             PROVE  (PresentVerified /\ attestation # 0 /\ root.inode = leased)'
  BY DEF LeaseIsSound
<1>1. Leasing(q) BY LeaseHeld DEF IInv
<1>2. CASE Lease(q)
 <2>1. PresentVerified /\ attestation # 0 /\ leased' = root.inode BY <1>2 DEF Lease
 <2>2. UNCHANGED <<attempts, journal, root, evidence, record, index, attestation>>
   BY <1>2 DEF Lease, rootVars, stageVars, storeVars
 <2> QED BY <2>1, <2>2 DEF PresentVerified, PairBound, ProducerFinal, RootVerified, Owned, AttestationHolds
<1>3. CASE At(q, "lease") /\ UNCHANGED LeasedVars
 <2>1. PresentVerified /\ attestation # 0 /\ root.inode = leased BY <1>3 DEF IInv, LeaseIsSound
 <2>2. record \in 1 .. Len(attempts) /\ attestation \in 1 .. Len(attempts)
   BY <2>1 DEF IInv, TypeInv, TypeOK, StoreTypeOK, Ids, PresentVerified, PairBound
 <2>3. attempts'[record] = attempts[record] /\ attempts'[attestation] = attempts[attestation]
   BY <2>1, <2>2 DEF AttemptsKept, PresentVerified, ProducerFinal, AttestationHolds
 <2> QED BY <1>3, <2>1, <2>3 DEF LeasedVars, PresentVerified, PairBound, ProducerFinal, RootVerified, Owned,
   AttestationHolds
<1> QED BY <1>1, <1>2, <1>3 DEF Leasing

----------------------------------------

\* The invariant holds at the start.
LEMMA InitInv == Init => IInv
<1> SUFFICES ASSUME Init PROVE IInv OBVIOUS
<1> USE SlotsAssumption, InodesAssumption, BoundsAssumption DEF Init
<1>1. attempts \in Seq(Outcomes) /\ Ids = {0} /\ Me = 0 BY DEF Ids, Me
<1>2. ProcTypeOK /\ FaultTypeOK BY DEF ProcTypeOK, FaultTypeOK, Labels
<1>3. RootTypeOK /\ StoreTypeOK BY <1>1 DEF RootTypeOK, StoreTypeOK, NoRoot, States
<1>4. LockInv BY DEF LockInv, Building, Locked
<1>5. AttemptInv /\ AttestedBySuccess BY DEF AttemptInv, AttestedBySuccess, Building
<1>6. BindInv /\ StepInv BY DEF BindInv, StepInv
<1>7. RootInv /\ StagedInv BY DEF RootInv, StagedInv, NoRoot
<1>8. AttestInv /\ FaultInv /\ LeaseIsSound BY DEF AttestInv, FaultInv, Unsettled, LeaseIsSound, At
<1> QED BY <1>1, <1>2, <1>3, <1>4, <1>5, <1>6, <1>7, <1>8 DEF IInv, TypeInv, TypeOK

\* IInv is an invariant of the specification: whatever is killed, raises, loses
\* power or is lost from staging, with any number of processes and attempts.
THEOREM Invariance == Spec => []IInv
<1>1. IInv /\ [Next]_vars => IInv'
 <2> SUFFICES ASSUME IInv, [Next]_vars PROVE IInv' OBVIOUS
 <2>1. TypeInv' /\ AttemptsKept BY TypeStep, AttemptsStep DEF IInv
 <2>2. AttemptInv' /\ AttestedBySuccess' /\ LeaseIsSound' BY <2>1, AttemptStep, AttestedStep, LeaseStep DEF IInv
 <2>3. BindInv' /\ StepInv' /\ RootInv' BY <2>1, BindStep, StepStep, RootStep
 <2>4. StagedInv' /\ AttestInv' /\ FaultInv' BY <2>1, StagedStep, AttestStep, FaultStep
 <2> QED BY <2>1, <2>2, <2>3, <2>4 DEF IInv
<1> QED BY <1>1, InitInv, PTL DEF Spec

\* Every variable stays within its type and every document names an attempt that
\* was allocated, under every fault (the models build_cache.py validates).
THEOREM TypeCorrect == Spec => []TypeOK
<1>1. IInv => TypeOK BY DEF IInv, TypeInv
<1> QED BY <1>1, Invariance, PTL

\* What lease_build hands out stays attested, whole and in place while it is held.
THEOREM LeaseSafety == Spec => []LeaseIsSound
<1>1. IInv => LeaseIsSound BY DEF IInv
<1> QED BY <1>1, Invariance, PTL

\* publish_build_attestation names an attempt that was finalized SUCCESS.
THEOREM SuccessAttested == Spec => []AttestedBySuccess
<1>1. IInv => AttestedBySuccess BY DEF IInv
<1> QED BY <1>1, Invariance, PTL

\* cleanup_build, a failed rehydration and their recovery give up a root only with
\* an attested canonical pair bound in the journal.
THEOREM AttestedWhenCleaned == Spec => []CleanedIsAttested
<1>1. IInv => CleanedIsAttested BY DEF IInv, AttestInv, BindInv, CleanedIsAttested, PairBound
<1> QED BY <1>1, Invariance, PTL

\* _complete_publishing finds the root durable and owned and, unless staging was
\* lost, the bytes of the record.
THEOREM CompletablePublication == Spec => []PublicationIsCompletable
<1>1. IInv => PublicationIsCompletable BY DEF IInv, RootInv, StagedInv, PublicationIsCompletable
<1> QED BY <1>1, Invariance, PTL

\* lookup answers or recovers from every state, half roots after a fault excepted.
THEOREM LookupAnswered == Spec => []LookupIsAnswered
<1>1. IInv => LookupIsAnswered
 <2> SUFFICES ASSUME IInv, NEW p \in Procs, At(p, "lookup")
              PROVE  Recovers \/ Answers \/ (HalfRoot /\ crashes + errors > 0)
   BY DEF LookupIsAnswered
 <2> USE DEF IInv, TypeInv, TypeOK, At
 <2>1. record # 0 => ProducerFinal
  <3> SUFFICES ASSUME record # 0 PROVE ProducerFinal OBVIOUS
  <3>1. record \in 1 .. Len(attempts) /\ record # Me BY DEF AttemptInv, StoreTypeOK, Ids
  <3> QED BY <3>1 DEF AttemptInv, ProducerFinal
 <2>2. attestation # 0 => attempts[attestation] = "success" BY DEF AttestedBySuccess
 <2>3. journal.state \in Unsettled => crashes + errors > 0
  <3>1. \A q \in Procs : pc[q] \notin Working BY DEF LockInv, Locked, Building, Working
  <3> QED BY <3>1 DEF FaultInv, FaultTypeOK
 <2>4. CASE journal.state \in {"none", "VACANT"} BY <2>4 DEF Answers, CanMiss, BindInv, RootInv
 <2>5. CASE journal.state \in {"BUILDING", "REHYDRATING"}
   BY <2>3, <2>5 DEF Unsettled, Recovers, CanDiscard, Interrupted, HalfRoot, BindInv, PairBound
 <2>6. CASE journal.state = "PUBLISHING"
   BY <2>6 DEF Recovers, CanComplete, CanDiscard, Unpublishable, Completable, BindInv, RootInv, Owned
 <2>7. CASE journal.state = "PRESENT"
   BY <2>1, <2>2, <2>7 DEF Answers, CanHit, PresentVerified, PairBound, RootVerified, AttestationHolds, BindInv,
     RootInv
 <2>8. CASE journal.state \in {"CLEANING", "DISCARDING"}
   BY <2>3, <2>8 DEF Unsettled, Recovers, CanRemove, CanSettle, Removing, HalfRoot, BindInv, PairBound
 <2>9. CASE journal.state = "CLEANED" BY <2>1, <2>9 DEF Answers, CanRehydrate, PairBound, BindInv, RootInv
 <2> QED BY <2>4, <2>5, <2>6, <2>7, <2>8, <2>9 DEF RootTypeOK, States
<1> QED BY <1>1, Invariance, PTL

----------------------------------------

\* What a step keeps of the canonical pair, the attestation and the journal's bond
Keeping ==
  /\ record # 0 => record' = record
  /\ index # 0 => index' = index
  /\ attestation # 0 => attestation' = attestation
  /\ journal.canonical # 0 =>
       journal'.canonical = journal.canonical
       /\ journal'.state \notin {"VACANT", "BUILDING", "PUBLISHING"}

\* No step replaces or takes back what has been published.
LEMMA KeepingStep == IInv /\ [Next]_vars => Keeping
<1> SUFFICES ASSUME IInv, [Next]_vars PROVE Keeping OBVIOUS
<1> USE SlotsAssumption DEF vars, procVars, rootVars, stageVars, storeVars, faultVars,
    IInv, TypeInv, TypeOK, RootTypeOK, BindInv, StepInv, Keeping
<1>1. ASSUME NEW p \in Procs, Unlink(p) \/ Removed(p) \/ PrepareRoot(p) \/ WriteOwner(p)
         \/ Build(p) PROVE Keeping
  BY <1>1 DEF Unlink, Removed, PrepareRoot, WriteOwner, Build
<1>2. ASSUME NEW p \in Procs, StageRecord(p) \/ RaiseUnmarked(p) \/ Begin(p) \/ Open(p)
         \/ OpenBusy(p) PROVE Keeping
  BY <1>2 DEF StageRecord, RaiseUnmarked, Begin, Open, OpenBusy
<1>3. ASSUME NEW p \in Procs, StartRemoval(p) \/ Miss(p) \/ Hit(p) \/ Refuse(p) \/
         RehydratedEvidence(p) PROVE Keeping
  BY <1>3 DEF StartRemoval, Miss, Hit, Refuse, RehydratedEvidence
<1>4. ASSUME NEW p \in Procs, StartFinalizing(p) \/ Finalized(p) \/ AttestBusy(p) \/
         Undone(p) \/ Inspect(p) PROVE Keeping
  BY <1>4 DEF StartFinalizing, Finalized, AttestBusy, Undone, Inspect
<1>5. ASSUME NEW p \in Procs, Lease(p) \/ Release(p) \/ RaiseAndUndo(p) \/ Raise(p) \/
         RaiseCleaning(p) PROVE Keeping
  BY <1>5 DEF Lease, Release, RaiseAndUndo, Raise, RaiseCleaning
<1>6. ASSUME NEW p \in Procs, Crash(p) \/ PublishEvidence(p) PROVE Keeping BY <1>6 DEF Crash, PublishEvidence
<1>7. ASSUME NEW p \in Procs, EnterDiscarding(p) PROVE Keeping
  BY <1>7 DEF EnterDiscarding, At, CanDiscard, Interrupted, Unpublishable, Completable, Move
<1>8. ASSUME NEW p \in Procs, Settle(p) PROVE Keeping BY <1>8 DEF Settle, At, CanSettle, Removing, Move, Destination
<1>9. ASSUME NEW p \in Procs, BeginMaterialization(p) PROVE Keeping BY <1>9 DEF BeginMaterialization, At, Move, Goto
<1>10. ASSUME NEW p \in Procs, BindRoot(p) PROVE Keeping BY <1>10 DEF BindRoot, At, Move, Goto
<1>11. ASSUME NEW p \in Procs, EnterPublishing(p) PROVE Keeping BY <1>11 DEF EnterPublishing, At, Move, Goto
<1>12. ASSUME NEW p \in Procs, PublishRecord(p) PROVE Keeping BY <1>12 DEF PublishRecord
<1>13. ASSUME NEW p \in Procs, PublishIndex(p) PROVE Keeping BY <1>13 DEF PublishIndex
<1>14. ASSUME NEW p \in Procs, BecomePresent(p) PROVE Keeping
  BY <1>14 DEF BecomePresent, Publishes, CanComplete, At, Move, LeaveSession
<1>15. ASSUME NEW p \in Procs, Rehydrated(p) PROVE Keeping BY <1>15 DEF Rehydrated, At, Move, LeaveSession
<1>16. ASSUME NEW p \in Procs, Attest(p) PROVE Keeping BY <1>16 DEF Attest
<1>17. ASSUME NEW p \in Procs, StartCleaning(p) PROVE Keeping
  BY <1>17 DEF StartCleaning, At, Enter, PresentVerified, Move
<1>18. ASSUME NEW p \in Procs, FinishCleaning(p) PROVE Keeping BY <1>18 DEF FinishCleaning, At, Move, Return
<1>19. CASE PowerLoss BY <1>19 DEF PowerLoss
<1>20. CASE LoseStaged BY <1>20 DEF LoseStaged
<1>21. CASE UNCHANGED vars BY <1>21
<1> QED BY <1>1, <1>2, <1>3, <1>4, <1>5, <1>6, <1>7, <1>8, <1>9, <1>10, <1>11, <1>12,
     <1>13, <1>14, <1>15, <1>16, <1>17, <1>18, <1>19, <1>20, <1>21 DEF Next, Work,
     Lookup, Remove, Materialize, Publish, Finalize, Fault

\* The root of a publication begun, or of a build that is PRESENT, stays
RootKept == journal.state \in {"PUBLISHING", "PRESENT"} => root' = root

\* No step touches the root of a publication begun or of a build PRESENT.
LEMMA RootKeptStep == IInv /\ [Next]_vars => RootKept
<1> SUFFICES ASSUME IInv, [Next]_vars PROVE RootKept OBVIOUS
<1> USE SlotsAssumption DEF vars, procVars, rootVars, stageVars, storeVars, faultVars,
    IInv, StepInv, RootInv, RootKept
<1>1. ASSUME NEW p \in Procs, Begin(p) \/ Open(p) \/ OpenBusy(p) \/ EnterDiscarding(p)
         \/ StartRemoval(p) \/ Settle(p) PROVE RootKept
  BY <1>1 DEF Begin, Open, OpenBusy, EnterDiscarding, StartRemoval, Settle
<1>2. ASSUME NEW p \in Procs, Miss(p) \/ Hit(p) \/ Refuse(p) \/ BeginMaterialization(p)
         \/ BindRoot(p) \/ StageRecord(p) PROVE RootKept
  BY <1>2 DEF Miss, Hit, Refuse, BeginMaterialization, BindRoot, StageRecord
<1>3. ASSUME NEW p \in Procs, EnterPublishing(p) \/ PublishRecord(p) \/ PublishIndex(p)
         \/ PublishEvidence(p) \/ BecomePresent(p) \/ RehydratedEvidence(p) PROVE RootKept
  BY <1>3 DEF EnterPublishing, PublishRecord, PublishIndex, PublishEvidence, BecomePresent, RehydratedEvidence
<1>4. ASSUME NEW p \in Procs, Rehydrated(p) \/ StartFinalizing(p) \/ Finalized(p) \/
         Attest(p) \/ AttestBusy(p) \/ Undone(p) PROVE RootKept
  BY <1>4 DEF Rehydrated, StartFinalizing, Finalized, Attest, AttestBusy, Undone
<1>5. ASSUME NEW p \in Procs, Inspect(p) \/ Lease(p) \/ Release(p) \/ StartCleaning(p)
         \/ FinishCleaning(p) \/ RaiseAndUndo(p) PROVE RootKept
  BY <1>5 DEF Inspect, Lease, Release, StartCleaning, FinishCleaning, RaiseAndUndo
<1>6. ASSUME NEW p \in Procs, Raise(p) \/ RaiseCleaning(p) \/ Crash(p) PROVE RootKept
  BY <1>6 DEF Raise, RaiseCleaning, Crash
<1>7. ASSUME NEW p \in Procs, Unlink(p) PROVE RootKept BY <1>7 DEF Unlink, Removes
<1>8. ASSUME NEW p \in Procs, Removed(p) PROVE RootKept BY <1>8 DEF Removed, Removes
<1>9. ASSUME NEW p \in Procs, PrepareRoot(p) PROVE RootKept BY <1>9 DEF PrepareRoot, At, NoRoot, Goto
<1>10. ASSUME NEW p \in Procs, WriteOwner(p) PROVE RootKept BY <1>10 DEF WriteOwner, At, Goto
<1>11. ASSUME NEW p \in Procs, Build(p) PROVE RootKept BY <1>11 DEF Build, At, Goto
<1>12. ASSUME NEW p \in Procs, RaiseUnmarked(p) PROVE RootKept BY <1>12 DEF RaiseUnmarked, At
<1>13. CASE PowerLoss BY <1>13 DEF PowerLoss
<1>14. CASE LoseStaged BY <1>14 DEF LoseStaged
<1>15. CASE UNCHANGED vars BY <1>15
<1> QED BY <1>1, <1>2, <1>3, <1>4, <1>5, <1>6, <1>7, <1>8, <1>9, <1>10, <1>11, <1>12,
     <1>13, <1>14, <1>15 DEF Next, Work, Lookup, Remove, Materialize, Publish, Finalize,
     Fault

\* The steps of the abstract specification
Abstract == [Lifecycle!Next]_(Lifecycle!vars)

\* Every step is one of the abstract specification, or none.
LEMMA AbstractStep == IInv /\ [Next]_vars => Abstract
<1> SUFFICES ASSUME IInv, [Next]_vars PROVE Abstract OBVIOUS
<1> USE SlotsAssumption DEF vars, procVars, rootVars, stageVars, storeVars, faultVars,
    IInv, TypeInv, TypeOK, RootTypeOK, StoreTypeOK, BindInv, StepInv, Abstract,
    Lifecycle!vars
<1>1. ASSUME NEW p \in Procs, Unlink(p) \/ Removed(p) \/ PrepareRoot(p) \/ WriteOwner(p)
         \/ Build(p) PROVE Abstract
  BY <1>1 DEF Unlink, Removed, PrepareRoot, WriteOwner, Build
<1>2. ASSUME NEW p \in Procs, StageRecord(p) \/ RaiseUnmarked(p) \/ Begin(p) \/ Open(p)
         \/ OpenBusy(p) PROVE Abstract
  BY <1>2 DEF StageRecord, RaiseUnmarked, Begin, Open, OpenBusy
<1>3. ASSUME NEW p \in Procs, StartRemoval(p) \/ Miss(p) \/ Hit(p) \/ Refuse(p) \/
         RehydratedEvidence(p) PROVE Abstract
  BY <1>3 DEF StartRemoval, Miss, Hit, Refuse, RehydratedEvidence
<1>4. ASSUME NEW p \in Procs, StartFinalizing(p) \/ Finalized(p) \/ AttestBusy(p) \/
         Undone(p) \/ Inspect(p) PROVE Abstract
  BY <1>4 DEF StartFinalizing, Finalized, AttestBusy, Undone, Inspect
<1>5. ASSUME NEW p \in Procs, Lease(p) \/ Release(p) \/ RaiseAndUndo(p) \/ Raise(p) \/
         RaiseCleaning(p) PROVE Abstract
  BY <1>5 DEF Lease, Release, RaiseAndUndo, Raise, RaiseCleaning
<1>6. ASSUME NEW p \in Procs, Crash(p) \/ PublishEvidence(p) PROVE Abstract BY <1>6 DEF Crash, PublishEvidence
<1>7. ASSUME NEW p \in Procs, EnterDiscarding(p) PROVE Abstract
  BY <1>7 DEF EnterDiscarding, At, CanDiscard, Interrupted, Unpublishable, Completable, Move
<1>8. ASSUME NEW p \in Procs, Settle(p) PROVE Abstract BY <1>8 DEF Settle, At, CanSettle, Removing, Move, Destination
<1>9. ASSUME NEW p \in Procs, BeginMaterialization(p) PROVE Abstract BY <1>9 DEF BeginMaterialization, At, Move, Goto
<1>10. ASSUME NEW p \in Procs, BindRoot(p) PROVE Abstract BY <1>10 DEF BindRoot, At, Move, Goto
<1>11. ASSUME NEW p \in Procs, EnterPublishing(p) PROVE Abstract BY <1>11 DEF EnterPublishing, At, Move, Goto
<1>12. ASSUME NEW p \in Procs, PublishRecord(p) PROVE Abstract BY <1>12 DEF PublishRecord
<1>13. ASSUME NEW p \in Procs, PublishIndex(p) PROVE Abstract
 <2>1. index = 0 /\ index' = record /\ record \in Nat \ {0} BY <1>13 DEF PublishIndex, Ids
 <2>2. UNCHANGED <<attestation, journal>> BY <1>13 DEF PublishIndex
 <2> QED BY <2>1, <2>2 DEF Lifecycle!Next, Lifecycle!Store
<1>14. ASSUME NEW p \in Procs, BecomePresent(p) PROVE Abstract
 <2>1. journal.state = "PUBLISHING" /\ journal'.state = "PRESENT" /\ index # 0
   BY <1>14 DEF BecomePresent, Publishes, CanComplete, At, Move
 <2>2. UNCHANGED <<index, attestation>> BY <1>14 DEF BecomePresent
 <2> QED BY <2>1, <2>2 DEF Lifecycle!Next, Lifecycle!Release
<1>15. ASSUME NEW p \in Procs, Rehydrated(p) PROVE Abstract
 <2>1. journal.state = "REHYDRATING" /\ journal'.state = "PRESENT" /\ index # 0 BY <1>15 DEF Rehydrated, At, Move
 <2>2. UNCHANGED <<index, attestation>> BY <1>15 DEF Rehydrated
 <2> QED BY <2>1, <2>2 DEF Lifecycle!Next, Lifecycle!Release
<1>16. ASSUME NEW p \in Procs, Attest(p) PROVE Abstract
 <2>1. index # 0 /\ attestation = 0 /\ attestation' = Me /\ journal.state = "PRESENT"
   BY <1>16 DEF Attest, At, AttestInv
 <2>2. UNCHANGED <<index, journal>> BY <1>16 DEF Attest
 <2>3. Me \in Nat \ {0} /\ Me >= index BY <1>16, <2>1 DEF Attest, Me, Ids
 <2> QED BY <2>1, <2>2, <2>3 DEF Lifecycle!Next, Lifecycle!Attest
<1>17. ASSUME NEW p \in Procs, StartCleaning(p) PROVE Abstract
 <2>1. journal.state = "PRESENT" /\ journal'.state = "CLEANING" /\ attestation # 0
   BY <1>17 DEF StartCleaning, PresentVerified, Move
 <2>2. UNCHANGED <<index, attestation>> BY <1>17 DEF StartCleaning
 <2> QED BY <2>1, <2>2 DEF Lifecycle!Next, Lifecycle!GiveUp
<1>18. ASSUME NEW p \in Procs, FinishCleaning(p) PROVE Abstract BY <1>18 DEF FinishCleaning, At, Move, Return
<1>19. CASE PowerLoss BY <1>19 DEF PowerLoss
<1>20. CASE LoseStaged BY <1>20 DEF LoseStaged
<1>21. CASE UNCHANGED vars BY <1>21
<1> QED BY <1>1, <1>2, <1>3, <1>4, <1>5, <1>6, <1>7, <1>8, <1>9, <1>10, <1>11, <1>12,
     <1>13, <1>14, <1>15, <1>16, <1>17, <1>18, <1>19, <1>20, <1>21 DEF Next, Work,
     Lookup, Remove, Materialize, Publish, Finalize, Fault

\* _publish_canonical_pair and publish_build_attestation never replace a document,
\* and _transition carries the canonical pair forward.
THEOREM CanonicalKept == Spec => CanonicalIsKept
<1>1. IInv /\ [Next]_vars => [Keeping]_vars BY KeepingStep
<1> QED BY <1>1, Invariance, PTL DEF Spec, CanonicalIsKept, Keeping

\* Neither the failure handler of a build nor a recovery touches a published root.
THEOREM PublishedRootKept == Spec => PublishedRootIsKept
<1>1. IInv /\ [Next]_vars => [RootKept]_vars BY RootKeptStep
<1> QED BY <1>1, Invariance, PTL DEF Spec, PublishedRootIsKept, RootKept

\* BuildCache implements BuildLifecycle.
THEOREM Implementation == Spec => ImplementsBuildLifecycle
<1>1. Init => Lifecycle!Init BY DEF Init, Lifecycle!Init
<1>2. IInv /\ [Next]_vars => [Lifecycle!Next]_(Lifecycle!vars) BY AbstractStep DEF Abstract
<1> QED BY <1>1, <1>2, Invariance, PTL DEF Spec, ImplementsBuildLifecycle, Lifecycle!Spec

\* What lookup, lease_build, cleanup_build and the attestation rely on, together:
\* types, leases, and attestations of nothing but finalized successes.
THEOREM BuildSound == Spec => []BuildIsSound
<1>1. TypeOK /\ LeaseIsSound /\ AttestedBySuccess /\ CleanedIsAttested => BuildIsSound BY DEF BuildIsSound
<1> QED BY <1>1, TypeCorrect, LeaseSafety, SuccessAttested, AttestedWhenCleaned, PTL

\* Every state a fault leaves is one that lookup answers or recovers and, once
\* publishing was begun, one that _complete_publishing completes.
THEOREM RecoveryPossible == Spec => []RecoveryIsPossible
<1>1. LookupIsAnswered /\ PublicationIsCompletable => RecoveryIsPossible BY DEF RecoveryIsPossible
<1> QED BY <1>1, LookupAnswered, CompletablePublication, PTL

\* No step replaces what was published, neither the canonical pair nor the root.
THEOREM PublishedKept == Spec => PublishedIsKept
BY CanonicalKept, PublishedRootKept DEF PublishedIsKept

=============================================================================

-------------------------- MODULE RunEvidence_proofs --------------------------
(***************************************************************************)
(* Safety of RunEvidence for every set of processes and paths and every    *)
(* bound on the faults: its invariants follow from the inductive invariant *)
(* IInv, whose parts each have a lemma with one step per action.           *)
(***************************************************************************)
EXTENDS RunEvidence, TLAPS

\* The critical section is the lock's: whoever is in an operation holds it.
LockInv == \A p \in Procs : pc[p] \notin {"idle", "sweep.lock"} <=> lock = p

\* The steps of a transition
Publishing == {"event.create", "event.write", "event.rename", "event.sync",
               "status.create", "status.rename", "status.sync"}

\* What a process is publishing is an event or a path, as its step says, and the
\* temp it is about to rename exists.
WritingInv ==
  \A p \in Procs :
    /\ pc[p] \in Publishing => writing[p] \in Event
    /\ pc[p] \in {"local.rename", "local.sync"} => writing[p] \in Paths
    /\ pc[p] = "status.rename" => statusTemps > 0
    /\ pc[p] = "sums.rename" => sumsTemps > 0

\* What is known of the processes
ProcInv == ProcTypeOK /\ LockInv /\ WritingInv

\* Types, with what is known of the processes
TypeInv == TypeOK /\ ProcInv

\* A tree that is not live holds what _stage_run builds and nothing unsynced; the
\* journal is never empty, and an event that may be lost is not its first.
FreshInv ==
  /\ tree # "live" =>
       /\ events = <<"ALLOCATED">> /\ status = Allocated /\ syncedStatus = Allocated
       /\ eventTemp = "none"
       /\ volatile \cap {"event", "status", "sums"} = {}
  /\ Len(events) >= 1
  /\ "event" \in volatile => Len(events) > 1
  /\ \A p \in Procs : pc[p] = "rmdir" => tree = "tearing"

\* The status a transition of p will project
Upcoming(p) == [seq |-> known[p].seq + 1, event |-> writing[p]]

\* The journal under each step of the process that holds the lock
JournalInv ==
  \A p \in Procs :
    /\ pc[p] \in {"recover", "judge"} => role[p] # "owner"
    /\ pc[p] = "stage.sync" =>
         tree = "live" /\ events = <<"ALLOCATED">> /\ status = Allocated /\ eventTemp = "none"
    /\ pc[p] \in {"event.create", "event.write", "event.rename"} =>
         /\ tree = "live" /\ known[p] = status
         /\ ChainOf(events, status) /\ Legal(status.event, writing[p])
    /\ pc[p] = "event.create" => eventTemp = "none"
    /\ pc[p] = "event.write" => eventTemp = "torn"
    /\ pc[p] = "event.rename" => eventTemp = "full"
    /\ pc[p] \in {"event.sync", "status.create", "status.rename"} =>
         /\ tree = "live" /\ known[p] = status /\ eventTemp = "none"
         /\ Len(events) > status.seq /\ events[status.seq + 1] = writing[p]
         /\ role[p] = "owner" => ChainOf(events, Upcoming(p))
    /\ pc[p] = "status.sync" =>
         /\ tree = "live" /\ known[p] = status /\ eventTemp = "none"
         /\ status.event = writing[p]
         /\ role[p] = "owner" => ChainOf(events, status)
    /\ pc[p] \in {"session", "local.rename", "local.sync", "portable.fill", "portable.commit"} =>
         /\ tree = "live" /\ known[p] = status /\ eventTemp = "none"
         /\ ChainOf(events, status)
    /\ pc[p] = "judge" => tree = "live" /\ known[p] = status /\ eventTemp = "none"

\* The payload under each step of finalization; one checksum file at most
FinalInv ==
  /\ \A s \in sums, t \in sums : s = t
  /\ \A p \in Procs :
       /\ pc[p] \in {"complete", "portable", "sums", "sums.rename", "sums.sync", "record"} =>
            /\ tree = "live" /\ eventTemp = "none"
            /\ ChainOf(events, status) /\ Terminal(status.event)
       /\ pc[p] \in {"record.sync", "index", "index.sync"} => tree = "live"
       /\ pc[p] \in {"portable", "sums", "sums.rename", "sums.sync", "record"} => statusTemps = 0
       /\ pc[p] \in {"portable", "sums", "sums.sync", "record"} => sumsTemps = 0
       /\ pc[p] = "sums.rename" => sumsTemps = 1
       /\ pc[p] \in {"sums.sync", "record"} => sums = {Payload(0)}

\* Record and index are there to stay.
Durable == records # {} /\ indexes # {} /\ volatile \cap {"record", "index"} = {}

\* Record and index: verified from the moment they are published, the record
\* durable before there is an index, both durable before the tree is touched.
SealInv ==
  /\ \A r \in records : Verified(r)
  /\ indexes # {} => records # {} /\ "record" \notin volatile
  /\ \A i \in indexes : \E r \in records : Binds(i, r)
  /\ tree = "tearing" \/ "gone" \in volatile => Durable
  /\ tree = "live" => "gone" \notin volatile
  /\ \A p \in Procs :
       /\ pc[p] \in {"stage.make", "stage.fill", "stage.describe", "stage.rename"} =>
            tree = "absent" /\ records = {} /\ indexes = {}
       /\ pc[p] = "record.sync" => records # {}
       /\ pc[p] \in {"index", "index.sync"} => records # {} /\ "record" \notin volatile
       /\ pc[p] \in {"index.sync", "finish"} => indexes # {}
       /\ pc[p] \in {"teardown", "rmdir", "gone.sync"} => Durable

\* INTERRUPTED is decided when the owner is dead, and no owner comes back.
DeadInv ==
  /\ InterruptedOnlyWhenDead
  /\ \A p \in Procs :
       pc[p] \in {"event.create", "event.write", "event.rename"} /\ writing[p] = "INTERRUPTED"
         => ~ownerAlive

\* The types that are of the stage, the record and the index
RestTypeOK == StageTypeOK /\ SealTypeOK

\* The inductive invariant
IInv == /\ TypeInv /\ FreshInv /\ JournalInv /\ FinalInv
        /\ SealInv /\ StageIsTheAllocators /\ DeadInv

----------------------------------------
\* A payload is well typed.
LEMMA PayloadType ==
  ASSUME TreeTypeOK, NEW n \in Nat
  PROVE  Payload(n) \in Payloads
BY DEF TreeTypeOK, Payload, Payloads, Status

\* A sequence without its last element is over the same set.
LEMMA ShorterSeq ==
  ASSUME NEW S, NEW s \in Seq(S)
  PROVE  SubSeq(s, 1, Len(s) - 1) \in Seq(S)
<1>1. CASE s = << >> BY <1>1
<1>2. CASE s # << >> BY <1>2
<1> QED BY <1>1, <1>2

\* A process that leaves its operation keeps the locks and the publishing of the
\* others in order.
LEMMA LeaveProc ==
  ASSUME ProcInv, NEW p \in Procs, Leave(p), statusTemps' = statusTemps, sumsTemps' = sumsTemps
  PROVE  ProcInv'
BY SlotsAssumption DEF ProcInv, ProcTypeOK, LockInv, WritingInv, Publishing, Labels, Allocated, Status, Event, Leave

\* The journal _stage_run writes is a chain.
LEMMA ChainStart == ChainOf(<<"ALLOCATED">>, Allocated) /\ Legal("ALLOCATED", "ACTIVE")
BY DEF ChainOf, Allocated, Legal

\* A legal event appended to a chain gives the chain of the status it projects.
LEMMA ChainAppend ==
  ASSUME NEW evs \in Seq(Event), Len(evs) >= 1, NEW st \in Status, NEW e \in Event,
         ChainOf(evs, st), Legal(st.event, e)
  PROVE  ChainOf(Append(evs, e), [seq |-> st.seq + 1, event |-> e])
<1> DEFINE longer == Append(evs, e)
<1>1. Len(longer) = Len(evs) + 1 /\ longer[Len(evs) + 1] = e OBVIOUS
<1>2. \A i \in 1 .. Len(evs) : longer[i] = evs[i] OBVIOUS
<1>3. Len(evs) = st.seq /\ evs[1] = "ALLOCATED" /\ evs[Len(evs)] = st.event BY DEF ChainOf
<1>4. ASSUME NEW i \in 2 .. Len(longer) PROVE Legal(longer[i - 1], longer[i])
 <2>1. CASE i = Len(evs) + 1 BY <1>1, <1>2, <1>3, <2>1
 <2>2. CASE i \in 2 .. Len(evs) BY <1>2, <2>2 DEF ChainOf
 <2> QED BY <1>1, <2>1, <2>2
<1> HIDE DEF longer
<1>5. ChainOf(longer, [seq |-> st.seq + 1, event |-> e]) BY <1>1, <1>2, <1>3, <1>4 DEF ChainOf, Status
<1> QED BY <1>5 DEF longer

\* A nonterminal state may be interrupted.
LEMMA LegalInterrupt ==
  ASSUME NEW st \in Status, ~Terminal(st.event)
  PROVE  Legal(st.event, "INTERRUPTED")
BY DEF Status, Event, Outcomes, Terminal, Legal

\* What publish_record and _publish_index leave is well typed.
LEMMA RecordType ==
  ASSUME TreeTypeOK, SealTypeOK, NEW p \in Procs, PublishRecord(p)
  PROVE  records' \subseteq Records
<1>1. Payload(sumsTemps) \in Payloads /\ sums \subseteq Payloads BY PayloadType DEF TreeTypeOK
<1> QED BY <1>1 DEF SealTypeOK, Records, PublishRecord

\* What is published as an index is one.
LEMMA IndexType ==
  ASSUME SealTypeOK, NEW p \in Procs, PublishIndex(p)
  PROVE  indexes' \subseteq Indexes
<1>1. \A r \in records : r \in Records /\ r.payload.status.event \in Outcomes
  BY DEF SealTypeOK, PublishIndex, Verified, Terminal
<1> QED BY <1>1 DEF Indexes, PublishIndex

\* Every step keeps the processes well typed, the lock with its holder and what
\* a process publishes fit for its step.
LEMMA ProcStep == TypeInv /\ [Next]_vars => ProcInv'
<1> SUFFICES ASSUME TypeInv, [Next]_vars PROVE ProcInv' OBVIOUS
<1> USE SlotsAssumption DEF vars, procVars, diskVars, stageVars, treeVars,
    journalVars, payloadVars, sumsVars, sealVars, faultVars, TypeInv, TypeOK,
    ProcInv, ProcTypeOK, TreeTypeOK, LockInv, WritingInv, Publishing, Labels,
    Allocated, Status, Event, Outcomes
<1>1. ASSUME NEW p \in Procs, Begin(p) PROVE ProcInv' BY SMTT(40), <1>1 DEF Begin, At, Lock, Taken
<1>2. ASSUME NEW p \in Procs, BuildStage(p) PROVE ProcInv' BY <1>2 DEF BuildStage, Goto, Staging
<1>3. ASSUME NEW p \in Procs, Activate(p) PROVE ProcInv' BY <1>3 DEF Activate, At, Goto
<1>4. ASSUME NEW p \in Procs, ActivateSync(p) PROVE ProcInv' BY <1>4 DEF ActivateSync, At
<1>5. ASSUME NEW p \in Procs, EventCreate(p) PROVE ProcInv' BY <1>5 DEF EventCreate, At, Goto
<1>6. ASSUME NEW p \in Procs, EventWrite(p) PROVE ProcInv' BY <1>6 DEF EventWrite, At, Goto
<1>7. ASSUME NEW p \in Procs, EventRename(p) PROVE ProcInv' BY <1>7 DEF EventRename, At, Goto
<1>8. ASSUME NEW p \in Procs, EventSync(p) PROVE ProcInv' BY <1>8 DEF EventSync, At, Goto
<1>9. ASSUME NEW p \in Procs, StatusCreate(p) PROVE ProcInv' BY <1>9 DEF StatusCreate, At, Goto
<1>10. ASSUME NEW p \in Procs, StatusRename(p) PROVE ProcInv'
 <2>1. writing[p] \in Event /\ statusTemps > 0 BY <1>10 DEF StatusRename, At
 <2>2. status' \in Status BY <1>10, <2>1 DEF StatusRename
 <2>3. lock' = lock /\ role' = role /\ writing' = writing /\ known' \in [Procs -> Status]
   BY <1>10, <2>2 DEF StatusRename
 <2>4. LockInv' /\ WritingInv' BY <1>10, <2>3 DEF StatusRename, At
 <2> QED BY <1>10, <2>3, <2>4 DEF StatusRename
<1>11. ASSUME NEW p \in Procs, StatusSync(p) PROVE ProcInv'
BY <1>11 DEF StatusSync, At, Goto, SyncRoot, RootEntries, AfterStatus
<1>12. ASSUME NEW p \in Procs, NEW f \in Paths, LocalCreate(p, f) PROVE ProcInv' BY <1>12 DEF LocalCreate, At
<1>13. ASSUME NEW p \in Procs, LocalRename(p) PROVE ProcInv' BY <1>13 DEF LocalRename, At, Goto
<1>14. ASSUME NEW p \in Procs, LocalSync(p) PROVE ProcInv' BY <1>14 DEF LocalSync, At, Goto
<1>15. ASSUME NEW p \in Procs, WritePortable(p) PROVE ProcInv'
 <2>1. ASSUME NEW a, NEW b, a \notin {"idle", "sweep.lock", "status.rename", "sums.rename"},
              b \in {"session", "portable.fill", "portable.commit"}, At(p, a), Goto(p, b)
       PROVE  ProcInv'
   BY <1>15, <2>1 DEF WritePortable, At, Goto
 <2> QED BY <1>15, <2>1 DEF WritePortable
<1>16. ASSUME NEW p \in Procs, NEW o \in {"SUCCESS", "FAILURE"}, Finish(p, o) PROVE ProcInv'
BY <1>16 DEF Finish, At
<1>17. ASSUME NEW p \in Procs, Recover(p) PROVE ProcInv' BY <1>17 DEF Recover, At, Lock
<1>18. ASSUME NEW p \in Procs, RefuseEntry(p) PROVE ProcInv' BY <1>18 DEF RefuseEntry, At, Refuse, Leave
<1>19. ASSUME NEW p \in Procs, UnknownRun(p) PROVE ProcInv' BY <1>19 DEF UnknownRun, At, Leave
<1>20. ASSUME NEW p \in Procs, RecoverFromIndex(p) PROVE ProcInv' BY <1>20 DEF RecoverFromIndex, At, Goto
<1>21. ASSUME NEW p \in Procs, DropEventTemp(p) PROVE ProcInv' BY <1>21 DEF DropEventTemp, At, Entered
<1>22. ASSUME NEW p \in Procs, AdoptOrphan(p) PROVE ProcInv' BY <1>22 DEF AdoptOrphan, At, Entered, Orphan
<1>23. ASSUME NEW p \in Procs, LoadStatus(p) PROVE ProcInv' BY <1>23 DEF LoadStatus, At, Entered, Orphan
<1>24. ASSUME NEW p \in Procs, RefuseChain(p) PROVE ProcInv' BY <1>24 DEF RefuseChain, At, Refuse, Leave
<1>25. ASSUME NEW p \in Procs, CompleteTerminal(p) PROVE ProcInv'
BY <1>25 DEF CompleteTerminal, At, Judged, Goto
<1>26. ASSUME NEW p \in Procs, ReportBusy(p) PROVE ProcInv' BY <1>26 DEF ReportBusy, At, Judged, Leave
<1>27. ASSUME NEW p \in Procs, Interrupt(p) PROVE ProcInv' BY <1>27 DEF Interrupt, At, Judged
<1>28. ASSUME NEW p \in Procs, RefuseControl(p) PROVE ProcInv' BY <1>28 DEF RefuseControl, At, Refuse, Leave
<1>29. ASSUME NEW p \in Procs, ClearControlTemps(p) PROVE ProcInv'
 <2>1. At(p, "complete") /\ Goto(p, "portable") BY <1>29 DEF ClearControlTemps
 <2>2. pc'[p] = "portable" /\ \A q \in Procs \ {p} : pc[q] \in {"idle", "sweep.lock"} /\ pc'[q] = pc[q]
   BY <2>1 DEF At, Goto
 <2>3. ProcTypeOK' /\ LockInv' BY <2>1 DEF At, Goto
 <2>4. WritingInv'
  <3> HIDE DEF TypeInv, TypeOK, ProcInv
  <3> QED BY <2>2
 <2> QED BY <2>3, <2>4
<1>30. ASSUME NEW p \in Procs, RefusePortable(p) PROVE ProcInv' BY <1>30 DEF RefusePortable, At, Refuse, Leave
<1>31. ASSUME NEW p \in Procs, ReconcilePortable(p) PROVE ProcInv' BY <1>31 DEF ReconcilePortable, At, Goto
<1>32. ASSUME NEW p \in Procs, RefuseChecksums(p) PROVE ProcInv' BY <1>32 DEF RefuseChecksums, At, Refuse, Leave
<1>33. ASSUME NEW p \in Procs, AcceptChecksums(p) PROVE ProcInv' BY <1>33 DEF AcceptChecksums, At, Goto
<1>34. ASSUME NEW p \in Procs, ChecksumsCreate(p) PROVE ProcInv' BY <1>34 DEF ChecksumsCreate, At, Goto
<1>35. ASSUME NEW p \in Procs, ChecksumsRename(p) PROVE ProcInv'
 <2>1. At(p, "sums.rename") /\ Goto(p, "sums.sync") BY <1>35 DEF ChecksumsRename
 <2>2. pc'[p] = "sums.sync" /\ \A q \in Procs \ {p} : pc[q] \in {"idle", "sweep.lock"} /\ pc'[q] = pc[q]
   BY <2>1 DEF At, Goto
 <2>3. ProcTypeOK' /\ LockInv' BY <2>1 DEF At, Goto
 <2>4. WritingInv'
  <3> HIDE DEF TypeInv, TypeOK, ProcInv
  <3> QED BY <2>2
 <2> QED BY <2>3, <2>4
<1>36. ASSUME NEW p \in Procs, ChecksumsSync(p) PROVE ProcInv'
BY <1>36 DEF ChecksumsSync, At, Goto, SyncRoot, RootEntries
<1>37. ASSUME NEW p \in Procs, PublishRecord(p) PROVE ProcInv' BY <1>37 DEF PublishRecord, At, Goto
<1>38. ASSUME NEW p \in Procs, RecordSync(p) PROVE ProcInv' BY <1>38 DEF RecordSync, At, Goto
<1>39. ASSUME NEW p \in Procs, PublishIndex(p) PROVE ProcInv' BY <1>39 DEF PublishIndex, At, Goto
<1>40. ASSUME NEW p \in Procs, IndexSync(p) PROVE ProcInv' BY <1>40 DEF IndexSync, At, Goto
<1>41. ASSUME NEW p \in Procs, FinishFromIndex(p) PROVE ProcInv' BY <1>41 DEF FinishFromIndex, At, Goto
<1>42. ASSUME NEW p \in Procs, Teardown(p) PROVE ProcInv'
 <2>1. At(p, "teardown") /\ Goto(p, "rmdir") BY <1>42 DEF Teardown
 <2>2. pc'[p] = "rmdir" /\ \A q \in Procs \ {p} : pc[q] \in {"idle", "sweep.lock"} /\ pc'[q] = pc[q]
   BY <2>1 DEF At, Goto
 <2>3. ProcTypeOK' /\ LockInv' BY <2>1 DEF At, Goto
 <2>4. WritingInv'
  <3> HIDE DEF TypeInv, TypeOK, ProcInv
  <3> QED BY <2>2
 <2> QED BY <2>3, <2>4
<1>43. ASSUME NEW p \in Procs, TornDown(p) PROVE ProcInv' BY <1>43 DEF TornDown, At, Leave
<1>44. ASSUME NEW p \in Procs, Rmdir(p) PROVE ProcInv' BY <1>44 DEF Rmdir, At, Goto
<1>45. ASSUME NEW p \in Procs, GoneSync(p) PROVE ProcInv' BY <1>45 DEF GoneSync, At, Leave
<1>46. ASSUME NEW p \in Procs, SweepList(p) PROVE ProcInv' BY <1>46 DEF SweepList, At, Goto
<1>47. ASSUME NEW p \in Procs, SweepLock(p) PROVE ProcInv'
 <2>1. CASE Lock(p, "recoverer", "sweep") BY <1>47, <2>1 DEF SweepLock, At, Lock
 <2>2. CASE lock # Nobody /\ Leave(p) BY <1>47, <2>2, LeaveProc DEF SweepLock
 <2> QED BY <1>47, <2>1, <2>2 DEF SweepLock
<1>48. ASSUME NEW p \in Procs, RefuseStage(p) PROVE ProcInv'
 <2>1. Leave(p) /\ UNCHANGED diskVars BY <1>48 DEF RefuseStage, Refuse
 <2> QED BY <2>1 DEF Leave
<1>49. ASSUME NEW p \in Procs, LeaveLiveStage(p) PROVE ProcInv' BY <1>49 DEF LeaveLiveStage, At, Leave
<1>50. ASSUME NEW p \in Procs, ReclaimStage(p) PROVE ProcInv' BY <1>50 DEF ReclaimStage, At, Goto
<1>51. ASSUME NEW p \in Procs, RemoveStage(p) PROVE ProcInv' BY <1>51 DEF RemoveStage, At, Leave
<1>52. ASSUME NEW p \in Procs, Exit(p) PROVE ProcInv' BY <1>52 DEF Exit, At
<1>53. ASSUME NEW p \in Procs, Kill(p) PROVE ProcInv' BY <1>53 DEF Kill, At, Leave
<1>54. ASSUME NEW p \in Procs, ErrorInWrite(p) PROVE ProcInv' BY <1>54 DEF ErrorInWrite, At, Goto
<1>55. ASSUME NEW p \in Procs, Error(p) PROVE ProcInv' BY <1>55 DEF Error, At, Leave, Staging
<1>56. ASSUME PowerLoss PROVE ProcInv' BY <1>56 DEF PowerLoss, StageAfter, TreeAfter, FreshTree
<1>57. CASE UNCHANGED vars BY <1>57
<1> HIDE DEF TypeInv, TypeOK, ProcInv, ProcTypeOK, TreeTypeOK, LockInv,
    WritingInv, Publishing, Labels, Allocated, Status, Event, Outcomes
<1> QED BY <1>1, <1>2, <1>3, <1>4, <1>5, <1>6, <1>7, <1>8, <1>9, <1>10, <1>11,
     <1>12, <1>13, <1>14, <1>15, <1>16, <1>17, <1>18, <1>19, <1>20, <1>21,
     <1>22, <1>23, <1>24, <1>25, <1>26, <1>27, <1>28, <1>29, <1>30, <1>31,
     <1>32, <1>33, <1>34, <1>35, <1>36, <1>37, <1>38, <1>39, <1>40, <1>41,
     <1>42, <1>43, <1>44, <1>45, <1>46, <1>47, <1>48, <1>49, <1>50, <1>51,
     <1>52, <1>53, <1>54, <1>55, <1>56, <1>57 DEF Next, Allocation, Journal,
     Session, Recovery, Finalization, Sweep, Fault

\* Every step keeps the tree well typed.
LEMMA TreeStep == TypeInv /\ [Next]_vars => TreeTypeOK'
<1> SUFFICES ASSUME TypeInv, [Next]_vars PROVE TreeTypeOK' OBVIOUS
<1> USE SlotsAssumption DEF vars, procVars, diskVars, stageVars, treeVars,
    journalVars, payloadVars, sumsVars, sealVars, faultVars, TypeInv, TypeOK,
    ProcInv, ProcTypeOK, TreeTypeOK, LockInv, WritingInv, Publishing, Allocated,
    Status, Event
<1>1. ASSUME NEW p \in Procs, Begin(p) PROVE TreeTypeOK' BY <1>1 DEF Begin, At, Lock, Taken
<1>2. ASSUME NEW p \in Procs, BuildStage(p) PROVE TreeTypeOK' BY <1>2 DEF BuildStage, Goto, Staging
<1>3. ASSUME NEW p \in Procs, Activate(p) PROVE TreeTypeOK' BY <1>3 DEF Activate, At, Goto
<1>4. ASSUME NEW p \in Procs, ActivateSync(p) PROVE TreeTypeOK' BY <1>4 DEF ActivateSync, At
<1>5. ASSUME NEW p \in Procs, EventCreate(p) PROVE TreeTypeOK' BY <1>5 DEF EventCreate, At, Goto
<1>6. ASSUME NEW p \in Procs, EventWrite(p) PROVE TreeTypeOK' BY <1>6 DEF EventWrite, At, Goto
<1>7. ASSUME NEW p \in Procs, EventRename(p) PROVE TreeTypeOK' BY <1>7 DEF EventRename, At, Goto
<1>8. ASSUME NEW p \in Procs, EventSync(p) PROVE TreeTypeOK' BY <1>8 DEF EventSync, At, Goto
<1>9. ASSUME NEW p \in Procs, StatusCreate(p) PROVE TreeTypeOK' BY <1>9 DEF StatusCreate, At, Goto
<1>10. ASSUME NEW p \in Procs, StatusRename(p) PROVE TreeTypeOK' BY <1>10 DEF StatusRename, At
<1>11. ASSUME NEW p \in Procs, StatusSync(p) PROVE TreeTypeOK'
BY <1>11 DEF StatusSync, At, Goto, SyncRoot, RootEntries, AfterStatus
<1>12. ASSUME NEW p \in Procs, NEW f \in Paths, LocalCreate(p, f) PROVE TreeTypeOK' BY <1>12 DEF LocalCreate, At
<1>13. ASSUME NEW p \in Procs, LocalRename(p) PROVE TreeTypeOK' BY <1>13 DEF LocalRename, At, Goto
<1>14. ASSUME NEW p \in Procs, LocalSync(p) PROVE TreeTypeOK' BY <1>14 DEF LocalSync, At, Goto
<1>15. ASSUME NEW p \in Procs, WritePortable(p) PROVE TreeTypeOK' BY <1>15 DEF WritePortable, At, Goto
<1>16. ASSUME NEW p \in Procs, NEW o \in {"SUCCESS", "FAILURE"}, Finish(p, o) PROVE TreeTypeOK'
BY <1>16 DEF Finish, At
<1>17. ASSUME NEW p \in Procs, Recover(p) PROVE TreeTypeOK' BY <1>17 DEF Recover, At, Lock
<1>18. ASSUME NEW p \in Procs, RefuseEntry(p) PROVE TreeTypeOK' BY <1>18 DEF RefuseEntry, At, Refuse, Leave
<1>19. ASSUME NEW p \in Procs, UnknownRun(p) PROVE TreeTypeOK' BY <1>19 DEF UnknownRun, At, Leave
<1>20. ASSUME NEW p \in Procs, RecoverFromIndex(p) PROVE TreeTypeOK' BY <1>20 DEF RecoverFromIndex, At, Goto
<1>21. ASSUME NEW p \in Procs, DropEventTemp(p) PROVE TreeTypeOK' BY <1>21 DEF DropEventTemp, At, Entered
<1>22. ASSUME NEW p \in Procs, AdoptOrphan(p) PROVE TreeTypeOK' BY <1>22 DEF AdoptOrphan, At, Entered, Orphan
<1>23. ASSUME NEW p \in Procs, LoadStatus(p) PROVE TreeTypeOK' BY <1>23 DEF LoadStatus, At, Entered, Orphan
<1>24. ASSUME NEW p \in Procs, RefuseChain(p) PROVE TreeTypeOK' BY <1>24 DEF RefuseChain, At, Refuse, Leave
<1>25. ASSUME NEW p \in Procs, CompleteTerminal(p) PROVE TreeTypeOK'
BY <1>25 DEF CompleteTerminal, At, Judged, Goto
<1>26. ASSUME NEW p \in Procs, ReportBusy(p) PROVE TreeTypeOK' BY <1>26 DEF ReportBusy, At, Judged, Leave
<1>27. ASSUME NEW p \in Procs, Interrupt(p) PROVE TreeTypeOK' BY <1>27 DEF Interrupt, At, Judged
<1>28. ASSUME NEW p \in Procs, RefuseControl(p) PROVE TreeTypeOK' BY <1>28 DEF RefuseControl, At, Refuse, Leave
<1>29. ASSUME NEW p \in Procs, ClearControlTemps(p) PROVE TreeTypeOK'
BY <1>29 DEF ClearControlTemps, At, Goto, SyncRoot, RootEntries
<1>30. ASSUME NEW p \in Procs, RefusePortable(p) PROVE TreeTypeOK'
BY <1>30 DEF RefusePortable, At, Refuse, Leave
<1>31. ASSUME NEW p \in Procs, ReconcilePortable(p) PROVE TreeTypeOK' BY <1>31 DEF ReconcilePortable, At, Goto
<1>32. ASSUME NEW p \in Procs, RefuseChecksums(p) PROVE TreeTypeOK'
BY <1>32 DEF RefuseChecksums, At, Refuse, Leave
<1>33. ASSUME NEW p \in Procs, AcceptChecksums(p) PROVE TreeTypeOK' BY <1>33 DEF AcceptChecksums, At, Goto
<1>34. ASSUME NEW p \in Procs, ChecksumsCreate(p) PROVE TreeTypeOK' BY <1>34 DEF ChecksumsCreate, At, Goto
<1>35. ASSUME NEW p \in Procs, ChecksumsRename(p) PROVE TreeTypeOK'
 <2>1. sumsTemps - 1 \in Nat BY <1>35 DEF ChecksumsRename, At
 <2> QED BY <1>35, <2>1, PayloadType DEF ChecksumsRename
<1>36. ASSUME NEW p \in Procs, ChecksumsSync(p) PROVE TreeTypeOK'
BY <1>36 DEF ChecksumsSync, At, Goto, SyncRoot, RootEntries
<1>37. ASSUME NEW p \in Procs, PublishRecord(p) PROVE TreeTypeOK' BY <1>37 DEF PublishRecord, At, Goto
<1>38. ASSUME NEW p \in Procs, RecordSync(p) PROVE TreeTypeOK' BY <1>38 DEF RecordSync, At, Goto
<1>39. ASSUME NEW p \in Procs, PublishIndex(p) PROVE TreeTypeOK' BY <1>39 DEF PublishIndex, At, Goto
<1>40. ASSUME NEW p \in Procs, IndexSync(p) PROVE TreeTypeOK' BY <1>40 DEF IndexSync, At, Goto
<1>41. ASSUME NEW p \in Procs, FinishFromIndex(p) PROVE TreeTypeOK' BY <1>41 DEF FinishFromIndex, At, Goto
<1>42. ASSUME NEW p \in Procs, Teardown(p) PROVE TreeTypeOK' BY <1>42 DEF Teardown, At, Goto, FreshTree
<1>43. ASSUME NEW p \in Procs, TornDown(p) PROVE TreeTypeOK' BY <1>43 DEF TornDown, At, Leave
<1>44. ASSUME NEW p \in Procs, Rmdir(p) PROVE TreeTypeOK' BY <1>44 DEF Rmdir, At, Goto
<1>45. ASSUME NEW p \in Procs, GoneSync(p) PROVE TreeTypeOK' BY <1>45 DEF GoneSync, At, Leave
<1>46. ASSUME NEW p \in Procs, SweepList(p) PROVE TreeTypeOK' BY <1>46 DEF SweepList, At, Goto
<1>47. ASSUME NEW p \in Procs, SweepLock(p) PROVE TreeTypeOK' BY <1>47 DEF SweepLock, At, Lock, Leave
<1>48. ASSUME NEW p \in Procs, RefuseStage(p) PROVE TreeTypeOK'
 <2>1. Leave(p) /\ UNCHANGED diskVars BY <1>48 DEF RefuseStage, Refuse
 <2> QED BY <2>1 DEF Leave
<1>49. ASSUME NEW p \in Procs, LeaveLiveStage(p) PROVE TreeTypeOK' BY <1>49 DEF LeaveLiveStage, At, Leave
<1>50. ASSUME NEW p \in Procs, ReclaimStage(p) PROVE TreeTypeOK' BY <1>50 DEF ReclaimStage, At, Goto
<1>51. ASSUME NEW p \in Procs, RemoveStage(p) PROVE TreeTypeOK' BY <1>51 DEF RemoveStage, At, Leave
<1>52. ASSUME NEW p \in Procs, Exit(p) PROVE TreeTypeOK' BY <1>52 DEF Exit, At
<1>53. ASSUME NEW p \in Procs, Kill(p) PROVE TreeTypeOK' BY <1>53 DEF Kill, At, Leave
<1>54. ASSUME NEW p \in Procs, ErrorInWrite(p) PROVE TreeTypeOK' BY <1>54 DEF ErrorInWrite, At, Goto
<1>55. ASSUME NEW p \in Procs, Error(p) PROVE TreeTypeOK' BY <1>55 DEF Error, At, Leave, Staging
<1>56. ASSUME PowerLoss PROVE TreeTypeOK'
 <2>1. PICK lost \in SUBSET volatile : StageAfter(lost) BY <1>56 DEF PowerLoss
 <2>2. CASE FreshTree /\ tree' = "absent" BY <2>2 DEF FreshTree
 <2>3. CASE TreeAfter(lost) BY <2>3, ShorterSeq DEF TreeAfter
 <2> QED BY <2>1, <2>2, <2>3 DEF StageAfter
<1>57. CASE UNCHANGED vars BY <1>57
<1> HIDE DEF TypeInv, TypeOK, ProcInv, ProcTypeOK, TreeTypeOK, LockInv,
    WritingInv, Publishing, Allocated, Status, Event
<1> QED BY <1>1, <1>2, <1>3, <1>4, <1>5, <1>6, <1>7, <1>8, <1>9, <1>10, <1>11,
     <1>12, <1>13, <1>14, <1>15, <1>16, <1>17, <1>18, <1>19, <1>20, <1>21,
     <1>22, <1>23, <1>24, <1>25, <1>26, <1>27, <1>28, <1>29, <1>30, <1>31,
     <1>32, <1>33, <1>34, <1>35, <1>36, <1>37, <1>38, <1>39, <1>40, <1>41,
     <1>42, <1>43, <1>44, <1>45, <1>46, <1>47, <1>48, <1>49, <1>50, <1>51,
     <1>52, <1>53, <1>54, <1>55, <1>56, <1>57 DEF Next, Allocation, Journal,
     Session, Recovery, Finalization, Sweep, Fault

\* Every step keeps the stage, the record and the index well typed.
LEMMA RestStep == TypeInv /\ [Next]_vars => RestTypeOK'
<1> SUFFICES ASSUME TypeInv, [Next]_vars PROVE RestTypeOK' OBVIOUS
<1> USE SlotsAssumption DEF vars, procVars, diskVars, stageVars, treeVars,
    journalVars, payloadVars, sumsVars, sealVars, faultVars, TypeInv, TypeOK,
    ProcInv, RestTypeOK, ProcTypeOK, StageTypeOK, SealTypeOK, Entries, LockInv,
    WritingInv
<1>1. ASSUME NEW p \in Procs, Begin(p) PROVE RestTypeOK' BY <1>1 DEF Begin, At, Lock, Taken
<1>2. ASSUME NEW p \in Procs, BuildStage(p) PROVE RestTypeOK' BY <1>2 DEF BuildStage, Goto, Staging
<1>3. ASSUME NEW p \in Procs, Activate(p) PROVE RestTypeOK' BY <1>3 DEF Activate, At, Goto
<1>4. ASSUME NEW p \in Procs, ActivateSync(p) PROVE RestTypeOK' BY <1>4 DEF ActivateSync, At
<1>5. ASSUME NEW p \in Procs, EventCreate(p) PROVE RestTypeOK' BY <1>5 DEF EventCreate, At, Goto
<1>6. ASSUME NEW p \in Procs, EventWrite(p) PROVE RestTypeOK' BY <1>6 DEF EventWrite, At, Goto
<1>7. ASSUME NEW p \in Procs, EventRename(p) PROVE RestTypeOK' BY <1>7 DEF EventRename, At, Goto
<1>8. ASSUME NEW p \in Procs, EventSync(p) PROVE RestTypeOK' BY <1>8 DEF EventSync, At, Goto
<1>9. ASSUME NEW p \in Procs, StatusCreate(p) PROVE RestTypeOK' BY <1>9 DEF StatusCreate, At, Goto
<1>10. ASSUME NEW p \in Procs, StatusRename(p) PROVE RestTypeOK' BY <1>10 DEF StatusRename, At
<1>11. ASSUME NEW p \in Procs, StatusSync(p) PROVE RestTypeOK'
BY <1>11 DEF StatusSync, At, Goto, SyncRoot, RootEntries, AfterStatus
<1>12. ASSUME NEW p \in Procs, NEW f \in Paths, LocalCreate(p, f) PROVE RestTypeOK' BY <1>12 DEF LocalCreate, At
<1>13. ASSUME NEW p \in Procs, LocalRename(p) PROVE RestTypeOK' BY <1>13 DEF LocalRename, At, Goto
<1>14. ASSUME NEW p \in Procs, LocalSync(p) PROVE RestTypeOK' BY <1>14 DEF LocalSync, At, Goto
<1>15. ASSUME NEW p \in Procs, WritePortable(p) PROVE RestTypeOK' BY <1>15 DEF WritePortable, At, Goto
<1>16. ASSUME NEW p \in Procs, NEW o \in {"SUCCESS", "FAILURE"}, Finish(p, o) PROVE RestTypeOK'
BY <1>16 DEF Finish, At
<1>17. ASSUME NEW p \in Procs, Recover(p) PROVE RestTypeOK' BY <1>17 DEF Recover, At, Lock
<1>18. ASSUME NEW p \in Procs, RefuseEntry(p) PROVE RestTypeOK'
BY <1>18 DEF RefuseEntry, At, Refuse, Leave, EntryComplaints
<1>19. ASSUME NEW p \in Procs, UnknownRun(p) PROVE RestTypeOK' BY <1>19 DEF UnknownRun, At, Leave
<1>20. ASSUME NEW p \in Procs, RecoverFromIndex(p) PROVE RestTypeOK' BY <1>20 DEF RecoverFromIndex, At, Goto
<1>21. ASSUME NEW p \in Procs, DropEventTemp(p) PROVE RestTypeOK' BY <1>21 DEF DropEventTemp, At, Entered
<1>22. ASSUME NEW p \in Procs, AdoptOrphan(p) PROVE RestTypeOK' BY <1>22 DEF AdoptOrphan, At, Entered, Orphan
<1>23. ASSUME NEW p \in Procs, LoadStatus(p) PROVE RestTypeOK' BY <1>23 DEF LoadStatus, At, Entered, Orphan
<1>24. ASSUME NEW p \in Procs, RefuseChain(p) PROVE RestTypeOK' BY <1>24 DEF RefuseChain, At, Refuse, Leave
<1>25. ASSUME NEW p \in Procs, CompleteTerminal(p) PROVE RestTypeOK'
BY <1>25 DEF CompleteTerminal, At, Judged, Goto
<1>26. ASSUME NEW p \in Procs, ReportBusy(p) PROVE RestTypeOK' BY <1>26 DEF ReportBusy, At, Judged, Leave
<1>27. ASSUME NEW p \in Procs, Interrupt(p) PROVE RestTypeOK' BY <1>27 DEF Interrupt, At, Judged
<1>28. ASSUME NEW p \in Procs, RefuseControl(p) PROVE RestTypeOK'
BY <1>28 DEF RefuseControl, At, Refuse, Leave, ControlComplaints
<1>29. ASSUME NEW p \in Procs, ClearControlTemps(p) PROVE RestTypeOK'
BY <1>29 DEF ClearControlTemps, At, Goto, SyncRoot, RootEntries
<1>30. ASSUME NEW p \in Procs, RefusePortable(p) PROVE RestTypeOK'
BY <1>30 DEF RefusePortable, At, Refuse, Leave
<1>31. ASSUME NEW p \in Procs, ReconcilePortable(p) PROVE RestTypeOK' BY <1>31 DEF ReconcilePortable, At, Goto
<1>32. ASSUME NEW p \in Procs, RefuseChecksums(p) PROVE RestTypeOK'
BY <1>32 DEF RefuseChecksums, At, Refuse, Leave
<1>33. ASSUME NEW p \in Procs, AcceptChecksums(p) PROVE RestTypeOK' BY <1>33 DEF AcceptChecksums, At, Goto
<1>34. ASSUME NEW p \in Procs, ChecksumsCreate(p) PROVE RestTypeOK' BY <1>34 DEF ChecksumsCreate, At, Goto
<1>35. ASSUME NEW p \in Procs, ChecksumsRename(p) PROVE RestTypeOK' BY <1>35 DEF ChecksumsRename, At, Goto
<1>36. ASSUME NEW p \in Procs, ChecksumsSync(p) PROVE RestTypeOK'
BY <1>36 DEF ChecksumsSync, At, Goto, SyncRoot, RootEntries
<1>37. ASSUME NEW p \in Procs, PublishRecord(p) PROVE RestTypeOK' BY <1>37, RecordType DEF PublishRecord
<1>38. ASSUME NEW p \in Procs, RecordSync(p) PROVE RestTypeOK' BY <1>38 DEF RecordSync, At, Goto
<1>39. ASSUME NEW p \in Procs, PublishIndex(p) PROVE RestTypeOK' BY <1>39, IndexType DEF PublishIndex
<1>40. ASSUME NEW p \in Procs, IndexSync(p) PROVE RestTypeOK' BY <1>40 DEF IndexSync, At, Goto
<1>41. ASSUME NEW p \in Procs, FinishFromIndex(p) PROVE RestTypeOK' BY <1>41 DEF FinishFromIndex, At, Goto
<1>42. ASSUME NEW p \in Procs, Teardown(p) PROVE RestTypeOK' BY <1>42 DEF Teardown, At, Goto, FreshTree
<1>43. ASSUME NEW p \in Procs, TornDown(p) PROVE RestTypeOK' BY <1>43 DEF TornDown, At, Leave
<1>44. ASSUME NEW p \in Procs, Rmdir(p) PROVE RestTypeOK' BY <1>44 DEF Rmdir, At, Goto
<1>45. ASSUME NEW p \in Procs, GoneSync(p) PROVE RestTypeOK' BY <1>45 DEF GoneSync, At, Leave
<1>46. ASSUME NEW p \in Procs, SweepList(p) PROVE RestTypeOK' BY <1>46 DEF SweepList, At, Goto
<1>47. ASSUME NEW p \in Procs, SweepLock(p) PROVE RestTypeOK' BY <1>47 DEF SweepLock, At, Lock, Leave
<1>48. ASSUME NEW p \in Procs, RefuseStage(p) PROVE RestTypeOK'
 <2>1. Leave(p) /\ UNCHANGED diskVars BY <1>48 DEF RefuseStage, Refuse
 <2> QED BY <2>1 DEF Leave
<1>49. ASSUME NEW p \in Procs, LeaveLiveStage(p) PROVE RestTypeOK' BY <1>49 DEF LeaveLiveStage, At, Leave
<1>50. ASSUME NEW p \in Procs, ReclaimStage(p) PROVE RestTypeOK' BY <1>50 DEF ReclaimStage, At, Goto
<1>51. ASSUME NEW p \in Procs, RemoveStage(p) PROVE RestTypeOK' BY <1>51 DEF RemoveStage, At, Leave
<1>52. ASSUME NEW p \in Procs, Exit(p) PROVE RestTypeOK' BY <1>52 DEF Exit, At
<1>53. ASSUME NEW p \in Procs, Kill(p) PROVE RestTypeOK' BY <1>53 DEF Kill, At, Leave
<1>54. ASSUME NEW p \in Procs, ErrorInWrite(p) PROVE RestTypeOK' BY <1>54 DEF ErrorInWrite, At, Goto
<1>55. ASSUME NEW p \in Procs, Error(p) PROVE RestTypeOK' BY <1>55 DEF Error, At, Leave, Staging
<1>56. ASSUME PowerLoss PROVE RestTypeOK'
 <2>1. PICK lost \in SUBSET volatile : StageAfter(lost) BY <1>56 DEF PowerLoss
 <2>2. stage' \in {"none", "empty", "bare", "described"} BY <2>1 DEF StageAfter
 <2>3. records' \subseteq records /\ indexes' \subseteq indexes BY <1>56 DEF PowerLoss
 <2>4. volatile' = {} /\ owner' = owner /\ ownerAlive' = FALSE BY <1>56 DEF PowerLoss
 <2> QED BY <2>2, <2>3, <2>4
<1>57. CASE UNCHANGED vars BY <1>57
<1> HIDE DEF TypeInv, TypeOK, ProcInv, RestTypeOK, ProcTypeOK, StageTypeOK,
    SealTypeOK, Entries, LockInv, WritingInv
<1> QED BY <1>1, <1>2, <1>3, <1>4, <1>5, <1>6, <1>7, <1>8, <1>9, <1>10, <1>11,
     <1>12, <1>13, <1>14, <1>15, <1>16, <1>17, <1>18, <1>19, <1>20, <1>21,
     <1>22, <1>23, <1>24, <1>25, <1>26, <1>27, <1>28, <1>29, <1>30, <1>31,
     <1>32, <1>33, <1>34, <1>35, <1>36, <1>37, <1>38, <1>39, <1>40, <1>41,
     <1>42, <1>43, <1>44, <1>45, <1>46, <1>47, <1>48, <1>49, <1>50, <1>51,
     <1>52, <1>53, <1>54, <1>55, <1>56, <1>57 DEF Next, Allocation, Journal,
     Session, Recovery, Finalization, Sweep, Fault

\* Every step keeps the causes of the refusals and the counts of the faults.
LEMMA FaultStep == TypeInv /\ [Next]_vars => FaultTypeOK'
<1> SUFFICES ASSUME FaultTypeOK, [Next]_vars PROVE FaultTypeOK' BY DEF TypeInv, TypeOK
<1> DEFINE Same == refused' = refused /\ kills' = kills /\ losses' = losses /\ errors' = errors
           Refusal == /\ refused' \subseteq refused \cup Reasons
                      /\ kills' = kills /\ losses' = losses /\ errors' = errors
<1>1. ASSUME NEW p \in Procs, Allocation(p) PROVE Same
  BY <1>1 DEF Allocation, Begin, BuildStage, Activate, ActivateSync, faultVars
<1>2. ASSUME NEW p \in Procs, Journal(p) PROVE Same
  BY <1>2 DEF Journal, EventCreate, EventWrite, EventRename, EventSync, StatusCreate, StatusRename, StatusSync,
    faultVars
<1>3. ASSUME NEW p \in Procs, Session(p) PROVE Same
  BY <1>3 DEF Session, LocalCreate, LocalRename, LocalSync, WritePortable, Finish, faultVars
<1>4. ASSUME NEW p \in Procs, Recover(p) \/ SweepList(p) PROVE Same BY <1>4 DEF Recover, SweepList, faultVars
<1>5. ASSUME NEW p \in Procs, Recovery(p) PROVE Refusal
 <2>1. CASE RefuseEntry(p) BY <2>1 DEF RefuseEntry, Refuse, EntryComplaints, Reasons, faultVars
 <2>2. CASE RefuseChain(p) BY <2>2 DEF RefuseChain, Refuse, Reasons, faultVars
 <2>3. CASE ~RefuseEntry(p) /\ ~RefuseChain(p)
   BY <1>5, <2>3 DEF Recovery, UnknownRun, RecoverFromIndex, DropEventTemp, AdoptOrphan, LoadStatus,
     CompleteTerminal, ReportBusy, Interrupt, faultVars
 <2> QED BY <2>1, <2>2, <2>3
<1>6. ASSUME NEW p \in Procs, Finalization(p) PROVE Refusal
 <2>1. CASE RefuseControl(p) \/ RefusePortable(p) \/ RefuseChecksums(p)
   BY <2>1 DEF RefuseControl, RefusePortable, RefuseChecksums, Refuse, ControlComplaints, Reasons, faultVars
 <2>2. CASE ~(RefuseControl(p) \/ RefusePortable(p) \/ RefuseChecksums(p))
   BY <1>6, <2>2 DEF Finalization, ClearControlTemps, ReconcilePortable, AcceptChecksums, ChecksumsCreate,
     ChecksumsRename, ChecksumsSync, PublishRecord, RecordSync, PublishIndex, IndexSync, FinishFromIndex, Teardown,
     TornDown, Rmdir, GoneSync, faultVars
 <2> QED BY <2>1, <2>2
<1>7. ASSUME NEW p \in Procs, Sweep(p) PROVE Refusal
 <2>1. CASE RefuseStage(p) BY <2>1 DEF RefuseStage, Refuse, Reasons, faultVars
 <2>2. CASE ~RefuseStage(p) BY <1>7, <2>2 DEF Sweep, SweepLock, LeaveLiveStage, ReclaimStage, RemoveStage, faultVars
 <2> QED BY <2>1, <2>2
<1>8. ASSUME NEW p \in Procs, Fault(p) PROVE FaultTypeOK'
  BY <1>8, BoundsAssumption DEF Fault, Exit, Kill, ErrorInWrite, Error, FaultTypeOK, faultVars
<1>9. CASE PowerLoss BY <1>9, BoundsAssumption DEF PowerLoss, FaultTypeOK
<1>10. CASE UNCHANGED vars BY <1>10 DEF vars, faultVars, FaultTypeOK
<1>11. Same => FaultTypeOK' BY DEF FaultTypeOK
<1>12. Refusal => FaultTypeOK' BY DEF FaultTypeOK
<1> QED BY <1>1, <1>2, <1>3, <1>4, <1>5, <1>6, <1>7, <1>8, <1>9, <1>10, <1>11, <1>12 DEF Next

\* Every step keeps the types.
LEMMA TypeStep == TypeInv /\ [Next]_vars => TypeInv'
BY ProcStep, TreeStep, RestStep, FaultStep DEF TypeInv, TypeOK, ProcInv, RestTypeOK

\* Every step keeps a tree that is not live as _stage_run builds it.
LEMMA FreshStep == IInv /\ TypeInv' /\ [Next]_vars => FreshInv'
<1> SUFFICES ASSUME IInv, TypeInv', [Next]_vars PROVE FreshInv' OBVIOUS
<1> USE SlotsAssumption DEF vars, procVars, diskVars, stageVars, treeVars,
    journalVars, payloadVars, sumsVars, sealVars, faultVars, IInv, TypeInv,
    TypeOK, ProcInv, ProcTypeOK, LockInv, TreeTypeOK, FreshInv, JournalInv,
    FinalInv, Allocated
<1>1. ASSUME NEW p \in Procs, Begin(p) PROVE FreshInv' BY <1>1 DEF Begin, At, Lock, Taken
<1>2. ASSUME NEW p \in Procs, BuildStage(p) PROVE FreshInv' BY <1>2 DEF BuildStage, Goto, Staging
<1>3. ASSUME NEW p \in Procs, Activate(p) PROVE FreshInv' BY <1>3 DEF Activate, At, Goto
<1>4. ASSUME NEW p \in Procs, ActivateSync(p) PROVE FreshInv' BY <1>4 DEF ActivateSync, At
<1>5. ASSUME NEW p \in Procs, EventCreate(p) PROVE FreshInv' BY <1>5 DEF EventCreate, At, Goto
<1>6. ASSUME NEW p \in Procs, EventWrite(p) PROVE FreshInv' BY <1>6 DEF EventWrite, At, Goto
<1>7. ASSUME NEW p \in Procs, EventRename(p) PROVE FreshInv' BY <1>7 DEF EventRename, At, Goto
<1>8. ASSUME NEW p \in Procs, EventSync(p) PROVE FreshInv' BY <1>8 DEF EventSync, At, Goto
<1>9. ASSUME NEW p \in Procs, StatusCreate(p) PROVE FreshInv' BY <1>9 DEF StatusCreate, At, Goto
<1>10. ASSUME NEW p \in Procs, StatusRename(p) PROVE FreshInv' BY <1>10 DEF StatusRename, At
<1>11. ASSUME NEW p \in Procs, StatusSync(p) PROVE FreshInv'
BY <1>11 DEF StatusSync, At, Goto, SyncRoot, RootEntries, AfterStatus
<1>12. ASSUME NEW p \in Procs, NEW f \in Paths, LocalCreate(p, f) PROVE FreshInv'
BY <1>12, PathsAssumption DEF LocalCreate, At, Paths, Entries
<1>13. ASSUME NEW p \in Procs, LocalRename(p) PROVE FreshInv' BY <1>13 DEF LocalRename, At, Goto
<1>14. ASSUME NEW p \in Procs, LocalSync(p) PROVE FreshInv' BY <1>14 DEF LocalSync, At, Goto
<1>15. ASSUME NEW p \in Procs, WritePortable(p) PROVE FreshInv' BY <1>15 DEF WritePortable, At, Goto
<1>16. ASSUME NEW p \in Procs, NEW o \in {"SUCCESS", "FAILURE"}, Finish(p, o) PROVE FreshInv'
BY <1>16 DEF Finish, At
<1>17. ASSUME NEW p \in Procs, Recover(p) PROVE FreshInv' BY <1>17 DEF Recover, At, Lock
<1>18. ASSUME NEW p \in Procs, RefuseEntry(p) PROVE FreshInv' BY <1>18 DEF RefuseEntry, At, Refuse, Leave
<1>19. ASSUME NEW p \in Procs, UnknownRun(p) PROVE FreshInv' BY <1>19 DEF UnknownRun, At, Leave
<1>20. ASSUME NEW p \in Procs, RecoverFromIndex(p) PROVE FreshInv' BY <1>20 DEF RecoverFromIndex, At, Goto
<1>21. ASSUME NEW p \in Procs, DropEventTemp(p) PROVE FreshInv' BY <1>21 DEF DropEventTemp, At, Entered
<1>22. ASSUME NEW p \in Procs, AdoptOrphan(p) PROVE FreshInv' BY <1>22 DEF AdoptOrphan, At, Entered, Orphan
<1>23. ASSUME NEW p \in Procs, LoadStatus(p) PROVE FreshInv' BY <1>23 DEF LoadStatus, At, Entered, Orphan
<1>24. ASSUME NEW p \in Procs, RefuseChain(p) PROVE FreshInv' BY <1>24 DEF RefuseChain, At, Refuse, Leave
<1>25. ASSUME NEW p \in Procs, CompleteTerminal(p) PROVE FreshInv'
BY <1>25 DEF CompleteTerminal, At, Judged, Goto
<1>26. ASSUME NEW p \in Procs, ReportBusy(p) PROVE FreshInv' BY <1>26 DEF ReportBusy, At, Judged, Leave
<1>27. ASSUME NEW p \in Procs, Interrupt(p) PROVE FreshInv' BY <1>27 DEF Interrupt, At, Judged
<1>28. ASSUME NEW p \in Procs, RefuseControl(p) PROVE FreshInv' BY <1>28 DEF RefuseControl, At, Refuse, Leave
<1>29. ASSUME NEW p \in Procs, ClearControlTemps(p) PROVE FreshInv'
BY <1>29 DEF ClearControlTemps, At, Goto, SyncRoot, RootEntries
<1>30. ASSUME NEW p \in Procs, RefusePortable(p) PROVE FreshInv' BY <1>30 DEF RefusePortable, At, Refuse, Leave
<1>31. ASSUME NEW p \in Procs, ReconcilePortable(p) PROVE FreshInv' BY <1>31 DEF ReconcilePortable, At, Goto
<1>32. ASSUME NEW p \in Procs, RefuseChecksums(p) PROVE FreshInv'
BY <1>32 DEF RefuseChecksums, At, Refuse, Leave
<1>33. ASSUME NEW p \in Procs, AcceptChecksums(p) PROVE FreshInv' BY <1>33 DEF AcceptChecksums, At, Goto
<1>34. ASSUME NEW p \in Procs, ChecksumsCreate(p) PROVE FreshInv' BY <1>34 DEF ChecksumsCreate, At, Goto
<1>35. ASSUME NEW p \in Procs, ChecksumsRename(p) PROVE FreshInv' BY <1>35 DEF ChecksumsRename, At, Goto
<1>36. ASSUME NEW p \in Procs, ChecksumsSync(p) PROVE FreshInv'
BY <1>36 DEF ChecksumsSync, At, Goto, SyncRoot, RootEntries
<1>37. ASSUME NEW p \in Procs, PublishRecord(p) PROVE FreshInv' BY <1>37 DEF PublishRecord, At, Goto
<1>38. ASSUME NEW p \in Procs, RecordSync(p) PROVE FreshInv' BY <1>38 DEF RecordSync, At, Goto
<1>39. ASSUME NEW p \in Procs, PublishIndex(p) PROVE FreshInv' BY <1>39 DEF PublishIndex, At, Goto
<1>40. ASSUME NEW p \in Procs, IndexSync(p) PROVE FreshInv' BY <1>40 DEF IndexSync, At, Goto
<1>41. ASSUME NEW p \in Procs, FinishFromIndex(p) PROVE FreshInv' BY <1>41 DEF FinishFromIndex, At, Goto
<1>42. ASSUME NEW p \in Procs, Teardown(p) PROVE FreshInv' BY <1>42 DEF Teardown, At, Goto, FreshTree
<1>43. ASSUME NEW p \in Procs, TornDown(p) PROVE FreshInv' BY <1>43 DEF TornDown, At, Leave
<1>44. ASSUME NEW p \in Procs, Rmdir(p) PROVE FreshInv' BY <1>44 DEF Rmdir, At, Goto
<1>45. ASSUME NEW p \in Procs, GoneSync(p) PROVE FreshInv' BY <1>45 DEF GoneSync, At, Leave
<1>46. ASSUME NEW p \in Procs, SweepList(p) PROVE FreshInv' BY <1>46 DEF SweepList, At, Goto
<1>47. ASSUME NEW p \in Procs, SweepLock(p) PROVE FreshInv' BY <1>47 DEF SweepLock, At, Lock, Leave
<1>48. ASSUME NEW p \in Procs, RefuseStage(p) PROVE FreshInv'
 <2>1. Leave(p) /\ UNCHANGED diskVars BY <1>48 DEF RefuseStage, Refuse
 <2> QED BY <2>1 DEF Leave
<1>49. ASSUME NEW p \in Procs, LeaveLiveStage(p) PROVE FreshInv' BY <1>49 DEF LeaveLiveStage, At, Leave
<1>50. ASSUME NEW p \in Procs, ReclaimStage(p) PROVE FreshInv' BY <1>50 DEF ReclaimStage, At, Goto
<1>51. ASSUME NEW p \in Procs, RemoveStage(p) PROVE FreshInv' BY <1>51 DEF RemoveStage, At, Leave
<1>52. ASSUME NEW p \in Procs, Exit(p) PROVE FreshInv' BY <1>52 DEF Exit, At
<1>53. ASSUME NEW p \in Procs, Kill(p) PROVE FreshInv' BY <1>53 DEF Kill, At, Leave
<1>54. ASSUME NEW p \in Procs, ErrorInWrite(p) PROVE FreshInv' BY <1>54 DEF ErrorInWrite, At, Goto
<1>55. ASSUME NEW p \in Procs, Error(p) PROVE FreshInv' BY <1>55 DEF Error, At, Leave, Staging
<1>56. ASSUME PowerLoss PROVE FreshInv'
 <2>1. PICK lost \in SUBSET volatile : StageAfter(lost) BY <1>56 DEF PowerLoss
 <2>2. volatile' = {} /\ pc' = [p \in Procs |-> "idle"] BY <1>56 DEF PowerLoss
 <2>3. CASE FreshTree BY <2>2, <2>3 DEF FreshTree
 <2>4. CASE TreeAfter(lost)
  <3>1. Len(events') >= 1 BY <2>1, <2>4 DEF TreeAfter
  <3>2. tree # "live" => FreshInv' BY <2>1, <2>2, <2>4, <3>1 DEF TreeAfter
  <3>3. tree = "live" => tree' = "live" BY <2>4 DEF TreeAfter
  <3> QED BY <2>2, <3>1, <3>2, <3>3
 <2> QED BY <2>1, <2>3, <2>4 DEF StageAfter
<1>57. CASE UNCHANGED vars BY <1>57
<1> HIDE DEF IInv, TypeInv, TypeOK, ProcInv, ProcTypeOK, LockInv, TreeTypeOK,
    FreshInv, JournalInv, FinalInv, Allocated
<1> QED BY <1>1, <1>2, <1>3, <1>4, <1>5, <1>6, <1>7, <1>8, <1>9, <1>10, <1>11,
     <1>12, <1>13, <1>14, <1>15, <1>16, <1>17, <1>18, <1>19, <1>20, <1>21,
     <1>22, <1>23, <1>24, <1>25, <1>26, <1>27, <1>28, <1>29, <1>30, <1>31,
     <1>32, <1>33, <1>34, <1>35, <1>36, <1>37, <1>38, <1>39, <1>40, <1>41,
     <1>42, <1>43, <1>44, <1>45, <1>46, <1>47, <1>48, <1>49, <1>50, <1>51,
     <1>52, <1>53, <1>54, <1>55, <1>56, <1>57 DEF Next, Allocation, Journal,
     Session, Recovery, Finalization, Sweep, Fault

\* Every step keeps the journal in step with the process that holds the lock.
LEMMA JournalStep == IInv /\ TypeInv' /\ [Next]_vars => JournalInv'
<1> SUFFICES ASSUME IInv, TypeInv', [Next]_vars PROVE JournalInv' OBVIOUS
<1> USE SlotsAssumption DEF vars, procVars, diskVars, stageVars, treeVars,
    journalVars, payloadVars, sumsVars, sealVars, faultVars, IInv, TypeInv,
    TypeOK, ProcInv, ProcTypeOK, LockInv, TreeTypeOK, FreshInv, JournalInv,
    Upcoming, Allocated
<1>1. ASSUME NEW p \in Procs, Begin(p) PROVE JournalInv' BY SMTT(40), <1>1 DEF Begin, At, Lock, Taken
<1>2. ASSUME NEW p \in Procs, BuildStage(p) PROVE JournalInv' BY <1>2 DEF BuildStage, Goto, Staging
<1>3. ASSUME NEW p \in Procs, Activate(p) PROVE JournalInv' BY <1>3 DEF Activate, At, Goto
<1>4. ASSUME NEW p \in Procs, ActivateSync(p) PROVE JournalInv'
 <2>1. events = <<"ALLOCATED">> /\ status = Allocated BY <1>4 DEF ActivateSync, At
 <2>2. ChainOf(events, status) /\ Legal(status.event, "ACTIVE") BY <2>1, ChainStart
 <2> QED BY <1>4, <2>2 DEF ActivateSync, At
<1>5. ASSUME NEW p \in Procs, EventCreate(p) PROVE JournalInv'
 <2>1. /\ At(p, "event.create") /\ Goto(p, "event.write") /\ eventTemp' = "torn"
       /\ UNCHANGED <<tree, events, status, known, writing>>
   BY <1>5 DEF EventCreate, At, Goto
 <2>2. \A q \in Procs \ {p} : pc[q] \in {"idle", "sweep.lock"} /\ pc'[q] = pc[q] BY <2>1 DEF At, Goto
 <2>3. pc'[p] = "event.write" BY <2>1 DEF Goto
 <2>4. known[p] = status /\ tree = "live" /\ ChainOf(events, status) /\ Legal(status.event, writing[p]) BY <2>1 DEF At
 <2>5. ASSUME NEW q \in Procs, q # p PROVE pc'[q] \in {"idle", "sweep.lock"} BY <2>2, <2>5
 <2> HIDE DEF IInv, TypeInv, TypeOK, ProcInv, ProcTypeOK, LockInv, TreeTypeOK, FreshInv
 <2> QED BY <2>1, <2>3, <2>4, <2>5
<1>6. ASSUME NEW p \in Procs, EventWrite(p) PROVE JournalInv' BY <1>6 DEF EventWrite, At, Goto
<1>7. ASSUME NEW p \in Procs, EventRename(p) PROVE JournalInv'
 <2>1. ChainOf(events', Upcoming(p)) /\ Upcoming(p)' = Upcoming(p)
   BY <1>7, ChainAppend DEF EventRename, At, Goto, WritingInv, Publishing, FreshInv
 <2>2. Len(events') > status.seq /\ events'[status.seq + 1] = writing[p]
  <3>1. Len(events) = status.seq /\ writing[p] \in Event /\ events \in Seq(Event)
    BY <1>7 DEF EventRename, At, WritingInv, Publishing
  <3>2. events' = Append(events, writing[p]) /\ status' = status BY <1>7 DEF EventRename
  <3> HIDE DEF JournalInv
  <3> QED BY <3>1, <3>2
 <2> QED BY <1>7, <2>1, <2>2 DEF EventRename, At, Goto
<1>8. ASSUME NEW p \in Procs, EventSync(p) PROVE JournalInv' BY <1>8 DEF EventSync, At, Goto
<1>9. ASSUME NEW p \in Procs, StatusCreate(p) PROVE JournalInv' BY <1>9 DEF StatusCreate, At, Goto
<1>10. ASSUME NEW p \in Procs, StatusRename(p) PROVE JournalInv' BY <1>10 DEF StatusRename, At
<1>11. ASSUME NEW p \in Procs, StatusSync(p) PROVE JournalInv'
BY <1>11 DEF StatusSync, At, Goto, SyncRoot, RootEntries, AfterStatus
<1>12. ASSUME NEW p \in Procs, NEW f \in Paths, LocalCreate(p, f) PROVE JournalInv' BY <1>12 DEF LocalCreate, At
<1>13. ASSUME NEW p \in Procs, LocalRename(p) PROVE JournalInv' BY <1>13 DEF LocalRename, At, Goto
<1>14. ASSUME NEW p \in Procs, LocalSync(p) PROVE JournalInv' BY <1>14 DEF LocalSync, At, Goto
<1>15. ASSUME NEW p \in Procs, WritePortable(p) PROVE JournalInv' BY <1>15 DEF WritePortable, At, Goto
<1>16. ASSUME NEW p \in Procs, NEW o \in {"SUCCESS", "FAILURE"}, Finish(p, o) PROVE JournalInv'
BY <1>16 DEF Finish, At
<1>17. ASSUME NEW p \in Procs, Recover(p) PROVE JournalInv' BY <1>17 DEF Recover, At, Lock
<1>18. ASSUME NEW p \in Procs, RefuseEntry(p) PROVE JournalInv' BY <1>18 DEF RefuseEntry, At, Refuse, Leave
<1>19. ASSUME NEW p \in Procs, UnknownRun(p) PROVE JournalInv' BY <1>19 DEF UnknownRun, At, Leave
<1>20. ASSUME NEW p \in Procs, RecoverFromIndex(p) PROVE JournalInv' BY <1>20 DEF RecoverFromIndex, At, Goto
<1>21. ASSUME NEW p \in Procs, DropEventTemp(p) PROVE JournalInv' BY <1>21 DEF DropEventTemp, At, Entered
<1>22. ASSUME NEW p \in Procs, AdoptOrphan(p) PROVE JournalInv' BY <1>22 DEF AdoptOrphan, At, Entered, Orphan
<1>23. ASSUME NEW p \in Procs, LoadStatus(p) PROVE JournalInv' BY <1>23 DEF LoadStatus, At, Entered, Orphan
<1>24. ASSUME NEW p \in Procs, RefuseChain(p) PROVE JournalInv' BY <1>24 DEF RefuseChain, At, Refuse, Leave
<1>25. ASSUME NEW p \in Procs, CompleteTerminal(p) PROVE JournalInv'
BY <1>25 DEF CompleteTerminal, At, Judged, Goto
<1>26. ASSUME NEW p \in Procs, ReportBusy(p) PROVE JournalInv' BY <1>26 DEF ReportBusy, At, Judged, Leave
<1>27. ASSUME NEW p \in Procs, Interrupt(p) PROVE JournalInv'
 <2>1. Legal(status.event, "INTERRUPTED") BY <1>27, LegalInterrupt DEF Interrupt, Judged, At
 <2> QED BY <1>27, <2>1 DEF Interrupt, Judged, At
<1>28. ASSUME NEW p \in Procs, RefuseControl(p) PROVE JournalInv' BY <1>28 DEF RefuseControl, At, Refuse, Leave
<1>29. ASSUME NEW p \in Procs, ClearControlTemps(p) PROVE JournalInv'
BY <1>29 DEF ClearControlTemps, At, Goto, SyncRoot, RootEntries
<1>30. ASSUME NEW p \in Procs, RefusePortable(p) PROVE JournalInv'
BY <1>30 DEF RefusePortable, At, Refuse, Leave
<1>31. ASSUME NEW p \in Procs, ReconcilePortable(p) PROVE JournalInv' BY <1>31 DEF ReconcilePortable, At, Goto
<1>32. ASSUME NEW p \in Procs, RefuseChecksums(p) PROVE JournalInv'
BY <1>32 DEF RefuseChecksums, At, Refuse, Leave
<1>33. ASSUME NEW p \in Procs, AcceptChecksums(p) PROVE JournalInv' BY <1>33 DEF AcceptChecksums, At, Goto
<1>34. ASSUME NEW p \in Procs, ChecksumsCreate(p) PROVE JournalInv' BY <1>34 DEF ChecksumsCreate, At, Goto
<1>35. ASSUME NEW p \in Procs, ChecksumsRename(p) PROVE JournalInv' BY <1>35 DEF ChecksumsRename, At, Goto
<1>36. ASSUME NEW p \in Procs, ChecksumsSync(p) PROVE JournalInv'
BY <1>36 DEF ChecksumsSync, At, Goto, SyncRoot, RootEntries
<1>37. ASSUME NEW p \in Procs, PublishRecord(p) PROVE JournalInv' BY <1>37 DEF PublishRecord, At, Goto
<1>38. ASSUME NEW p \in Procs, RecordSync(p) PROVE JournalInv' BY <1>38 DEF RecordSync, At, Goto
<1>39. ASSUME NEW p \in Procs, PublishIndex(p) PROVE JournalInv' BY <1>39 DEF PublishIndex, At, Goto
<1>40. ASSUME NEW p \in Procs, IndexSync(p) PROVE JournalInv' BY <1>40 DEF IndexSync, At, Goto
<1>41. ASSUME NEW p \in Procs, FinishFromIndex(p) PROVE JournalInv' BY <1>41 DEF FinishFromIndex, At, Goto
<1>42. ASSUME NEW p \in Procs, Teardown(p) PROVE JournalInv' BY <1>42 DEF Teardown, At, Goto, FreshTree
<1>43. ASSUME NEW p \in Procs, TornDown(p) PROVE JournalInv' BY <1>43 DEF TornDown, At, Leave
<1>44. ASSUME NEW p \in Procs, Rmdir(p) PROVE JournalInv' BY <1>44 DEF Rmdir, At, Goto
<1>45. ASSUME NEW p \in Procs, GoneSync(p) PROVE JournalInv' BY <1>45 DEF GoneSync, At, Leave
<1>46. ASSUME NEW p \in Procs, SweepList(p) PROVE JournalInv' BY <1>46 DEF SweepList, At, Goto
<1>47. ASSUME NEW p \in Procs, SweepLock(p) PROVE JournalInv' BY <1>47 DEF SweepLock, At, Lock, Leave
<1>48. ASSUME NEW p \in Procs, RefuseStage(p) PROVE JournalInv'
 <2>1. Leave(p) /\ UNCHANGED diskVars BY <1>48 DEF RefuseStage, Refuse
 <2> QED BY <2>1 DEF Leave
<1>49. ASSUME NEW p \in Procs, LeaveLiveStage(p) PROVE JournalInv' BY <1>49 DEF LeaveLiveStage, At, Leave
<1>50. ASSUME NEW p \in Procs, ReclaimStage(p) PROVE JournalInv' BY <1>50 DEF ReclaimStage, At, Goto
<1>51. ASSUME NEW p \in Procs, RemoveStage(p) PROVE JournalInv' BY <1>51 DEF RemoveStage, At, Leave
<1>52. ASSUME NEW p \in Procs, Exit(p) PROVE JournalInv' BY <1>52 DEF Exit, At
<1>53. ASSUME NEW p \in Procs, Kill(p) PROVE JournalInv' BY <1>53 DEF Kill, At, Leave
<1>54. ASSUME NEW p \in Procs, ErrorInWrite(p) PROVE JournalInv' BY <1>54 DEF ErrorInWrite, At, Goto
<1>55. ASSUME NEW p \in Procs, Error(p) PROVE JournalInv' BY <1>55 DEF Error, At, Leave, Staging
<1>56. ASSUME PowerLoss PROVE JournalInv' BY <1>56 DEF PowerLoss, StageAfter, TreeAfter, FreshTree
<1>57. CASE UNCHANGED vars BY <1>57
<1> HIDE DEF IInv, TypeInv, TypeOK, ProcInv, ProcTypeOK, LockInv, TreeTypeOK,
    FreshInv, JournalInv, Upcoming, Allocated
<1> QED BY <1>1, <1>2, <1>3, <1>4, <1>5, <1>6, <1>7, <1>8, <1>9, <1>10, <1>11,
     <1>12, <1>13, <1>14, <1>15, <1>16, <1>17, <1>18, <1>19, <1>20, <1>21,
     <1>22, <1>23, <1>24, <1>25, <1>26, <1>27, <1>28, <1>29, <1>30, <1>31,
     <1>32, <1>33, <1>34, <1>35, <1>36, <1>37, <1>38, <1>39, <1>40, <1>41,
     <1>42, <1>43, <1>44, <1>45, <1>46, <1>47, <1>48, <1>49, <1>50, <1>51,
     <1>52, <1>53, <1>54, <1>55, <1>56, <1>57 DEF Next, Allocation, Journal,
     Session, Recovery, Finalization, Sweep, Fault

\* Every step keeps the payload of a finalization.
LEMMA FinalStep == IInv /\ TypeInv' /\ [Next]_vars => FinalInv'
<1> SUFFICES ASSUME IInv, TypeInv', [Next]_vars PROVE FinalInv' OBVIOUS
<1> USE SlotsAssumption DEF vars, procVars, diskVars, stageVars, treeVars,
    journalVars, payloadVars, sumsVars, sealVars, faultVars, IInv, TypeInv,
    TypeOK, ProcInv, ProcTypeOK, LockInv, TreeTypeOK, FinalInv, JournalInv,
    Payload
<1>1. ASSUME NEW p \in Procs, Begin(p) PROVE FinalInv' BY SMTT(40), <1>1 DEF Begin, At, Lock, Taken
<1>2. ASSUME NEW p \in Procs, BuildStage(p) PROVE FinalInv' BY <1>2 DEF BuildStage, Goto, Staging
<1>3. ASSUME NEW p \in Procs, Activate(p) PROVE FinalInv' BY <1>3 DEF Activate, At, Goto
<1>4. ASSUME NEW p \in Procs, ActivateSync(p) PROVE FinalInv' BY <1>4 DEF ActivateSync, At
<1>5. ASSUME NEW p \in Procs, EventCreate(p) PROVE FinalInv' BY <1>5 DEF EventCreate, At, Goto
<1>6. ASSUME NEW p \in Procs, EventWrite(p) PROVE FinalInv' BY <1>6 DEF EventWrite, At, Goto
<1>7. ASSUME NEW p \in Procs, EventRename(p) PROVE FinalInv' BY <1>7 DEF EventRename, At, Goto
<1>8. ASSUME NEW p \in Procs, EventSync(p) PROVE FinalInv' BY <1>8 DEF EventSync, At, Goto
<1>9. ASSUME NEW p \in Procs, StatusCreate(p) PROVE FinalInv' BY <1>9 DEF StatusCreate, At, Goto
<1>10. ASSUME NEW p \in Procs, StatusRename(p) PROVE FinalInv' BY <1>10 DEF StatusRename, At
<1>11. ASSUME NEW p \in Procs, StatusSync(p) PROVE FinalInv'
 <2>1. \/ AfterStatus(p) \in {"judge", "session"}
       \/ AfterStatus(p) = "complete" /\ role[p] = "owner" /\ Terminal(writing[p])
   BY DEF AfterStatus
 <2>2. Payload(0)' = Payload(0) /\ sums' = sums BY <1>11 DEF StatusSync
 <2> HIDE DEF Payload
 <2> QED BY <1>11, <2>1, <2>2 DEF StatusSync, At, Goto
<1>12. ASSUME NEW p \in Procs, NEW f \in Paths, LocalCreate(p, f) PROVE FinalInv' BY <1>12 DEF LocalCreate, At
<1>13. ASSUME NEW p \in Procs, LocalRename(p) PROVE FinalInv' BY <1>13 DEF LocalRename, At, Goto
<1>14. ASSUME NEW p \in Procs, LocalSync(p) PROVE FinalInv' BY <1>14 DEF LocalSync, At, Goto
<1>15. ASSUME NEW p \in Procs, WritePortable(p) PROVE FinalInv'
 <2>1. pc[p] \in {"session", "portable.fill", "portable.commit"} BY <1>15 DEF WritePortable, At
 <2>2. \A q \in Procs : pc'[q] = pc[q] \/ pc'[q] \in {"session", "portable.fill", "portable.commit"}
   BY <1>15 DEF WritePortable, Goto
 <2>3. \A q \in Procs : pc'[q] \notin {"complete", "portable", "sums", "sums.rename", "sums.sync",
                                    "record", "record.sync", "index", "index.sync"}
   BY <2>1, <2>2
 <2> QED BY <1>15, <2>3 DEF WritePortable
<1>16. ASSUME NEW p \in Procs, NEW o \in {"SUCCESS", "FAILURE"}, Finish(p, o) PROVE FinalInv'
BY <1>16 DEF Finish, At
<1>17. ASSUME NEW p \in Procs, Recover(p) PROVE FinalInv' BY <1>17 DEF Recover, At, Lock
<1>18. ASSUME NEW p \in Procs, RefuseEntry(p) PROVE FinalInv' BY <1>18 DEF RefuseEntry, At, Refuse, Leave
<1>19. ASSUME NEW p \in Procs, UnknownRun(p) PROVE FinalInv' BY <1>19 DEF UnknownRun, At, Leave
<1>20. ASSUME NEW p \in Procs, RecoverFromIndex(p) PROVE FinalInv' BY <1>20 DEF RecoverFromIndex, At, Goto
<1>21. ASSUME NEW p \in Procs, DropEventTemp(p) PROVE FinalInv' BY <1>21 DEF DropEventTemp, At, Entered
<1>22. ASSUME NEW p \in Procs, AdoptOrphan(p) PROVE FinalInv' BY <1>22 DEF AdoptOrphan, At, Entered, Orphan
<1>23. ASSUME NEW p \in Procs, LoadStatus(p) PROVE FinalInv' BY <1>23 DEF LoadStatus, At, Entered, Orphan
<1>24. ASSUME NEW p \in Procs, RefuseChain(p) PROVE FinalInv' BY <1>24 DEF RefuseChain, At, Refuse, Leave
<1>25. ASSUME NEW p \in Procs, CompleteTerminal(p) PROVE FinalInv'
BY <1>25 DEF CompleteTerminal, At, Judged, Goto
<1>26. ASSUME NEW p \in Procs, ReportBusy(p) PROVE FinalInv' BY <1>26 DEF ReportBusy, At, Judged, Leave
<1>27. ASSUME NEW p \in Procs, Interrupt(p) PROVE FinalInv' BY <1>27 DEF Interrupt, At, Judged
<1>28. ASSUME NEW p \in Procs, RefuseControl(p) PROVE FinalInv' BY <1>28 DEF RefuseControl, At, Refuse, Leave
<1>29. ASSUME NEW p \in Procs, ClearControlTemps(p) PROVE FinalInv'
BY <1>29 DEF ClearControlTemps, At, Goto, SyncRoot, RootEntries
<1>30. ASSUME NEW p \in Procs, RefusePortable(p) PROVE FinalInv' BY <1>30 DEF RefusePortable, At, Refuse, Leave
<1>31. ASSUME NEW p \in Procs, ReconcilePortable(p) PROVE FinalInv' BY <1>31 DEF ReconcilePortable, At, Goto
<1>32. ASSUME NEW p \in Procs, RefuseChecksums(p) PROVE FinalInv'
BY <1>32 DEF RefuseChecksums, At, Refuse, Leave
<1>33. ASSUME NEW p \in Procs, AcceptChecksums(p) PROVE FinalInv' BY <1>33 DEF AcceptChecksums, At, Goto
<1>34. ASSUME NEW p \in Procs, ChecksumsCreate(p) PROVE FinalInv' BY <1>34 DEF ChecksumsCreate, At, Goto
<1>35. ASSUME NEW p \in Procs, ChecksumsRename(p) PROVE FinalInv' BY <1>35 DEF ChecksumsRename, At, Goto
<1>36. ASSUME NEW p \in Procs, ChecksumsSync(p) PROVE FinalInv'
BY <1>36 DEF ChecksumsSync, At, Goto, SyncRoot, RootEntries
<1>37. ASSUME NEW p \in Procs, PublishRecord(p) PROVE FinalInv' BY <1>37 DEF PublishRecord, At, Goto
<1>38. ASSUME NEW p \in Procs, RecordSync(p) PROVE FinalInv' BY <1>38 DEF RecordSync, At, Goto
<1>39. ASSUME NEW p \in Procs, PublishIndex(p) PROVE FinalInv' BY <1>39 DEF PublishIndex, At, Goto
<1>40. ASSUME NEW p \in Procs, IndexSync(p) PROVE FinalInv' BY <1>40 DEF IndexSync, At, Goto
<1>41. ASSUME NEW p \in Procs, FinishFromIndex(p) PROVE FinalInv' BY <1>41 DEF FinishFromIndex, At, Goto
<1>42. ASSUME NEW p \in Procs, Teardown(p) PROVE FinalInv' BY <1>42 DEF Teardown, At, Goto, FreshTree
<1>43. ASSUME NEW p \in Procs, TornDown(p) PROVE FinalInv' BY <1>43 DEF TornDown, At, Leave
<1>44. ASSUME NEW p \in Procs, Rmdir(p) PROVE FinalInv' BY <1>44 DEF Rmdir, At, Goto
<1>45. ASSUME NEW p \in Procs, GoneSync(p) PROVE FinalInv' BY <1>45 DEF GoneSync, At, Leave
<1>46. ASSUME NEW p \in Procs, SweepList(p) PROVE FinalInv' BY <1>46 DEF SweepList, At, Goto
<1>47. ASSUME NEW p \in Procs, SweepLock(p) PROVE FinalInv' BY <1>47 DEF SweepLock, At, Lock, Leave
<1>48. ASSUME NEW p \in Procs, RefuseStage(p) PROVE FinalInv'
 <2>1. Leave(p) /\ UNCHANGED diskVars BY <1>48 DEF RefuseStage, Refuse
 <2> QED BY <2>1 DEF Leave
<1>49. ASSUME NEW p \in Procs, LeaveLiveStage(p) PROVE FinalInv' BY <1>49 DEF LeaveLiveStage, At, Leave
<1>50. ASSUME NEW p \in Procs, ReclaimStage(p) PROVE FinalInv' BY <1>50 DEF ReclaimStage, At, Goto
<1>51. ASSUME NEW p \in Procs, RemoveStage(p) PROVE FinalInv' BY <1>51 DEF RemoveStage, At, Leave
<1>52. ASSUME NEW p \in Procs, Exit(p) PROVE FinalInv' BY <1>52 DEF Exit, At
<1>53. ASSUME NEW p \in Procs, Kill(p) PROVE FinalInv' BY <1>53 DEF Kill, At, Leave
<1>54. ASSUME NEW p \in Procs, ErrorInWrite(p) PROVE FinalInv' BY <1>54 DEF ErrorInWrite, At, Goto
<1>55. ASSUME NEW p \in Procs, Error(p) PROVE FinalInv' BY <1>55 DEF Error, At, Leave, Staging
<1>56. ASSUME PowerLoss PROVE FinalInv' BY <1>56 DEF PowerLoss, StageAfter, TreeAfter, FreshTree
<1>57. CASE UNCHANGED vars BY <1>57
<1> HIDE DEF IInv, TypeInv, TypeOK, ProcInv, ProcTypeOK, LockInv, TreeTypeOK,
    FinalInv, JournalInv, Payload
<1> QED BY <1>1, <1>2, <1>3, <1>4, <1>5, <1>6, <1>7, <1>8, <1>9, <1>10, <1>11,
     <1>12, <1>13, <1>14, <1>15, <1>16, <1>17, <1>18, <1>19, <1>20, <1>21,
     <1>22, <1>23, <1>24, <1>25, <1>26, <1>27, <1>28, <1>29, <1>30, <1>31,
     <1>32, <1>33, <1>34, <1>35, <1>36, <1>37, <1>38, <1>39, <1>40, <1>41,
     <1>42, <1>43, <1>44, <1>45, <1>46, <1>47, <1>48, <1>49, <1>50, <1>51,
     <1>52, <1>53, <1>54, <1>55, <1>56, <1>57 DEF Next, Allocation, Journal,
     Session, Recovery, Finalization, Sweep, Fault

\* Every step keeps record and index verified, and durable where it counts.
LEMMA SealStep == IInv /\ TypeInv' /\ [Next]_vars => SealInv'
<1> SUFFICES ASSUME IInv, TypeInv', [Next]_vars PROVE SealInv' OBVIOUS
<1> USE SlotsAssumption DEF vars, procVars, diskVars, stageVars, treeVars,
    journalVars, payloadVars, sumsVars, sealVars, faultVars, IInv, TypeInv,
    TypeOK, ProcInv, ProcTypeOK, LockInv, TreeTypeOK, SealTypeOK, FinalInv,
    SealInv, Durable, Entries
<1>1. ASSUME NEW p \in Procs, Begin(p) PROVE SealInv' BY SMTT(40), <1>1 DEF Begin, At, Lock, Taken
<1>2. ASSUME NEW p \in Procs, BuildStage(p) PROVE SealInv' BY <1>2 DEF BuildStage, Goto, Staging
<1>3. ASSUME NEW p \in Procs, Activate(p) PROVE SealInv' BY <1>3 DEF Activate, At, Goto
<1>4. ASSUME NEW p \in Procs, ActivateSync(p) PROVE SealInv' BY <1>4 DEF ActivateSync, At
<1>5. ASSUME NEW p \in Procs, EventCreate(p) PROVE SealInv' BY <1>5 DEF EventCreate, At, Goto
<1>6. ASSUME NEW p \in Procs, EventWrite(p) PROVE SealInv' BY <1>6 DEF EventWrite, At, Goto
<1>7. ASSUME NEW p \in Procs, EventRename(p) PROVE SealInv' BY <1>7 DEF EventRename, At, Goto
<1>8. ASSUME NEW p \in Procs, EventSync(p) PROVE SealInv' BY <1>8 DEF EventSync, At, Goto
<1>9. ASSUME NEW p \in Procs, StatusCreate(p) PROVE SealInv' BY <1>9 DEF StatusCreate, At, Goto
<1>10. ASSUME NEW p \in Procs, StatusRename(p) PROVE SealInv' BY <1>10 DEF StatusRename, At
<1>11. ASSUME NEW p \in Procs, StatusSync(p) PROVE SealInv'
BY <1>11 DEF StatusSync, At, Goto, SyncRoot, RootEntries, AfterStatus
<1>12. ASSUME NEW p \in Procs, NEW f \in Paths, LocalCreate(p, f) PROVE SealInv'
BY <1>12, PathsAssumption DEF LocalCreate, At, Paths
<1>13. ASSUME NEW p \in Procs, LocalRename(p) PROVE SealInv' BY <1>13 DEF LocalRename, At, Goto
<1>14. ASSUME NEW p \in Procs, LocalSync(p) PROVE SealInv' BY <1>14 DEF LocalSync, At, Goto
<1>15. ASSUME NEW p \in Procs, WritePortable(p) PROVE SealInv' BY <1>15 DEF WritePortable, At, Goto
<1>16. ASSUME NEW p \in Procs, NEW o \in {"SUCCESS", "FAILURE"}, Finish(p, o) PROVE SealInv'
BY <1>16 DEF Finish, At
<1>17. ASSUME NEW p \in Procs, Recover(p) PROVE SealInv' BY <1>17 DEF Recover, At, Lock
<1>18. ASSUME NEW p \in Procs, RefuseEntry(p) PROVE SealInv' BY <1>18 DEF RefuseEntry, At, Refuse, Leave
<1>19. ASSUME NEW p \in Procs, UnknownRun(p) PROVE SealInv' BY <1>19 DEF UnknownRun, At, Leave
<1>20. ASSUME NEW p \in Procs, RecoverFromIndex(p) PROVE SealInv' BY <1>20 DEF RecoverFromIndex, At, Goto
<1>21. ASSUME NEW p \in Procs, DropEventTemp(p) PROVE SealInv' BY <1>21 DEF DropEventTemp, At, Entered
<1>22. ASSUME NEW p \in Procs, AdoptOrphan(p) PROVE SealInv' BY <1>22 DEF AdoptOrphan, At, Entered, Orphan
<1>23. ASSUME NEW p \in Procs, LoadStatus(p) PROVE SealInv' BY <1>23 DEF LoadStatus, At, Entered, Orphan
<1>24. ASSUME NEW p \in Procs, RefuseChain(p) PROVE SealInv' BY <1>24 DEF RefuseChain, At, Refuse, Leave
<1>25. ASSUME NEW p \in Procs, CompleteTerminal(p) PROVE SealInv'
BY <1>25 DEF CompleteTerminal, At, Judged, Goto
<1>26. ASSUME NEW p \in Procs, ReportBusy(p) PROVE SealInv' BY <1>26 DEF ReportBusy, At, Judged, Leave
<1>27. ASSUME NEW p \in Procs, Interrupt(p) PROVE SealInv' BY <1>27 DEF Interrupt, At, Judged
<1>28. ASSUME NEW p \in Procs, RefuseControl(p) PROVE SealInv' BY <1>28 DEF RefuseControl, At, Refuse, Leave
<1>29. ASSUME NEW p \in Procs, ClearControlTemps(p) PROVE SealInv'
BY <1>29 DEF ClearControlTemps, At, Goto, SyncRoot, RootEntries
<1>30. ASSUME NEW p \in Procs, RefusePortable(p) PROVE SealInv' BY <1>30 DEF RefusePortable, At, Refuse, Leave
<1>31. ASSUME NEW p \in Procs, ReconcilePortable(p) PROVE SealInv' BY <1>31 DEF ReconcilePortable, At, Goto
<1>32. ASSUME NEW p \in Procs, RefuseChecksums(p) PROVE SealInv' BY <1>32 DEF RefuseChecksums, At, Refuse, Leave
<1>33. ASSUME NEW p \in Procs, AcceptChecksums(p) PROVE SealInv' BY <1>33 DEF AcceptChecksums, At, Goto
<1>34. ASSUME NEW p \in Procs, ChecksumsCreate(p) PROVE SealInv' BY <1>34 DEF ChecksumsCreate, At, Goto
<1>35. ASSUME NEW p \in Procs, ChecksumsRename(p) PROVE SealInv' BY <1>35 DEF ChecksumsRename, At, Goto
<1>36. ASSUME NEW p \in Procs, ChecksumsSync(p) PROVE SealInv'
BY <1>36 DEF ChecksumsSync, At, Goto, SyncRoot, RootEntries
<1>37. ASSUME NEW p \in Procs, PublishRecord(p) PROVE SealInv'
 <2>1. sums = {Payload(0)} /\ sumsTemps = 0 /\ statusTemps = 0 /\ eventTemp = "none"
      /\ ChainOf(events, status) /\ Terminal(status.event)
   BY <1>37 DEF PublishRecord, At
 <2>2. Verified([payload |-> Payload(0), sums |-> Payload(0)]) BY <2>1 DEF Verified, Payload
 <2>3. CASE records = {} /\ records' = {[payload |-> Payload(sumsTemps), sums |-> s] : s \in sums}
   BY <1>37, <2>1, <2>2, <2>3 DEF PublishRecord, At, Goto
 <2>4. CASE records # {} /\ UNCHANGED <<records, volatile>> BY <1>37, <2>4 DEF PublishRecord, At, Goto
 <2> QED BY <1>37, <2>3, <2>4 DEF PublishRecord
<1>38. ASSUME NEW p \in Procs, RecordSync(p) PROVE SealInv' BY <1>38 DEF RecordSync, At, Goto
<1>39. ASSUME NEW p \in Procs, PublishIndex(p) PROVE SealInv'
 <2>1. \A i \in indexes' : \E r \in records' : Binds(i, r) BY <1>39 DEF PublishIndex, Binds
 <2>2. records' = records /\ \E r \in records : TRUE BY <1>39 DEF PublishIndex, At
 <2>5. PICK r \in records : TRUE BY <2>2
 <2>6. [outcome |-> r.payload.status.event, record |-> r] \in indexes' BY <1>39, <2>5 DEF PublishIndex
 <2>3. tree' = "live" /\ volatile' = volatile \cup {"index"} BY <1>39 DEF PublishIndex, At
 <2>4. "gone" \notin volatile' /\ "record" \notin volatile' BY <1>39, <2>3 DEF PublishIndex, At
 <2> QED BY <1>39, <2>1, <2>2, <2>3, <2>4, <2>6 DEF PublishIndex, At, Goto
<1>40. ASSUME NEW p \in Procs, IndexSync(p) PROVE SealInv' BY <1>40 DEF IndexSync, At, Goto
<1>41. ASSUME NEW p \in Procs, FinishFromIndex(p) PROVE SealInv' BY <1>41 DEF FinishFromIndex, At, Goto
<1>42. ASSUME NEW p \in Procs, Teardown(p) PROVE SealInv' BY <1>42 DEF Teardown, At, Goto, FreshTree
<1>43. ASSUME NEW p \in Procs, TornDown(p) PROVE SealInv' BY <1>43 DEF TornDown, At, Leave
<1>44. ASSUME NEW p \in Procs, Rmdir(p) PROVE SealInv' BY <1>44 DEF Rmdir, At, Goto
<1>45. ASSUME NEW p \in Procs, GoneSync(p) PROVE SealInv' BY <1>45 DEF GoneSync, At, Leave
<1>46. ASSUME NEW p \in Procs, SweepList(p) PROVE SealInv' BY <1>46 DEF SweepList, At, Goto
<1>47. ASSUME NEW p \in Procs, SweepLock(p) PROVE SealInv' BY <1>47 DEF SweepLock, At, Lock, Leave
<1>48. ASSUME NEW p \in Procs, RefuseStage(p) PROVE SealInv'
 <2>1. Leave(p) /\ UNCHANGED diskVars BY <1>48 DEF RefuseStage, Refuse
 <2> QED BY <2>1 DEF Leave
<1>49. ASSUME NEW p \in Procs, LeaveLiveStage(p) PROVE SealInv' BY <1>49 DEF LeaveLiveStage, At, Leave
<1>50. ASSUME NEW p \in Procs, ReclaimStage(p) PROVE SealInv' BY <1>50 DEF ReclaimStage, At, Goto
<1>51. ASSUME NEW p \in Procs, RemoveStage(p) PROVE SealInv' BY <1>51 DEF RemoveStage, At, Leave
<1>52. ASSUME NEW p \in Procs, Exit(p) PROVE SealInv' BY <1>52 DEF Exit, At
<1>53. ASSUME NEW p \in Procs, Kill(p) PROVE SealInv' BY <1>53 DEF Kill, At, Leave
<1>54. ASSUME NEW p \in Procs, ErrorInWrite(p) PROVE SealInv' BY <1>54 DEF ErrorInWrite, At, Goto
<1>55. ASSUME NEW p \in Procs, Error(p) PROVE SealInv' BY <1>55 DEF Error, At, Leave, Staging
<1>56. ASSUME PowerLoss PROVE SealInv' BY <1>56 DEF PowerLoss, StageAfter, TreeAfter, FreshTree
<1>57. CASE UNCHANGED vars BY <1>57
<1> HIDE DEF IInv, TypeInv, TypeOK, ProcInv, ProcTypeOK, LockInv, TreeTypeOK,
    SealTypeOK, FinalInv, SealInv, Durable, Entries
<1> QED BY <1>1, <1>2, <1>3, <1>4, <1>5, <1>6, <1>7, <1>8, <1>9, <1>10, <1>11,
     <1>12, <1>13, <1>14, <1>15, <1>16, <1>17, <1>18, <1>19, <1>20, <1>21,
     <1>22, <1>23, <1>24, <1>25, <1>26, <1>27, <1>28, <1>29, <1>30, <1>31,
     <1>32, <1>33, <1>34, <1>35, <1>36, <1>37, <1>38, <1>39, <1>40, <1>41,
     <1>42, <1>43, <1>44, <1>45, <1>46, <1>47, <1>48, <1>49, <1>50, <1>51,
     <1>52, <1>53, <1>54, <1>55, <1>56, <1>57 DEF Next, Allocation, Journal,
     Session, Recovery, Finalization, Sweep, Fault

\* Every step keeps the allocator's stage as it built it.
LEMMA StageStep == IInv /\ TypeInv' /\ [Next]_vars => StageIsTheAllocators'
<1> SUFFICES ASSUME IInv, TypeInv', [Next]_vars PROVE StageIsTheAllocators' OBVIOUS
<1> USE SlotsAssumption DEF vars, procVars, diskVars, stageVars, treeVars,
    journalVars, payloadVars, sumsVars, sealVars, faultVars, IInv, TypeInv,
    TypeOK, ProcInv, ProcTypeOK, LockInv, StageIsTheAllocators, Staging, SealInv
<1>1. ASSUME NEW p \in Procs, Begin(p) PROVE StageIsTheAllocators' BY <1>1 DEF Begin, At, Lock, Taken
<1>2. ASSUME NEW p \in Procs, BuildStage(p) PROVE StageIsTheAllocators'
 <2>1. pc[p] = "stage.make" => stage' = "empty" /\ pc'[p] = "stage.fill" BY <1>2 DEF BuildStage, Goto
 <2>2. pc[p] = "stage.fill" => stage' = "bare" /\ pc'[p] = "stage.describe" BY <1>2 DEF BuildStage, Goto
 <2>3. pc[p] = "stage.describe" => stage' = "described" /\ pc'[p] = "stage.rename" BY <1>2 DEF BuildStage, Goto
 <2>4. pc[p] \in {"stage.make", "stage.fill", "stage.describe"} /\ tree' = "absent" /\ lock = p BY <1>2 DEF BuildStage
 <2>5. \A q \in Procs : q # p => pc'[q] \in {"idle", "sweep.lock"} BY <1>2, <2>4 DEF BuildStage, Goto
 <2> QED BY <1>2, <2>1, <2>2, <2>3, <2>4, <2>5
<1>3. ASSUME NEW p \in Procs, Activate(p) PROVE StageIsTheAllocators' BY <1>3 DEF Activate, At, Goto
<1>4. ASSUME NEW p \in Procs, ActivateSync(p) PROVE StageIsTheAllocators' BY <1>4 DEF ActivateSync, At
<1>5. ASSUME NEW p \in Procs, EventCreate(p) PROVE StageIsTheAllocators' BY <1>5 DEF EventCreate, At, Goto
<1>6. ASSUME NEW p \in Procs, EventWrite(p) PROVE StageIsTheAllocators' BY <1>6 DEF EventWrite, At, Goto
<1>7. ASSUME NEW p \in Procs, EventRename(p) PROVE StageIsTheAllocators' BY <1>7 DEF EventRename, At, Goto
<1>8. ASSUME NEW p \in Procs, EventSync(p) PROVE StageIsTheAllocators' BY <1>8 DEF EventSync, At, Goto
<1>9. ASSUME NEW p \in Procs, StatusCreate(p) PROVE StageIsTheAllocators' BY <1>9 DEF StatusCreate, At, Goto
<1>10. ASSUME NEW p \in Procs, StatusRename(p) PROVE StageIsTheAllocators' BY <1>10 DEF StatusRename, At
<1>11. ASSUME NEW p \in Procs, StatusSync(p) PROVE StageIsTheAllocators'
BY <1>11 DEF StatusSync, At, Goto, SyncRoot, RootEntries, AfterStatus
<1>12. ASSUME NEW p \in Procs, NEW f \in Paths, LocalCreate(p, f) PROVE StageIsTheAllocators'
BY <1>12 DEF LocalCreate, At
<1>13. ASSUME NEW p \in Procs, LocalRename(p) PROVE StageIsTheAllocators' BY <1>13 DEF LocalRename, At, Goto
<1>14. ASSUME NEW p \in Procs, LocalSync(p) PROVE StageIsTheAllocators' BY <1>14 DEF LocalSync, At, Goto
<1>15. ASSUME NEW p \in Procs, WritePortable(p) PROVE StageIsTheAllocators' BY <1>15 DEF WritePortable, At, Goto
<1>16. ASSUME NEW p \in Procs, NEW o \in {"SUCCESS", "FAILURE"}, Finish(p, o) PROVE StageIsTheAllocators'
BY <1>16 DEF Finish, At
<1>17. ASSUME NEW p \in Procs, Recover(p) PROVE StageIsTheAllocators' BY <1>17 DEF Recover, At, Lock
<1>18. ASSUME NEW p \in Procs, RefuseEntry(p) PROVE StageIsTheAllocators'
BY <1>18 DEF RefuseEntry, At, Refuse, Leave
<1>19. ASSUME NEW p \in Procs, UnknownRun(p) PROVE StageIsTheAllocators' BY <1>19 DEF UnknownRun, At, Leave
<1>20. ASSUME NEW p \in Procs, RecoverFromIndex(p) PROVE StageIsTheAllocators'
BY <1>20 DEF RecoverFromIndex, At, Goto
<1>21. ASSUME NEW p \in Procs, DropEventTemp(p) PROVE StageIsTheAllocators'
BY <1>21 DEF DropEventTemp, At, Entered
<1>22. ASSUME NEW p \in Procs, AdoptOrphan(p) PROVE StageIsTheAllocators'
BY <1>22 DEF AdoptOrphan, At, Entered, Orphan
<1>23. ASSUME NEW p \in Procs, LoadStatus(p) PROVE StageIsTheAllocators'
BY <1>23 DEF LoadStatus, At, Entered, Orphan
<1>24. ASSUME NEW p \in Procs, RefuseChain(p) PROVE StageIsTheAllocators'
BY <1>24 DEF RefuseChain, At, Refuse, Leave
<1>25. ASSUME NEW p \in Procs, CompleteTerminal(p) PROVE StageIsTheAllocators'
BY <1>25 DEF CompleteTerminal, At, Judged, Goto
<1>26. ASSUME NEW p \in Procs, ReportBusy(p) PROVE StageIsTheAllocators'
BY <1>26 DEF ReportBusy, At, Judged, Leave
<1>27. ASSUME NEW p \in Procs, Interrupt(p) PROVE StageIsTheAllocators' BY <1>27 DEF Interrupt, At, Judged
<1>28. ASSUME NEW p \in Procs, RefuseControl(p) PROVE StageIsTheAllocators'
BY <1>28 DEF RefuseControl, At, Refuse, Leave
<1>29. ASSUME NEW p \in Procs, ClearControlTemps(p) PROVE StageIsTheAllocators'
BY <1>29 DEF ClearControlTemps, At, Goto, SyncRoot, RootEntries
<1>30. ASSUME NEW p \in Procs, RefusePortable(p) PROVE StageIsTheAllocators'
BY <1>30 DEF RefusePortable, At, Refuse, Leave
<1>31. ASSUME NEW p \in Procs, ReconcilePortable(p) PROVE StageIsTheAllocators'
BY <1>31 DEF ReconcilePortable, At, Goto
<1>32. ASSUME NEW p \in Procs, RefuseChecksums(p) PROVE StageIsTheAllocators'
BY <1>32 DEF RefuseChecksums, At, Refuse, Leave
<1>33. ASSUME NEW p \in Procs, AcceptChecksums(p) PROVE StageIsTheAllocators'
BY <1>33 DEF AcceptChecksums, At, Goto
<1>34. ASSUME NEW p \in Procs, ChecksumsCreate(p) PROVE StageIsTheAllocators'
BY <1>34 DEF ChecksumsCreate, At, Goto
<1>35. ASSUME NEW p \in Procs, ChecksumsRename(p) PROVE StageIsTheAllocators'
BY <1>35 DEF ChecksumsRename, At, Goto
<1>36. ASSUME NEW p \in Procs, ChecksumsSync(p) PROVE StageIsTheAllocators'
BY <1>36 DEF ChecksumsSync, At, Goto, SyncRoot, RootEntries
<1>37. ASSUME NEW p \in Procs, PublishRecord(p) PROVE StageIsTheAllocators' BY <1>37 DEF PublishRecord, At, Goto
<1>38. ASSUME NEW p \in Procs, RecordSync(p) PROVE StageIsTheAllocators' BY <1>38 DEF RecordSync, At, Goto
<1>39. ASSUME NEW p \in Procs, PublishIndex(p) PROVE StageIsTheAllocators' BY <1>39 DEF PublishIndex, At, Goto
<1>40. ASSUME NEW p \in Procs, IndexSync(p) PROVE StageIsTheAllocators' BY <1>40 DEF IndexSync, At, Goto
<1>41. ASSUME NEW p \in Procs, FinishFromIndex(p) PROVE StageIsTheAllocators'
BY <1>41 DEF FinishFromIndex, At, Goto
<1>42. ASSUME NEW p \in Procs, Teardown(p) PROVE StageIsTheAllocators'
BY <1>42 DEF Teardown, At, Goto, FreshTree
<1>43. ASSUME NEW p \in Procs, TornDown(p) PROVE StageIsTheAllocators' BY <1>43 DEF TornDown, At, Leave
<1>44. ASSUME NEW p \in Procs, Rmdir(p) PROVE StageIsTheAllocators' BY <1>44 DEF Rmdir, At, Goto
<1>45. ASSUME NEW p \in Procs, GoneSync(p) PROVE StageIsTheAllocators' BY <1>45 DEF GoneSync, At, Leave
<1>46. ASSUME NEW p \in Procs, SweepList(p) PROVE StageIsTheAllocators' BY <1>46 DEF SweepList, At, Goto
<1>47. ASSUME NEW p \in Procs, SweepLock(p) PROVE StageIsTheAllocators' BY <1>47 DEF SweepLock, At, Lock, Leave
<1>48. ASSUME NEW p \in Procs, RefuseStage(p) PROVE StageIsTheAllocators'
 <2>1. Leave(p) /\ UNCHANGED diskVars BY <1>48 DEF RefuseStage, Refuse
 <2> QED BY <2>1 DEF Leave
<1>49. ASSUME NEW p \in Procs, LeaveLiveStage(p) PROVE StageIsTheAllocators'
BY <1>49 DEF LeaveLiveStage, At, Leave
<1>50. ASSUME NEW p \in Procs, ReclaimStage(p) PROVE StageIsTheAllocators' BY <1>50 DEF ReclaimStage, At, Goto
<1>51. ASSUME NEW p \in Procs, RemoveStage(p) PROVE StageIsTheAllocators' BY <1>51 DEF RemoveStage, At, Leave
<1>52. ASSUME NEW p \in Procs, Exit(p) PROVE StageIsTheAllocators' BY <1>52 DEF Exit, At
<1>53. ASSUME NEW p \in Procs, Kill(p) PROVE StageIsTheAllocators' BY <1>53 DEF Kill, At, Leave
<1>54. ASSUME NEW p \in Procs, ErrorInWrite(p) PROVE StageIsTheAllocators' BY <1>54 DEF ErrorInWrite, At, Goto
<1>55. ASSUME NEW p \in Procs, Error(p) PROVE StageIsTheAllocators' BY <1>55 DEF Error, At, Leave, Staging
<1>56. ASSUME PowerLoss PROVE StageIsTheAllocators' BY <1>56 DEF PowerLoss, StageAfter, TreeAfter, FreshTree
<1>57. CASE UNCHANGED vars BY <1>57
<1> HIDE DEF IInv, TypeInv, TypeOK, ProcInv, ProcTypeOK, LockInv,
    StageIsTheAllocators, Staging, SealInv
<1> QED BY <1>1, <1>2, <1>3, <1>4, <1>5, <1>6, <1>7, <1>8, <1>9, <1>10, <1>11,
     <1>12, <1>13, <1>14, <1>15, <1>16, <1>17, <1>18, <1>19, <1>20, <1>21,
     <1>22, <1>23, <1>24, <1>25, <1>26, <1>27, <1>28, <1>29, <1>30, <1>31,
     <1>32, <1>33, <1>34, <1>35, <1>36, <1>37, <1>38, <1>39, <1>40, <1>41,
     <1>42, <1>43, <1>44, <1>45, <1>46, <1>47, <1>48, <1>49, <1>50, <1>51,
     <1>52, <1>53, <1>54, <1>55, <1>56, <1>57 DEF Next, Allocation, Journal,
     Session, Recovery, Finalization, Sweep, Fault

\* Every step keeps INTERRUPTED for a dead owner.
LEMMA DeadStep == IInv /\ TypeInv' /\ [Next]_vars => DeadInv'
<1> SUFFICES ASSUME IInv, TypeInv', [Next]_vars PROVE DeadInv' OBVIOUS
<1> USE SlotsAssumption DEF vars, procVars, diskVars, stageVars, treeVars,
    journalVars, payloadVars, sumsVars, sealVars, faultVars, IInv, TypeInv,
    TypeOK, ProcInv, ProcTypeOK, LockInv, DeadInv, InterruptedOnlyWhenDead,
    FreshInv
<1>1. ASSUME NEW p \in Procs, Begin(p) PROVE DeadInv' BY <1>1 DEF Begin, At, Lock, Taken
<1>2. ASSUME NEW p \in Procs, BuildStage(p) PROVE DeadInv' BY <1>2 DEF BuildStage, Goto, Staging
<1>3. ASSUME NEW p \in Procs, Activate(p) PROVE DeadInv' BY <1>3 DEF Activate, At, Goto
<1>4. ASSUME NEW p \in Procs, ActivateSync(p) PROVE DeadInv' BY <1>4 DEF ActivateSync, At
<1>5. ASSUME NEW p \in Procs, EventCreate(p) PROVE DeadInv' BY <1>5 DEF EventCreate, At, Goto
<1>6. ASSUME NEW p \in Procs, EventWrite(p) PROVE DeadInv' BY <1>6 DEF EventWrite, At, Goto
<1>7. ASSUME NEW p \in Procs, EventRename(p) PROVE DeadInv' BY <1>7 DEF EventRename, At, Goto
<1>8. ASSUME NEW p \in Procs, EventSync(p) PROVE DeadInv' BY <1>8 DEF EventSync, At, Goto
<1>9. ASSUME NEW p \in Procs, StatusCreate(p) PROVE DeadInv' BY <1>9 DEF StatusCreate, At, Goto
<1>10. ASSUME NEW p \in Procs, StatusRename(p) PROVE DeadInv' BY <1>10 DEF StatusRename, At
<1>11. ASSUME NEW p \in Procs, StatusSync(p) PROVE DeadInv'
BY <1>11 DEF StatusSync, At, Goto, SyncRoot, RootEntries, AfterStatus
<1>12. ASSUME NEW p \in Procs, NEW f \in Paths, LocalCreate(p, f) PROVE DeadInv' BY <1>12 DEF LocalCreate, At
<1>13. ASSUME NEW p \in Procs, LocalRename(p) PROVE DeadInv' BY <1>13 DEF LocalRename, At, Goto
<1>14. ASSUME NEW p \in Procs, LocalSync(p) PROVE DeadInv' BY <1>14 DEF LocalSync, At, Goto
<1>15. ASSUME NEW p \in Procs, WritePortable(p) PROVE DeadInv' BY <1>15 DEF WritePortable, At, Goto
<1>16. ASSUME NEW p \in Procs, NEW o \in {"SUCCESS", "FAILURE"}, Finish(p, o) PROVE DeadInv'
BY <1>16 DEF Finish, At
<1>17. ASSUME NEW p \in Procs, Recover(p) PROVE DeadInv' BY <1>17 DEF Recover, At, Lock
<1>18. ASSUME NEW p \in Procs, RefuseEntry(p) PROVE DeadInv' BY <1>18 DEF RefuseEntry, At, Refuse, Leave
<1>19. ASSUME NEW p \in Procs, UnknownRun(p) PROVE DeadInv' BY <1>19 DEF UnknownRun, At, Leave
<1>20. ASSUME NEW p \in Procs, RecoverFromIndex(p) PROVE DeadInv' BY <1>20 DEF RecoverFromIndex, At, Goto
<1>21. ASSUME NEW p \in Procs, DropEventTemp(p) PROVE DeadInv' BY <1>21 DEF DropEventTemp, At, Entered
<1>22. ASSUME NEW p \in Procs, AdoptOrphan(p) PROVE DeadInv' BY <1>22 DEF AdoptOrphan, At, Entered, Orphan
<1>23. ASSUME NEW p \in Procs, LoadStatus(p) PROVE DeadInv' BY <1>23 DEF LoadStatus, At, Entered, Orphan
<1>24. ASSUME NEW p \in Procs, RefuseChain(p) PROVE DeadInv' BY <1>24 DEF RefuseChain, At, Refuse, Leave
<1>25. ASSUME NEW p \in Procs, CompleteTerminal(p) PROVE DeadInv'
BY <1>25 DEF CompleteTerminal, At, Judged, Goto
<1>26. ASSUME NEW p \in Procs, ReportBusy(p) PROVE DeadInv' BY <1>26 DEF ReportBusy, At, Judged, Leave
<1>27. ASSUME NEW p \in Procs, Interrupt(p) PROVE DeadInv' BY <1>27 DEF Interrupt, At, Judged
<1>28. ASSUME NEW p \in Procs, RefuseControl(p) PROVE DeadInv' BY <1>28 DEF RefuseControl, At, Refuse, Leave
<1>29. ASSUME NEW p \in Procs, ClearControlTemps(p) PROVE DeadInv'
BY <1>29 DEF ClearControlTemps, At, Goto, SyncRoot, RootEntries
<1>30. ASSUME NEW p \in Procs, RefusePortable(p) PROVE DeadInv' BY <1>30 DEF RefusePortable, At, Refuse, Leave
<1>31. ASSUME NEW p \in Procs, ReconcilePortable(p) PROVE DeadInv' BY <1>31 DEF ReconcilePortable, At, Goto
<1>32. ASSUME NEW p \in Procs, RefuseChecksums(p) PROVE DeadInv' BY <1>32 DEF RefuseChecksums, At, Refuse, Leave
<1>33. ASSUME NEW p \in Procs, AcceptChecksums(p) PROVE DeadInv' BY <1>33 DEF AcceptChecksums, At, Goto
<1>34. ASSUME NEW p \in Procs, ChecksumsCreate(p) PROVE DeadInv' BY <1>34 DEF ChecksumsCreate, At, Goto
<1>35. ASSUME NEW p \in Procs, ChecksumsRename(p) PROVE DeadInv' BY <1>35 DEF ChecksumsRename, At, Goto
<1>36. ASSUME NEW p \in Procs, ChecksumsSync(p) PROVE DeadInv'
BY <1>36 DEF ChecksumsSync, At, Goto, SyncRoot, RootEntries
<1>37. ASSUME NEW p \in Procs, PublishRecord(p) PROVE DeadInv'
BY <1>37 DEF PublishRecord, At, Goto, Payload, FinalInv, ChainOf
<1>38. ASSUME NEW p \in Procs, RecordSync(p) PROVE DeadInv' BY <1>38 DEF RecordSync, At, Goto
<1>39. ASSUME NEW p \in Procs, PublishIndex(p) PROVE DeadInv' BY <1>39 DEF PublishIndex, At, Goto
<1>40. ASSUME NEW p \in Procs, IndexSync(p) PROVE DeadInv' BY <1>40 DEF IndexSync, At, Goto
<1>41. ASSUME NEW p \in Procs, FinishFromIndex(p) PROVE DeadInv' BY <1>41 DEF FinishFromIndex, At, Goto
<1>42. ASSUME NEW p \in Procs, Teardown(p) PROVE DeadInv' BY <1>42 DEF Teardown, At, Goto, FreshTree
<1>43. ASSUME NEW p \in Procs, TornDown(p) PROVE DeadInv' BY <1>43 DEF TornDown, At, Leave
<1>44. ASSUME NEW p \in Procs, Rmdir(p) PROVE DeadInv' BY <1>44 DEF Rmdir, At, Goto
<1>45. ASSUME NEW p \in Procs, GoneSync(p) PROVE DeadInv' BY <1>45 DEF GoneSync, At, Leave
<1>46. ASSUME NEW p \in Procs, SweepList(p) PROVE DeadInv' BY <1>46 DEF SweepList, At, Goto
<1>47. ASSUME NEW p \in Procs, SweepLock(p) PROVE DeadInv' BY <1>47 DEF SweepLock, At, Lock, Leave
<1>48. ASSUME NEW p \in Procs, RefuseStage(p) PROVE DeadInv'
 <2>1. Leave(p) /\ UNCHANGED diskVars BY <1>48 DEF RefuseStage, Refuse
 <2> QED BY <2>1 DEF Leave
<1>49. ASSUME NEW p \in Procs, LeaveLiveStage(p) PROVE DeadInv' BY <1>49 DEF LeaveLiveStage, At, Leave
<1>50. ASSUME NEW p \in Procs, ReclaimStage(p) PROVE DeadInv' BY <1>50 DEF ReclaimStage, At, Goto
<1>51. ASSUME NEW p \in Procs, RemoveStage(p) PROVE DeadInv' BY <1>51 DEF RemoveStage, At, Leave
<1>52. ASSUME NEW p \in Procs, Exit(p) PROVE DeadInv' BY <1>52 DEF Exit, At
<1>53. ASSUME NEW p \in Procs, Kill(p) PROVE DeadInv' BY <1>53 DEF Kill, At, Leave
<1>54. ASSUME NEW p \in Procs, ErrorInWrite(p) PROVE DeadInv' BY <1>54 DEF ErrorInWrite, At, Goto
<1>55. ASSUME NEW p \in Procs, Error(p) PROVE DeadInv' BY <1>55 DEF Error, At, Leave, Staging
<1>56. ASSUME PowerLoss PROVE DeadInv' BY <1>56 DEF PowerLoss, StageAfter, TreeAfter, FreshTree
<1>57. CASE UNCHANGED vars BY <1>57
<1> HIDE DEF IInv, TypeInv, TypeOK, ProcInv, ProcTypeOK, LockInv, DeadInv,
    InterruptedOnlyWhenDead, FreshInv
<1> QED BY <1>1, <1>2, <1>3, <1>4, <1>5, <1>6, <1>7, <1>8, <1>9, <1>10, <1>11,
     <1>12, <1>13, <1>14, <1>15, <1>16, <1>17, <1>18, <1>19, <1>20, <1>21,
     <1>22, <1>23, <1>24, <1>25, <1>26, <1>27, <1>28, <1>29, <1>30, <1>31,
     <1>32, <1>33, <1>34, <1>35, <1>36, <1>37, <1>38, <1>39, <1>40, <1>41,
     <1>42, <1>43, <1>44, <1>45, <1>46, <1>47, <1>48, <1>49, <1>50, <1>51,
     <1>52, <1>53, <1>54, <1>55, <1>56, <1>57 DEF Next, Allocation, Journal,
     Session, Recovery, Finalization, Sweep, Fault

\* The initial state satisfies the inductive invariant.
LEMMA InitInv == Init => IInv
<1> SUFFICES ASSUME Init PROVE IInv OBVIOUS
<1> USE SlotsAssumption, BoundsAssumption DEF Init
<1>1. TypeInv
 <2>1. ProcInv BY DEF ProcInv, ProcTypeOK, LockInv, WritingInv, Publishing, Labels, Allocated, Status, Event
 <2>2. TreeTypeOK BY DEF TreeTypeOK, Allocated, Status, Event
 <2>3. StageTypeOK /\ SealTypeOK BY DEF StageTypeOK, SealTypeOK
 <2>4. FaultTypeOK BY DEF FaultTypeOK
 <2> QED BY <2>1, <2>2, <2>3, <2>4 DEF TypeInv, TypeOK, ProcInv
<1>2. FreshInv /\ JournalInv BY DEF FreshInv, JournalInv, Allocated
<1>3. FinalInv /\ SealInv BY DEF FinalInv, SealInv
<1>4. StageIsTheAllocators /\ DeadInv BY DEF StageIsTheAllocators, Staging, DeadInv, InterruptedOnlyWhenDead
<1> QED BY <1>1, <1>2, <1>3, <1>4 DEF IInv

\* IInv is an invariant of the specification: whatever is killed, raises or loses
\* power, with any number of processes and paths.
THEOREM Invariance == Spec => []IInv
<1>1. IInv /\ [Next]_vars => IInv'
 <2> SUFFICES ASSUME IInv, [Next]_vars PROVE IInv' OBVIOUS
 <2>1. TypeInv' BY TypeStep DEF IInv
 <2> QED BY <2>1, FreshStep, JournalStep, FinalStep, SealStep, StageStep, DeadStep DEF IInv
<1> QED BY <1>1, InitInv, PTL DEF Spec

\* Every variable stays within its type, under every fault (evidence.py's models
\* of the files it writes).
THEOREM TypeCorrect == Spec => []TypeOK
<1>1. IInv => TypeOK BY DEF IInv, TypeInv
<1> QED BY <1>1, Invariance, PTL

\* _teardown_active deletes the live tree only when the record and the index are
\* published, durable and agree: no fault leaves a run without evidence.
THEOREM SafeTeardown == Spec => []TeardownIsSafe
<1>1. IInv => TeardownIsSafe
 <2> SUFFICES ASSUME IInv, tree = "tearing" \/ (\E p \in Procs : pc[p] \in {"rmdir", "gone.sync"})
              PROVE  /\ volatile \cap {"record", "index"} = {}
                     /\ \E i \in indexes, r \in records : Binds(i, r)
   BY DEF TeardownIsSafe
 <2>1. Durable BY DEF IInv, SealInv
 <2>2. PICK i \in indexes : TRUE BY <2>1 DEF Durable
 <2>3. \E r \in records : Binds(i, r) BY DEF IInv, SealInv
 <2> QED BY <2>1, <2>3 DEF Durable
<1> QED BY <1>1, Invariance, PTL

\* The record _complete_finalization published passes _verify_finalized_record
\* whenever an index is built from it, and every index names such a record.
THEOREM AcceptedByVerifier == Spec => []VerifierAccepts
<1>1. IInv => VerifierAccepts BY DEF IInv, SealInv, VerifierAccepts
<1> QED BY <1>1, Invariance, PTL

\* A recoverer gives the outcome INTERRUPTED to no run whose owner lives.
THEOREM InterruptsTheDead == Spec => []InterruptedOnlyWhenDead
<1>1. IInv => InterruptedOnlyWhenDead BY DEF IInv, DeadInv
<1> QED BY <1>1, Invariance, PTL

\* A process that publishes a transition has the status of the disk in memory and
\* the event it will project in place, as _run_finalization trusts.
THEOREM StatusInMemory == Spec => []KnownIsCurrent
<1>1. IInv => KnownIsCurrent BY DEF IInv, JournalInv, KnownIsCurrent
<1> QED BY <1>1, Invariance, PTL

\* _reconcile_one_stage never meets the stage an allocator is building, nor
\* begin_run a live tree.
THEOREM StageKept == Spec => []StageIsTheAllocators
<1>1. IInv => StageIsTheAllocators BY DEF IInv
<1> QED BY <1>1, Invariance, PTL

\* _run_id_taken keeps the id of a finalized run from ever naming another live tree.
THEOREM IdentityKept == Spec => IdentityIsNotReissued
<1> DEFINE Kept == Sealed /\ tree # "live" => tree' # "live"
<1>1. IInv /\ [Next]_vars => [Kept]_vars
 <2> SUFFICES ASSUME IInv, Next PROVE Kept BY DEF vars, diskVars, treeVars
 <2>1. ASSUME NEW p \in Procs, Activate(p) PROVE ~Sealed BY <2>1 DEF IInv, SealInv, Sealed, Activate, At
 <2>2. ASSUME NEW p \in Procs, Teardown(p) \/ Rmdir(p) PROVE tree' # "live" BY <2>2 DEF Teardown, Rmdir
 <2>3. ASSUME NEW p \in Procs, Begin(p) \/ BuildStage(p) \/ ActivateSync(p) PROVE tree' = tree
   BY <2>3 DEF Begin, BuildStage, ActivateSync, treeVars
 <2>4. ASSUME NEW p \in Procs, Journal(p) PROVE tree' = tree
   BY <2>4 DEF Journal, EventCreate, EventWrite, EventRename, EventSync, StatusCreate, StatusRename, StatusSync,
     treeVars
 <2>5. ASSUME NEW p \in Procs, Session(p) PROVE tree' = tree
   BY <2>5 DEF Session, LocalCreate, LocalRename, LocalSync, WritePortable, Finish, diskVars, treeVars
 <2>6. ASSUME NEW p \in Procs, Recover(p) \/ SweepList(p) \/ Recovery(p) PROVE tree' = tree
   BY <2>6 DEF Recover, SweepList, Recovery, RefuseEntry, Refuse, UnknownRun, RecoverFromIndex, DropEventTemp,
     AdoptOrphan, LoadStatus, RefuseChain, CompleteTerminal, ReportBusy, Interrupt, diskVars, treeVars
 <2>7. ASSUME NEW p \in Procs, Finalization(p), ~Teardown(p), ~Rmdir(p) PROVE tree' = tree
   BY <2>7 DEF Finalization, RefuseControl, RefusePortable, RefuseChecksums, Refuse, ClearControlTemps,
     ReconcilePortable, AcceptChecksums, ChecksumsCreate, ChecksumsRename, ChecksumsSync, PublishRecord, RecordSync,
     PublishIndex, IndexSync, FinishFromIndex, TornDown, GoneSync, diskVars, treeVars
 <2>8. ASSUME NEW p \in Procs, Sweep(p) \/ Fault(p) PROVE tree' = tree
   BY <2>8 DEF Sweep, SweepLock, RefuseStage, Refuse, LeaveLiveStage, ReclaimStage, RemoveStage, Fault, Exit, Kill,
     ErrorInWrite, Error, diskVars, treeVars
 <2>9. CASE PowerLoss BY <2>9 DEF PowerLoss, StageAfter, TreeAfter
 <2> QED BY <2>1, <2>2, <2>3, <2>4, <2>5, <2>6, <2>7, <2>8, <2>9 DEF Next, Allocation
<1> QED BY <1>1, Invariance, PTL DEF Spec, IdentityIsNotReissued

----------------------------------------
\* The steps of a session
SessionSteps == {"session", "local.rename", "local.sync", "portable.fill", "portable.commit"}

\* What is on disk of a run beside its journal before the run is finalized: nothing
Untouched == sums = {} /\ records = {} /\ indexes = {}

\* The owner under each step of the process that holds the lock, from the stage to
\* the end of the session; only the transition that ends the session writes anything
\* but ACTIVE.
OwnerInv ==
  /\ tree # "live" => sums = {}
  /\ \A p \in Procs :
       /\ pc[p] \in {"stage.make", "stage.fill", "stage.describe", "stage.rename"} =>
            role[p] = "owner" /\ owner = p /\ ownerAlive
       /\ pc[p] = "stage.sync" =>
            role[p] = "owner" /\ owner = p /\ ownerAlive /\ Untouched
       /\ role[p] = "owner" /\ pc[p] \in Publishing => writing[p] # "ALLOCATED"
       /\ role[p] = "owner" /\ writing[p] = "ACTIVE" /\ pc[p] \in Publishing =>
            owner = p /\ ownerAlive /\ Untouched
       /\ role[p] = "owner" /\ writing[p] = "ACTIVE"
            /\ pc[p] \in {"event.create", "event.write", "event.rename"} =>
            events = <<"ALLOCATED">> /\ status = Allocated
       /\ role[p] = "owner" /\ writing[p] = "ACTIVE"
            /\ pc[p] \in {"event.sync", "status.create", "status.rename"} =>
            events = <<"ALLOCATED", "ACTIVE">> /\ status = Allocated
       /\ role[p] = "owner" /\ writing[p] = "ACTIVE" /\ pc[p] = "status.sync" =>
            events = <<"ALLOCATED", "ACTIVE">>
       /\ pc[p] \in SessionSteps =>
            /\ role[p] = "owner" /\ owner = p /\ ownerAlive /\ Untouched
            /\ events = <<"ALLOCATED", "ACTIVE">>

\* The journal of one event with another one is the pair of them.
LEMMA AppendToOne == ASSUME NEW a, NEW b PROVE Append(<<a>>, b) = <<a, b>>
<1> DEFINE S == {a, b}
<1>0. a \in S /\ b \in S OBVIOUS
<1> HIDE DEF S
<1> DEFINE s == Append(<<a>>, b)
           t == <<a, b>>
<1>1. t \in Seq(S) /\ Len(t) = 2 /\ t[1] = a /\ t[2] = b BY <1>0
<1>2. s \in Seq(S) /\ Len(s) = 2 /\ s[1] = a /\ s[2] = b
 <2>1. <<a>> \in Seq(S) /\ Len(<<a>>) = 1 /\ <<a>>[1] = a BY <1>0
 <2> QED BY <1>0, <2>1
<1> HIDE DEF s, t
<1>3. s = [i \in 1 .. 2 |-> s[i]] /\ t = [i \in 1 .. 2 |-> t[i]] BY <1>1, <1>2
<1>4. \A i \in 1 .. 2 : s[i] = t[i]
 <2>1. \A i \in 1 .. 2 : i = 1 \/ i = 2 OBVIOUS
 <2> QED BY <2>1, <1>1, <1>2
<1>5. s = t BY <1>3, <1>4
<1> QED BY <1>5 DEF s, t


\* Every step keeps a run its owner's until the session ends.
LEMMA OwnerStep == IInv /\ OwnerInv /\ [Next]_vars => OwnerInv'
<1> SUFFICES ASSUME IInv, OwnerInv, [Next]_vars PROVE OwnerInv' OBVIOUS
<1> USE SlotsAssumption DEF vars, procVars, diskVars, stageVars, treeVars,
    journalVars, payloadVars, sumsVars, sealVars, faultVars, IInv, TypeInv,
    TypeOK, ProcInv, ProcTypeOK, LockInv, OwnerInv, Untouched, SessionSteps,
    Publishing, Allocated, SealInv
<1>1. ASSUME NEW p \in Procs, Begin(p) PROVE OwnerInv' BY SMTT(40), <1>1 DEF Begin, At, Lock, Taken
<1>2. ASSUME NEW p \in Procs, BuildStage(p) PROVE OwnerInv' BY <1>2 DEF BuildStage, Goto, Staging
<1>3. ASSUME NEW p \in Procs, Activate(p) PROVE OwnerInv' BY <1>3 DEF Activate, At, Goto, FreshInv
<1>4. ASSUME NEW p \in Procs, ActivateSync(p) PROVE OwnerInv' BY <1>4 DEF ActivateSync, At, JournalInv
<1>5. ASSUME NEW p \in Procs, EventCreate(p) PROVE OwnerInv' BY <1>5 DEF EventCreate, At, Goto
<1>6. ASSUME NEW p \in Procs, EventWrite(p) PROVE OwnerInv' BY <1>6 DEF EventWrite, At, Goto
<1>7. ASSUME NEW p \in Procs, EventRename(p) PROVE OwnerInv'
 <2>1. events' = Append(events, writing[p]) /\ status' = status BY <1>7 DEF EventRename
 <2>2. role[p] = "owner" /\ writing[p] = "ACTIVE" => events = <<"ALLOCATED">> /\ status = Allocated
   BY <1>7 DEF EventRename, At
 <2>3. Append(<<"ALLOCATED">>, "ACTIVE") = <<"ALLOCATED", "ACTIVE">> BY AppendToOne
 <2>4. role[p] = "owner" /\ writing[p] = "ACTIVE"
         => events' = <<"ALLOCATED", "ACTIVE">> /\ status' = Allocated
   BY <2>1, <2>2, <2>3
 <2>5. \A q \in Procs : q # p => pc[q] \in {"idle", "sweep.lock"} BY <1>7 DEF EventRename, At
 <2> HIDE DEF Allocated
 <2> QED BY <1>7, <2>4, <2>5 DEF EventRename, At, Goto
<1>8. ASSUME NEW p \in Procs, EventSync(p) PROVE OwnerInv' BY <1>8 DEF EventSync, At, Goto
<1>9. ASSUME NEW p \in Procs, StatusCreate(p) PROVE OwnerInv' BY <1>9 DEF StatusCreate, At, Goto
<1>10. ASSUME NEW p \in Procs, StatusRename(p) PROVE OwnerInv' BY <1>10 DEF StatusRename, At, JournalInv
<1>11. ASSUME NEW p \in Procs, StatusSync(p) PROVE OwnerInv'
 <2>1. AfterStatus(p) = "session" => role[p] = "owner" /\ writing[p] = "ACTIVE"
   BY <1>11 DEF AfterStatus, Terminal, WritingInv, StatusSync, At, Event, Outcomes
 <2>2. AfterStatus(p) \in {"judge", "complete", "session"} BY DEF AfterStatus
 <2> QED BY <1>11, <2>1, <2>2 DEF StatusSync, At, Goto
<1>12. ASSUME NEW p \in Procs, NEW f \in Paths, LocalCreate(p, f) PROVE OwnerInv' BY <1>12 DEF LocalCreate, At
<1>13. ASSUME NEW p \in Procs, LocalRename(p) PROVE OwnerInv' BY <1>13 DEF LocalRename, At, Goto
<1>14. ASSUME NEW p \in Procs, LocalSync(p) PROVE OwnerInv' BY <1>14 DEF LocalSync, At, Goto
<1>15. ASSUME NEW p \in Procs, WritePortable(p) PROVE OwnerInv' BY <1>15 DEF WritePortable, At, Goto
<1>16. ASSUME NEW p \in Procs, NEW o \in {"SUCCESS", "FAILURE"}, Finish(p, o) PROVE OwnerInv'
BY <1>16 DEF Finish, At
<1>17. ASSUME NEW p \in Procs, Recover(p) PROVE OwnerInv' BY <1>17 DEF Recover, At, Lock
<1>18. ASSUME NEW p \in Procs, RefuseEntry(p) PROVE OwnerInv' BY <1>18 DEF RefuseEntry, At, Refuse, Leave
<1>19. ASSUME NEW p \in Procs, UnknownRun(p) PROVE OwnerInv' BY <1>19 DEF UnknownRun, At, Leave
<1>20. ASSUME NEW p \in Procs, RecoverFromIndex(p) PROVE OwnerInv' BY <1>20 DEF RecoverFromIndex, At, Goto
<1>21. ASSUME NEW p \in Procs, DropEventTemp(p) PROVE OwnerInv' BY <1>21 DEF DropEventTemp, At, Entered
<1>22. ASSUME NEW p \in Procs, AdoptOrphan(p) PROVE OwnerInv'
 <2>1. role'[p] # "owner" /\ tree' = tree /\ sums' = sums BY <1>22 DEF AdoptOrphan, At, Entered, JournalInv
 <2>2. \A q \in Procs : q # p => pc'[q] \in {"idle", "sweep.lock"} BY <1>22 DEF AdoptOrphan, At, Entered
 <2>3. pc'[p] \notin SessionSteps \cup {"stage.make", "stage.fill", "stage.describe", "stage.rename", "stage.sync"}
   BY <1>22 DEF AdoptOrphan, At, Entered
 <2> QED BY <2>1, <2>2, <2>3
<1>23. ASSUME NEW p \in Procs, LoadStatus(p) PROVE OwnerInv' BY <1>23 DEF LoadStatus, At, Entered, Orphan
<1>24. ASSUME NEW p \in Procs, RefuseChain(p) PROVE OwnerInv' BY <1>24 DEF RefuseChain, At, Refuse, Leave
<1>25. ASSUME NEW p \in Procs, CompleteTerminal(p) PROVE OwnerInv'
BY <1>25 DEF CompleteTerminal, At, Judged, Goto
<1>26. ASSUME NEW p \in Procs, ReportBusy(p) PROVE OwnerInv' BY <1>26 DEF ReportBusy, At, Judged, Leave
<1>27. ASSUME NEW p \in Procs, Interrupt(p) PROVE OwnerInv' BY <1>27 DEF Interrupt, At, Judged
<1>28. ASSUME NEW p \in Procs, RefuseControl(p) PROVE OwnerInv' BY <1>28 DEF RefuseControl, At, Refuse, Leave
<1>29. ASSUME NEW p \in Procs, ClearControlTemps(p) PROVE OwnerInv'
BY <1>29 DEF ClearControlTemps, At, Goto, SyncRoot, RootEntries
<1>30. ASSUME NEW p \in Procs, RefusePortable(p) PROVE OwnerInv' BY <1>30 DEF RefusePortable, At, Refuse, Leave
<1>31. ASSUME NEW p \in Procs, ReconcilePortable(p) PROVE OwnerInv' BY <1>31 DEF ReconcilePortable, At, Goto
<1>32. ASSUME NEW p \in Procs, RefuseChecksums(p) PROVE OwnerInv'
BY <1>32 DEF RefuseChecksums, At, Refuse, Leave
<1>33. ASSUME NEW p \in Procs, AcceptChecksums(p) PROVE OwnerInv' BY <1>33 DEF AcceptChecksums, At, Goto
<1>34. ASSUME NEW p \in Procs, ChecksumsCreate(p) PROVE OwnerInv' BY <1>34 DEF ChecksumsCreate, At, Goto
<1>35. ASSUME NEW p \in Procs, ChecksumsRename(p) PROVE OwnerInv'
BY <1>35 DEF ChecksumsRename, At, Goto, FinalInv
<1>36. ASSUME NEW p \in Procs, ChecksumsSync(p) PROVE OwnerInv'
BY <1>36 DEF ChecksumsSync, At, Goto, SyncRoot, RootEntries
<1>37. ASSUME NEW p \in Procs, PublishRecord(p) PROVE OwnerInv' BY <1>37 DEF PublishRecord, At, Goto
<1>38. ASSUME NEW p \in Procs, RecordSync(p) PROVE OwnerInv' BY <1>38 DEF RecordSync, At, Goto
<1>39. ASSUME NEW p \in Procs, PublishIndex(p) PROVE OwnerInv' BY <1>39 DEF PublishIndex, At, Goto
<1>40. ASSUME NEW p \in Procs, IndexSync(p) PROVE OwnerInv' BY <1>40 DEF IndexSync, At, Goto
<1>41. ASSUME NEW p \in Procs, FinishFromIndex(p) PROVE OwnerInv' BY <1>41 DEF FinishFromIndex, At, Goto
<1>42. ASSUME NEW p \in Procs, Teardown(p) PROVE OwnerInv' BY <1>42 DEF Teardown, At, Goto, FreshTree
<1>43. ASSUME NEW p \in Procs, TornDown(p) PROVE OwnerInv' BY <1>43 DEF TornDown, At, Leave
<1>44. ASSUME NEW p \in Procs, Rmdir(p) PROVE OwnerInv' BY <1>44 DEF Rmdir, At, Goto, FreshInv
<1>45. ASSUME NEW p \in Procs, GoneSync(p) PROVE OwnerInv' BY <1>45 DEF GoneSync, At, Leave
<1>46. ASSUME NEW p \in Procs, SweepList(p) PROVE OwnerInv' BY <1>46 DEF SweepList, At, Goto
<1>47. ASSUME NEW p \in Procs, SweepLock(p) PROVE OwnerInv' BY <1>47 DEF SweepLock, At, Lock, Leave
<1>48. ASSUME NEW p \in Procs, RefuseStage(p) PROVE OwnerInv'
 <2>1. Leave(p) /\ UNCHANGED diskVars BY <1>48 DEF RefuseStage, Refuse
 <2> QED BY <2>1 DEF Leave
<1>49. ASSUME NEW p \in Procs, LeaveLiveStage(p) PROVE OwnerInv' BY <1>49 DEF LeaveLiveStage, At, Leave
<1>50. ASSUME NEW p \in Procs, ReclaimStage(p) PROVE OwnerInv' BY <1>50 DEF ReclaimStage, At, Goto
<1>51. ASSUME NEW p \in Procs, RemoveStage(p) PROVE OwnerInv' BY <1>51 DEF RemoveStage, At, Leave
<1>52. ASSUME NEW p \in Procs, Exit(p) PROVE OwnerInv' BY <1>52 DEF Exit, At
<1>53. ASSUME NEW p \in Procs, Kill(p) PROVE OwnerInv'
 <2>1. \A q \in Procs : q # p => pc'[q] = pc[q] /\ role'[q] = role[q] /\ writing'[q] = writing[q]
   BY <1>53 DEF Kill, Leave
 <2>2. pc'[p] = "idle" BY <1>53 DEF Kill, Leave
 <2>3. UNCHANGED <<owner, tree, events, status, sums, records, indexes>> BY <1>53 DEF Kill
 <2>4. \A q \in Procs : q # p /\ owner = q /\ ownerAlive => ownerAlive' BY <1>53 DEF Kill
 <2> QED BY <2>1, <2>2, <2>3, <2>4
<1>54. ASSUME NEW p \in Procs, ErrorInWrite(p) PROVE OwnerInv' BY <1>54 DEF ErrorInWrite, At, Goto
<1>55. ASSUME NEW p \in Procs, Error(p) PROVE OwnerInv' BY <1>55 DEF Error, At, Leave, Staging
<1>56. ASSUME PowerLoss PROVE OwnerInv' BY <1>56 DEF PowerLoss, StageAfter, TreeAfter, FreshTree
<1>57. CASE UNCHANGED vars BY <1>57
<1> HIDE DEF IInv, TypeInv, TypeOK, ProcInv, ProcTypeOK, LockInv, OwnerInv,
    Untouched, SessionSteps, Publishing, Allocated, SealInv
<1> QED BY <1>1, <1>2, <1>3, <1>4, <1>5, <1>6, <1>7, <1>8, <1>9, <1>10, <1>11,
     <1>12, <1>13, <1>14, <1>15, <1>16, <1>17, <1>18, <1>19, <1>20, <1>21,
     <1>22, <1>23, <1>24, <1>25, <1>26, <1>27, <1>28, <1>29, <1>30, <1>31,
     <1>32, <1>33, <1>34, <1>35, <1>36, <1>37, <1>38, <1>39, <1>40, <1>41,
     <1>42, <1>43, <1>44, <1>45, <1>46, <1>47, <1>48, <1>49, <1>50, <1>51,
     <1>52, <1>53, <1>54, <1>55, <1>56, <1>57 DEF Next, Allocation, Journal,
     Session, Recovery, Finalization, Sweep, Fault

\* The owner of a run is alive, holds the lock and has its run to itself from the
\* first file of the stage to the end of its session.
THEOREM OwnersInvariance == Spec => []OwnerInv
<1>1. Init => OwnerInv BY DEF Init, OwnerInv, Publishing, SessionSteps
<1>2. IInv /\ OwnerInv /\ [Next]_vars => OwnerInv' BY OwnerStep
<1> QED BY <1>1, <1>2, Invariance, PTL DEF Spec

\* Nothing finalizes or deletes a run under a RunSession: recover_run and the
\* sweep of begin_run keep off while the owner writes its evidence.
THEOREM SessionKept == Spec => []SessionIsUndisturbed
<1>1. IInv /\ OwnerInv => SessionIsUndisturbed
  BY DEF IInv, TypeInv, ProcInv, LockInv, JournalInv, OwnerInv, Untouched, SessionSteps, SessionIsUndisturbed
<1> QED BY <1>1, Invariance, OwnersInvariance, PTL

\* begin_run and RunSession are left alone by every recover_run and every sweep:
\* the four promises made to a live owner hold together.
THEOREM OwnersKept == Spec => []OwnersAreUndisturbed
<1>1. KnownIsCurrent /\ SessionIsUndisturbed /\ StageIsTheAllocators /\ InterruptedOnlyWhenDead
        => OwnersAreUndisturbed
  BY DEF OwnersAreUndisturbed
<1> QED BY <1>1, StatusInMemory, SessionKept, StageKept, InterruptsTheDead, PTL

\* What _complete_finalization and _teardown_active leave behind is sound: typed,
\* durable before the tree goes, and accepted by _verify_finalized_record.
THEOREM RecordSound == Spec => []RecordIsSound
<1>1. TypeOK /\ TeardownIsSafe /\ VerifierAccepts => RecordIsSound BY DEF RecordIsSound
<1> QED BY <1>1, TypeCorrect, SafeTeardown, AcceptedByVerifier, PTL

----------------------------------------
(* What faults leave behind *)

\* The faults so far
Faults == kills + losses + errors

\* A power failure upon another fault
Worse == losses >= 1 /\ Faults >= 2

\* Whoever holds the lock is at one of the given steps.
Doing(steps) == lock # Nobody /\ pc[lock] \in steps

\* Every temp and every half-made stage is of a fault, or of the step under way; what
\* finalization goes on with has neither, but for nested temps.
TraceInv ==
  /\ eventTemp # "none" => Faults >= 1 \/ Doing({"event.write", "event.rename"})
  /\ portable # "clean" => Faults >= 1 \/ Doing({"portable.fill", "portable.commit"})
  /\ \A f \in strays : Faults >= 1 \/ (Doing({"local.rename"}) /\ writing[lock] = f)
  /\ stage = "bare" => Faults >= 1 \/ Doing({"stage.describe", "sweep.rmdir"})
  /\ statusTemps <= Faults \/ (Doing({"status.rename"}) /\ statusTemps <= Faults + 1)
  /\ sumsTemps <= 1
  /\ Doing({"portable", "sums", "sums.rename", "sums.sync", "record"}) => strays \cap RootPaths = {}
  /\ Doing({"sums", "sums.rename", "sums.sync", "record"}) => portable = "clean"
  /\ RecordStraysAreNested

\* The events are a legal history, the status is one of it, and it falls behind by more
\* than the event under way only if a power failure took it back upon another fault.
OrderInv ==
  /\ events[1] = "ALLOCATED" /\ \A i \in 2 .. Len(events) : Legal(events[i - 1], events[i])
  /\ 1 <= syncedStatus.seq /\ syncedStatus.seq <= status.seq /\ status.seq <= Len(events)
  /\ events[status.seq] = status.event /\ events[syncedStatus.seq] = syncedStatus.event
  /\ "event" \in volatile => status.seq < Len(events)
  /\ "status" \notin volatile => syncedStatus = status
  /\ Doing({"status.create", "status.rename"}) => "event" \notin volatile
  /\ Len(events) <= status.seq + 1 \/ Worse
  /\ Len(events) <= syncedStatus.seq + 1 \/ Faults >= 1
  /\ Doing({"status.sync", "judge"}) => Len(events) = status.seq \/ Worse

\* Without a fault only what the step under way has renamed is not yet durable.
CleanInv ==
  Faults = 0 =>
    /\ "status" \in volatile => Doing({"status.sync"})
    /\ "event" \in volatile => Doing({"event.sync"})
    /\ \A f \in volatile \cap Paths : Doing({"local.rename", "local.sync"}) /\ writing[lock] = f
    /\ "active" \in volatile => Doing({"stage.sync"})
    /\ tree = "live" /\ sums # {} =>
         Doing({"sums.sync", "record", "record.sync", "index", "index.sync", "teardown"})

\* The checksums are of the tree as it is, unless a power failure took some of it back
\* upon another fault.
SumsInv ==
  tree = "live" /\ sums # {} /\ ~Worse =>
    /\ sums = {Payload(0)} /\ statusTemps = 0 /\ eventTemp = "none" /\ portable = "clean"
    /\ Terminal(status.event) /\ ChainOf(events, status)

\* So is a record whose tree is not there and whose index is.
GoneInv == tree = "absent" /\ records # {} => Durable \/ Worse

\* What is known of faults, and of what they leave
FaultInv == TraceInv /\ OrderInv /\ CleanInv /\ SumsInv /\ GoneInv

\* What a fault does not explain is of the step under way, after every step.
LEMMA TraceStep == IInv /\ OwnerInv /\ FaultInv /\ [Next]_vars => TraceInv'
<1> SUFFICES ASSUME IInv, OwnerInv, FaultInv, [Next]_vars PROVE TraceInv' OBVIOUS
<1> USE SlotsAssumption, BoundsAssumption DEF vars, procVars, diskVars, stageVars,
    treeVars, journalVars, payloadVars, sumsVars, sealVars, faultVars, IInv, TypeInv,
    TypeOK, ProcInv, ProcTypeOK, TreeTypeOK, FaultTypeOK, LockInv, FaultInv, TraceInv,
    Faults, Doing, RecordStraysAreNested
<1>1. ASSUME NEW p \in Procs, Begin(p) PROVE TraceInv' BY <1>1 DEF Begin, At, Lock, Taken
<1>2. ASSUME NEW p \in Procs, BuildStage(p) PROVE TraceInv' BY <1>2 DEF BuildStage, Goto, Staging
<1>3. ASSUME NEW p \in Procs, Activate(p) PROVE TraceInv' BY <1>3 DEF Activate, At, Goto, FreshInv
<1>4. ASSUME NEW p \in Procs, ActivateSync(p) PROVE TraceInv' BY <1>4 DEF ActivateSync, At
<1>5. ASSUME NEW p \in Procs, EventCreate(p) PROVE TraceInv' BY <1>5 DEF EventCreate, At, Goto, JournalInv
<1>6. ASSUME NEW p \in Procs, EventWrite(p) PROVE TraceInv' BY <1>6 DEF EventWrite, At, Goto
<1>7. ASSUME NEW p \in Procs, EventRename(p) PROVE TraceInv' BY <1>7 DEF EventRename, At, Goto
<1>8. ASSUME NEW p \in Procs, EventSync(p) PROVE TraceInv' BY <1>8 DEF EventSync, At, Goto
<1>9. ASSUME NEW p \in Procs, StatusCreate(p) PROVE TraceInv' BY <1>9 DEF StatusCreate, At, Goto
<1>10. ASSUME NEW p \in Procs, StatusRename(p) PROVE TraceInv' BY <1>10 DEF StatusRename, At, WritingInv
<1>11. ASSUME NEW p \in Procs, StatusSync(p) PROVE TraceInv'
  BY <1>11 DEF StatusSync, At, Goto, SyncRoot, RootEntries, AfterStatus
<1>12. ASSUME NEW p \in Procs, NEW f \in Paths, LocalCreate(p, f) PROVE TraceInv' BY <1>12 DEF LocalCreate, At
<1>13. ASSUME NEW p \in Procs, LocalRename(p) PROVE TraceInv' BY <1>13 DEF LocalRename, At, Goto
<1>14. ASSUME NEW p \in Procs, LocalSync(p) PROVE TraceInv' BY <1>14 DEF LocalSync, At, Goto
<1>15. ASSUME NEW p \in Procs, WritePortable(p) PROVE TraceInv' BY <1>15 DEF WritePortable, At, Goto
<1>16. ASSUME NEW p \in Procs, NEW o \in {"SUCCESS", "FAILURE"}, Finish(p, o) PROVE TraceInv' BY <1>16 DEF Finish, At
<1>17. ASSUME NEW p \in Procs, Recover(p) PROVE TraceInv' BY <1>17 DEF Recover, At, Lock
<1>18. ASSUME NEW p \in Procs, RefuseEntry(p) PROVE TraceInv'
  BY <1>18 DEF RefuseEntry, At, Refuse, Leave, EntryComplaints
<1>19. ASSUME NEW p \in Procs, UnknownRun(p) PROVE TraceInv' BY <1>19 DEF UnknownRun, At, Leave
<1>20. ASSUME NEW p \in Procs, RecoverFromIndex(p) PROVE TraceInv' BY <1>20 DEF RecoverFromIndex, At, Goto
<1>21. ASSUME NEW p \in Procs, DropEventTemp(p) PROVE TraceInv' BY <1>21 DEF DropEventTemp, At, Entered
<1>22. ASSUME NEW p \in Procs, AdoptOrphan(p) PROVE TraceInv' BY <1>22 DEF AdoptOrphan, At, Entered, Orphan
<1>23. ASSUME NEW p \in Procs, LoadStatus(p) PROVE TraceInv' BY <1>23 DEF LoadStatus, At, Entered, Orphan
<1>24. ASSUME NEW p \in Procs, RefuseChain(p) PROVE TraceInv' BY <1>24 DEF RefuseChain, At, Refuse, Leave
<1>25. ASSUME NEW p \in Procs, CompleteTerminal(p) PROVE TraceInv' BY <1>25 DEF CompleteTerminal, At, Judged, Goto
<1>26. ASSUME NEW p \in Procs, ReportBusy(p) PROVE TraceInv' BY <1>26 DEF ReportBusy, At, Judged, Leave
<1>27. ASSUME NEW p \in Procs, Interrupt(p) PROVE TraceInv' BY <1>27 DEF Interrupt, At, Judged
<1>28. ASSUME NEW p \in Procs, RefuseControl(p) PROVE TraceInv'
  BY <1>28 DEF RefuseControl, At, Refuse, Leave, ControlComplaints
<1>29. ASSUME NEW p \in Procs, ClearControlTemps(p) PROVE TraceInv'
 <2>1. strays \cap RootPaths = {} /\ lock' = p /\ pc'[p] = "portable" /\ p # Nobody
  <3>1. "root temp" \notin ControlComplaints BY <1>29 DEF ClearControlTemps
  <3> QED BY <1>29, <3>1 DEF ClearControlTemps, ControlComplaints, At, Goto
 <2>2. statusTemps' = 0 /\ sumsTemps' = 0 BY <1>29 DEF ClearControlTemps
 <2>3. UNCHANGED <<eventTemp, portable, strays, stage, records, faultVars>> BY <1>29 DEF ClearControlTemps
 <2>4. eventTemp = "none" /\ lock = p /\ pc[p] = "complete" BY <1>29 DEF ClearControlTemps, At, FinalInv
 <2>5. (eventTemp # "none" => Faults >= 1 \/ Doing({"event.write", "event.rename"}))' BY <2>3, <2>4
 <2>6. (portable # "clean" => Faults >= 1 \/ Doing({"portable.fill", "portable.commit"}))' BY <2>3, <2>4
 <2>7. (\A f \in strays : Faults >= 1 \/ (Doing({"local.rename"}) /\ writing[lock] = f))' BY <2>3, <2>4
 <2>8. (stage = "bare" => Faults >= 1 \/ Doing({"stage.describe", "sweep.rmdir"}))' BY <2>3, <2>4
 <2>9. (statusTemps <= Faults)' /\ (sumsTemps <= 1)' BY <2>2, <2>3
 <2>10. (strays \cap RootPaths = {})' /\ RecordStraysAreNested' BY <2>1, <2>3
 <2>11. ~Doing({"sums", "sums.rename", "sums.sync", "record"})' BY <2>1
 <2> QED BY <2>5, <2>6, <2>7, <2>8, <2>9, <2>10, <2>11
<1>30. ASSUME NEW p \in Procs, RefusePortable(p) PROVE TraceInv' BY <1>30 DEF RefusePortable, At, Refuse, Leave
<1>31. ASSUME NEW p \in Procs, ReconcilePortable(p) PROVE TraceInv' BY <1>31 DEF ReconcilePortable, At, Goto
<1>32. ASSUME NEW p \in Procs, RefuseChecksums(p) PROVE TraceInv' BY <1>32 DEF RefuseChecksums, At, Refuse, Leave
<1>33. ASSUME NEW p \in Procs, AcceptChecksums(p) PROVE TraceInv' BY <1>33 DEF AcceptChecksums, At, Goto
<1>34. ASSUME NEW p \in Procs, ChecksumsCreate(p) PROVE TraceInv' BY <1>34 DEF ChecksumsCreate, At, Goto, FinalInv
<1>35. ASSUME NEW p \in Procs, ChecksumsRename(p) PROVE TraceInv' BY <1>35 DEF ChecksumsRename, At, Goto
<1>36. ASSUME NEW p \in Procs, ChecksumsSync(p) PROVE TraceInv'
  BY <1>36 DEF ChecksumsSync, At, Goto, SyncRoot, RootEntries
<1>37. ASSUME NEW p \in Procs, PublishRecord(p) PROVE TraceInv'
 <2>1. lock = p /\ pc[p] = "record" /\ p # Nobody /\ lock' = p /\ pc'[p] = "record.sync"
   BY <1>37 DEF PublishRecord, At, Goto
 <2>2. UNCHANGED <<eventTemp, portable, strays, stage, statusTemps, sumsTemps, faultVars>> BY <1>37 DEF PublishRecord
 <2>3. strays \cap RootPaths = {} /\ portable = "clean" BY <2>1
 <2>4. statusTemps = 0 /\ sumsTemps = 0 /\ eventTemp = "none" /\ strays \subseteq Paths BY <2>1 DEF FinalInv
 <2>5. Payload(sumsTemps).strays = strays /\ ~Payload(sumsTemps).temps
       /\ Payload(sumsTemps).sumsTemps = 0 /\ Payload(sumsTemps).portable = "clean"
   BY <2>3, <2>4 DEF Payload
 <2>6. strays \subseteq NestedPaths BY <2>3, <2>4 DEF Paths
 <2>7. RecordStraysAreNested'
  <3>1. CASE records' = records BY <3>1
  <3>2. CASE records' = {[payload |-> Payload(sumsTemps), sums |-> s] : s \in sums} BY <3>2, <2>5, <2>6
  <3> QED BY <1>37, <3>1, <3>2 DEF PublishRecord
 <2>8. ~Doing({"portable.fill", "portable.commit"}) /\ ~Doing({"local.rename"})
       /\ ~Doing({"stage.describe", "sweep.rmdir"})
   BY <2>1
 <2>9. (stage = "bare" => Faults >= 1)' /\ (\A f \in strays : Faults >= 1)' BY <2>2, <2>8
 <2>10. ~Doing({"portable", "sums", "sums.rename", "sums.sync", "record"})' BY <2>1
 <2>11. ~Doing({"sums", "sums.rename", "sums.sync", "record"})' BY <2>1
 <2>12. (eventTemp = "none")' /\ (portable = "clean")' /\ (statusTemps <= Faults)' /\ (sumsTemps <= 1)'
   BY <2>2, <2>3, <2>4
 <2> QED BY <2>7, <2>9, <2>10, <2>11, <2>12
<1>38. ASSUME NEW p \in Procs, RecordSync(p) PROVE TraceInv' BY <1>38 DEF RecordSync, At, Goto
<1>39. ASSUME NEW p \in Procs, PublishIndex(p) PROVE TraceInv' BY <1>39 DEF PublishIndex, At, Goto
<1>40. ASSUME NEW p \in Procs, IndexSync(p) PROVE TraceInv' BY <1>40 DEF IndexSync, At, Goto
<1>41. ASSUME NEW p \in Procs, FinishFromIndex(p) PROVE TraceInv' BY <1>41 DEF FinishFromIndex, At, Goto
<1>42. ASSUME NEW p \in Procs, Teardown(p) PROVE TraceInv' BY <1>42 DEF Teardown, At, Goto, FreshTree
<1>43. ASSUME NEW p \in Procs, TornDown(p) PROVE TraceInv' BY <1>43 DEF TornDown, At, Leave
<1>44. ASSUME NEW p \in Procs, Rmdir(p) PROVE TraceInv' BY <1>44 DEF Rmdir, At, Goto
<1>45. ASSUME NEW p \in Procs, GoneSync(p) PROVE TraceInv' BY <1>45 DEF GoneSync, At, Leave
<1>46. ASSUME NEW p \in Procs, SweepList(p) PROVE TraceInv' BY <1>46 DEF SweepList, At, Goto
<1>47. ASSUME NEW p \in Procs, SweepLock(p) PROVE TraceInv' BY <1>47 DEF SweepLock, At, Lock, Leave
<1>48. ASSUME NEW p \in Procs, RefuseStage(p) PROVE TraceInv' BY <1>48 DEF RefuseStage, At, Refuse, Leave
<1>49. ASSUME NEW p \in Procs, LeaveLiveStage(p) PROVE TraceInv' BY <1>49 DEF LeaveLiveStage, At, Leave
<1>50. ASSUME NEW p \in Procs, ReclaimStage(p) PROVE TraceInv'
  BY <1>50 DEF ReclaimStage, At, Goto, StageIsTheAllocators
<1>51. ASSUME NEW p \in Procs, RemoveStage(p) PROVE TraceInv' BY <1>51 DEF RemoveStage, At, Leave
<1>52. ASSUME NEW p \in Procs, Exit(p) PROVE TraceInv' BY <1>52 DEF Exit, At
<1>53. ASSUME NEW p \in Procs, Kill(p) PROVE TraceInv' BY <1>53 DEF Kill, At, Leave
<1>54. ASSUME NEW p \in Procs, ErrorInWrite(p) PROVE TraceInv' BY <1>54 DEF ErrorInWrite, At, Goto
<1>55. ASSUME NEW p \in Procs, Error(p) PROVE TraceInv' BY <1>55 DEF Error, At, Leave, Staging
<1>56. ASSUME PowerLoss PROVE TraceInv' BY <1>56 DEF PowerLoss, StageAfter, TreeAfter, FreshTree
<1>57. CASE UNCHANGED vars BY <1>57
<1> HIDE DEF IInv, TypeInv, TypeOK, ProcInv, ProcTypeOK, TreeTypeOK, FaultTypeOK,
    LockInv, FaultInv, TraceInv, Faults, Doing, RecordStraysAreNested
<1> QED BY <1>1, <1>2, <1>3, <1>4, <1>5, <1>6, <1>7, <1>8, <1>9, <1>10, <1>11, <1>12,
     <1>13, <1>14, <1>15, <1>16, <1>17, <1>18, <1>19, <1>20, <1>21, <1>22, <1>23, <1>24,
     <1>25, <1>26, <1>27, <1>28, <1>29, <1>30, <1>31, <1>32, <1>33, <1>34, <1>35, <1>36,
     <1>37, <1>38, <1>39, <1>40, <1>41, <1>42, <1>43, <1>44, <1>45, <1>46, <1>47, <1>48,
     <1>49, <1>50, <1>51, <1>52, <1>53, <1>54, <1>55, <1>56, <1>57
     DEF Next, Allocation, Journal, Session, Recovery, Finalization, Sweep, Fault

\* The history stays legal, and the status one of it, after every step.
LEMMA OrderStep == IInv /\ OwnerInv /\ FaultInv /\ [Next]_vars => OrderInv'
<1> SUFFICES ASSUME IInv, OwnerInv, FaultInv, [Next]_vars PROVE OrderInv' OBVIOUS
<1> USE SlotsAssumption, BoundsAssumption DEF vars, procVars, diskVars, stageVars,
    treeVars, journalVars, payloadVars, sumsVars, sealVars, faultVars, IInv, TypeInv,
    TypeOK, ProcInv, ProcTypeOK, TreeTypeOK, FaultTypeOK, LockInv, FaultInv, OrderInv,
    Faults, Worse, Doing, FreshInv, Status
<1>1. ASSUME NEW p \in Procs, Begin(p) PROVE OrderInv' BY <1>1 DEF Begin, At, Lock, Taken
<1>2. ASSUME NEW p \in Procs, BuildStage(p) PROVE OrderInv' BY <1>2 DEF BuildStage, Goto, Staging
<1>3. ASSUME NEW p \in Procs, Activate(p) PROVE OrderInv' BY <1>3 DEF Activate, At, Goto
<1>4. ASSUME NEW p \in Procs, ActivateSync(p) PROVE OrderInv' BY <1>4 DEF ActivateSync, At, JournalInv
<1>5. ASSUME NEW p \in Procs, EventCreate(p) PROVE OrderInv' BY <1>5 DEF EventCreate, At, Goto, JournalInv
<1>6. ASSUME NEW p \in Procs, EventWrite(p) PROVE OrderInv' BY <1>6 DEF EventWrite, At, Goto
<1>7. ASSUME NEW p \in Procs, EventRename(p) PROVE OrderInv'
 <2>1. lock = p /\ pc[p] = "event.rename" /\ p # Nobody /\ lock' = p /\ pc'[p] = "event.sync"
   BY <1>7 DEF EventRename, At, Goto
 <2>2. ChainOf(events, status) /\ Legal(status.event, writing[p]) /\ writing[p] \in Event
   BY <2>1 DEF JournalInv, ProcInv, WritingInv, Publishing
 <2>3. PICK e \in Event : writing[p] = e BY <2>2
 <2>4. events' = Append(events, e) /\ UNCHANGED <<status, syncedStatus, faultVars>>
       /\ volatile' = volatile \cup {"event"}
   BY <1>7, <2>3 DEF EventRename
 <2>5. ChainOf(Append(events, e), [seq |-> status.seq + 1, event |-> e]) BY <2>2, <2>3, ChainAppend
 <2>6. Len(events) = status.seq /\ Len(events') = status.seq + 1 BY <2>2, <2>4 DEF ChainOf
 <2>7. events'[1] = "ALLOCATED" /\ \A i \in 2 .. Len(events') : Legal(events'[i - 1], events'[i])
   BY <2>4, <2>5 DEF ChainOf
 <2>8. 1 <= syncedStatus.seq /\ syncedStatus.seq <= status.seq /\ status.seq <= Len(events') BY <2>6
 <2>9. \A i \in 1 .. Len(events) : events'[i] = events[i] BY <2>4
 <2>10. events'[status.seq] = status.event /\ events'[syncedStatus.seq] = syncedStatus.event BY <2>8, <2>9, <2>6
 <2>11. "status" \notin volatile \/ Faults >= 1 BY <2>1 DEF CleanInv
 <2>12. "status" \notin volatile => syncedStatus = status OBVIOUS
 <2>13. Len(events') <= syncedStatus.seq + 1 \/ Faults >= 1 BY <2>6, <2>11, <2>12
 <2>14. ~Doing({"status.create", "status.rename"})' /\ ~Doing({"status.sync", "judge"})' BY <2>1
 <2>15. status' = status /\ syncedStatus' = syncedStatus /\ Faults' = Faults BY <2>4
 <2>16. ("event" \in volatile => status.seq < Len(events))' /\ (Len(events) <= status.seq + 1)' BY <2>6, <2>15
 <2>17. ("status" \notin volatile => syncedStatus = status)' BY <2>4, <2>12
 <2> HIDE DEF Doing, Faults
 <2> QED BY <2>7, <2>8, <2>10, <2>13, <2>14, <2>15, <2>16, <2>17
<1>8. ASSUME NEW p \in Procs, EventSync(p) PROVE OrderInv' BY <1>8 DEF EventSync, At, Goto, JournalInv
<1>9. ASSUME NEW p \in Procs, StatusCreate(p) PROVE OrderInv' BY <1>9 DEF StatusCreate, At, Goto, JournalInv
<1>10. ASSUME NEW p \in Procs, StatusRename(p) PROVE OrderInv'
 <2>1. lock = p /\ pc[p] = "status.rename" /\ p # Nobody /\ lock' = p /\ pc'[p] = "status.sync"
   BY <1>10 DEF StatusRename, At
 <2>2. known[p] = status /\ Len(events) > status.seq /\ events[status.seq + 1] = writing[p] BY <2>1 DEF JournalInv
 <2>3. status'.seq = status.seq + 1 /\ status'.event = writing[p] /\ "status" \in volatile'
   BY <1>10, <2>2 DEF StatusRename
 <2>4. UNCHANGED <<events, syncedStatus, faultVars>> /\ volatile' = volatile \cup {"status"} BY <1>10 DEF StatusRename
 <2>5. "event" \notin volatile' BY <2>1, <2>4
 <2>6. ~Doing({"status.create", "status.rename"})' BY <2>1
 <2>7. status'.seq <= Len(events) /\ syncedStatus.seq <= status'.seq
       /\ (Len(events) <= status'.seq \/ Worse)
   BY <2>2, <2>3
 <2>8. events[status'.seq] = status'.event BY <2>2, <2>3
 <2>9. Worse' = Worse /\ Faults' = Faults BY <2>4
 <2> HIDE DEF Doing, Faults, Worse
 <2> QED BY <2>3, <2>4, <2>5, <2>6, <2>7, <2>8, <2>9
<1>11. ASSUME NEW p \in Procs, StatusSync(p) PROVE OrderInv'
  BY <1>11 DEF StatusSync, At, Goto, SyncRoot, RootEntries, AfterStatus, JournalInv
<1>12. ASSUME NEW p \in Procs, NEW f \in Paths, LocalCreate(p, f) PROVE OrderInv'
 <2>1. f \notin {"event", "status"} BY PathsAssumption DEF Entries
 <2>2. UNCHANGED <<events, status, syncedStatus, faultVars>> /\ volatile' = volatile \cup {f} BY <1>12 DEF LocalCreate
 <2>3. ~Doing({"status.create", "status.rename"})' /\ ~Doing({"status.sync", "judge"})' BY <1>12 DEF LocalCreate, At
 <2>4. Worse' = Worse /\ Faults' = Faults BY <2>2
 <2> HIDE DEF Doing, Faults, Worse
 <2> QED BY <2>1, <2>2, <2>3, <2>4
<1>13. ASSUME NEW p \in Procs, LocalRename(p) PROVE OrderInv' BY <1>13 DEF LocalRename, At, Goto
<1>14. ASSUME NEW p \in Procs, LocalSync(p) PROVE OrderInv'
 <2>1. writing[p] \notin {"event", "status"} BY <1>14, PathsAssumption DEF Entries, LocalSync, At, ProcInv, WritingInv
 <2>2. UNCHANGED <<events, status, syncedStatus, faultVars>> /\ volatile' = volatile \ {writing[p]}
   BY <1>14 DEF LocalSync
 <2>3. ~Doing({"status.create", "status.rename"})' /\ ~Doing({"status.sync", "judge"})'
   BY <1>14 DEF LocalSync, At, Goto
 <2>4. Worse' = Worse /\ Faults' = Faults BY <2>2
 <2> HIDE DEF Doing, Faults, Worse
 <2> QED BY <2>1, <2>2, <2>3, <2>4
<1>15. ASSUME NEW p \in Procs, WritePortable(p) PROVE OrderInv' BY <1>15 DEF WritePortable, At, Goto
<1>16. ASSUME NEW p \in Procs, NEW o \in {"SUCCESS", "FAILURE"}, Finish(p, o) PROVE OrderInv' BY <1>16 DEF Finish, At
<1>17. ASSUME NEW p \in Procs, Recover(p) PROVE OrderInv' BY <1>17 DEF Recover, At, Lock
<1>18. ASSUME NEW p \in Procs, RefuseEntry(p) PROVE OrderInv'
  BY <1>18 DEF RefuseEntry, At, Refuse, Leave, EntryComplaints
<1>19. ASSUME NEW p \in Procs, UnknownRun(p) PROVE OrderInv' BY <1>19 DEF UnknownRun, At, Leave
<1>20. ASSUME NEW p \in Procs, RecoverFromIndex(p) PROVE OrderInv' BY <1>20 DEF RecoverFromIndex, At, Goto
<1>21. ASSUME NEW p \in Procs, DropEventTemp(p) PROVE OrderInv' BY <1>21 DEF DropEventTemp, At, Entered
<1>22. ASSUME NEW p \in Procs, AdoptOrphan(p) PROVE OrderInv' BY <1>22 DEF AdoptOrphan, At, Entered, Orphan, JournalInv
<1>23. ASSUME NEW p \in Procs, LoadStatus(p) PROVE OrderInv' BY <1>23 DEF LoadStatus, At, Entered, Orphan
<1>24. ASSUME NEW p \in Procs, RefuseChain(p) PROVE OrderInv' BY <1>24 DEF RefuseChain, At, Refuse, Leave
<1>25. ASSUME NEW p \in Procs, CompleteTerminal(p) PROVE OrderInv' BY <1>25 DEF CompleteTerminal, At, Judged, Goto
<1>26. ASSUME NEW p \in Procs, ReportBusy(p) PROVE OrderInv' BY <1>26 DEF ReportBusy, At, Judged, Leave
<1>27. ASSUME NEW p \in Procs, Interrupt(p) PROVE OrderInv' BY <1>27 DEF Interrupt, At, Judged
<1>28. ASSUME NEW p \in Procs, RefuseControl(p) PROVE OrderInv'
  BY <1>28 DEF RefuseControl, At, Refuse, Leave, ControlComplaints
<1>29. ASSUME NEW p \in Procs, ClearControlTemps(p) PROVE OrderInv'
  BY <1>29 DEF ClearControlTemps, At, Goto, SyncRoot, RootEntries
<1>30. ASSUME NEW p \in Procs, RefusePortable(p) PROVE OrderInv' BY <1>30 DEF RefusePortable, At, Refuse, Leave
<1>31. ASSUME NEW p \in Procs, ReconcilePortable(p) PROVE OrderInv' BY <1>31 DEF ReconcilePortable, At, Goto
<1>32. ASSUME NEW p \in Procs, RefuseChecksums(p) PROVE OrderInv' BY <1>32 DEF RefuseChecksums, At, Refuse, Leave
<1>33. ASSUME NEW p \in Procs, AcceptChecksums(p) PROVE OrderInv' BY <1>33 DEF AcceptChecksums, At, Goto
<1>34. ASSUME NEW p \in Procs, ChecksumsCreate(p) PROVE OrderInv' BY <1>34 DEF ChecksumsCreate, At, Goto
<1>35. ASSUME NEW p \in Procs, ChecksumsRename(p) PROVE OrderInv' BY <1>35 DEF ChecksumsRename, At, Goto
<1>36. ASSUME NEW p \in Procs, ChecksumsSync(p) PROVE OrderInv'
  BY <1>36 DEF ChecksumsSync, At, Goto, SyncRoot, RootEntries
<1>37. ASSUME NEW p \in Procs, PublishRecord(p) PROVE OrderInv' BY <1>37 DEF PublishRecord, At, Goto
<1>38. ASSUME NEW p \in Procs, RecordSync(p) PROVE OrderInv' BY <1>38 DEF RecordSync, At, Goto
<1>39. ASSUME NEW p \in Procs, PublishIndex(p) PROVE OrderInv' BY <1>39 DEF PublishIndex, At, Goto
<1>40. ASSUME NEW p \in Procs, IndexSync(p) PROVE OrderInv' BY <1>40 DEF IndexSync, At, Goto
<1>41. ASSUME NEW p \in Procs, FinishFromIndex(p) PROVE OrderInv' BY <1>41 DEF FinishFromIndex, At, Goto
<1>42. ASSUME NEW p \in Procs, Teardown(p) PROVE OrderInv'
 <2>1. events' = <<"ALLOCATED">> /\ status' = Allocated /\ syncedStatus' = Allocated BY <1>42 DEF Teardown, FreshTree
 <2>2. "event" \notin volatile' BY <1>42 DEF Teardown
 <2>3. ~Doing({"status.sync", "judge"})' BY <1>42 DEF Teardown, Goto, At
 <2>4. Len(events') = 1 /\ events'[1] = "ALLOCATED" /\ status'.seq = 1 /\ status'.event = "ALLOCATED"
   BY <2>1 DEF Allocated
 <2>5. \A i \in 2 .. Len(events') : Legal(events'[i - 1], events'[i]) BY <2>4
 <2> HIDE DEF Doing, Faults, Worse
 <2> QED BY <2>1, <2>2, <2>3, <2>4, <2>5
<1>43. ASSUME NEW p \in Procs, TornDown(p) PROVE OrderInv' BY <1>43 DEF TornDown, At, Leave
<1>44. ASSUME NEW p \in Procs, Rmdir(p) PROVE OrderInv' BY <1>44 DEF Rmdir, At, Goto
<1>45. ASSUME NEW p \in Procs, GoneSync(p) PROVE OrderInv' BY <1>45 DEF GoneSync, At, Leave
<1>46. ASSUME NEW p \in Procs, SweepList(p) PROVE OrderInv' BY <1>46 DEF SweepList, At, Goto
<1>47. ASSUME NEW p \in Procs, SweepLock(p) PROVE OrderInv' BY <1>47 DEF SweepLock, At, Lock, Leave
<1>48. ASSUME NEW p \in Procs, RefuseStage(p) PROVE OrderInv' BY <1>48 DEF RefuseStage, At, Refuse, Leave
<1>49. ASSUME NEW p \in Procs, LeaveLiveStage(p) PROVE OrderInv' BY <1>49 DEF LeaveLiveStage, At, Leave
<1>50. ASSUME NEW p \in Procs, ReclaimStage(p) PROVE OrderInv' BY <1>50 DEF ReclaimStage, At, Goto
<1>51. ASSUME NEW p \in Procs, RemoveStage(p) PROVE OrderInv' BY <1>51 DEF RemoveStage, At, Leave
<1>52. ASSUME NEW p \in Procs, Exit(p) PROVE OrderInv' BY <1>52 DEF Exit, At
<1>53. ASSUME NEW p \in Procs, Kill(p) PROVE OrderInv' BY <1>53 DEF Kill, At, Leave
<1>54. ASSUME NEW p \in Procs, ErrorInWrite(p) PROVE OrderInv' BY <1>54 DEF ErrorInWrite, At, Goto
<1>55. ASSUME NEW p \in Procs, Error(p) PROVE OrderInv'
 <2>1. UNCHANGED <<events, status, syncedStatus, volatile>> BY <1>55 DEF Error
 <2> HIDE DEF RefusalsHaveACause
 <2>2. Faults' = Faults + 1 /\ losses' = losses BY <1>55 DEF Error
 <2>3. Faults' >= 1 /\ (Worse => Worse') BY <2>2
 <2>4. ~Doing({"status.create", "status.rename"})' /\ ~Doing({"status.sync", "judge"})' BY <1>55 DEF Error, Leave
 <2> HIDE DEF Doing, Faults, Worse
 <2> QED BY <2>1, <2>3, <2>4
<1>56. ASSUME PowerLoss PROVE OrderInv'
 <2>1. volatile' = {} /\ lock' = Nobody /\ losses' = losses + 1 /\ UNCHANGED <<kills, errors>> BY <1>56 DEF PowerLoss
 <2>2. PICK lost \in SUBSET volatile : StageAfter(lost) BY <1>56 DEF PowerLoss
 <2>3. ~Doing({"status.create", "status.rename"})' /\ ~Doing({"status.sync", "judge"})' BY <2>1
 <2>4. Faults' >= 1 /\ (Faults >= 1 => Worse') BY <2>1
 <2>5. CASE FreshTree
  <3>1. events' = <<"ALLOCATED">> /\ status' = Allocated /\ syncedStatus' = Allocated BY <2>5 DEF FreshTree
  <3>2. Len(events') = 1 /\ events'[1] = "ALLOCATED" /\ status'.seq = 1 /\ status'.event = "ALLOCATED"
    BY <3>1 DEF Allocated
  <3>3. \A i \in 2 .. Len(events') : Legal(events'[i - 1], events'[i]) BY <3>2
  <3> HIDE DEF Doing, Faults, Worse
  <3> QED BY <2>1, <2>3, <3>1, <3>2, <3>3
 <2>6. CASE TreeAfter(lost)
  <3>1. events' = IF "event" \in lost THEN SubSeq(events, 1, Len(events) - 1) ELSE events BY <2>6 DEF TreeAfter
  <3>2. status' = (IF "status" \in lost THEN syncedStatus ELSE status) /\ syncedStatus' = status' BY <2>6 DEF TreeAfter
  <3>3. "event" \in lost => status.seq < Len(events) OBVIOUS
  <3>4. status.seq <= Len(events') /\ Len(events') <= Len(events)
        /\ \A i \in 1 .. Len(events') : events'[i] = events[i]
   <4>1. CASE "event" \in lost BY <3>1, <3>3, <4>1
   <4>2. CASE "event" \notin lost BY <3>1, <4>2
   <4> QED BY <4>1, <4>2
  <3>5. 1 <= status'.seq /\ status'.seq <= status.seq BY <3>2
  <3>6. events[status'.seq] = status'.event /\ status' \in Status BY <3>2
  <3>7. status'.seq \in 1 .. Len(events') /\ 1 \in 1 .. Len(events') /\ Len(events') \in Nat
   <4>1. events' \in Seq(Event) BY <3>1, ShorterSeq
   <4> QED BY <4>1, <3>4, <3>5, <3>6
  <3>8. events'[status'.seq] = status'.event /\ events'[1] = "ALLOCATED" BY <3>4, <3>6, <3>7
  <3>9. ASSUME NEW i \in 2 .. Len(events') PROVE Legal(events'[i - 1], events'[i])
   <4>1. i \in 2 .. Len(events) /\ i \in 1 .. Len(events') /\ i - 1 \in 1 .. Len(events') BY <3>4, <3>7
   <4> QED BY <3>4, <4>1
  <3>10. Len(events') <= status'.seq + 1 \/ Faults >= 1
   <4>1. Len(events) <= status'.seq + 1 \/ Faults >= 1 BY <3>2
   <4>2. status'.seq \in Nat /\ Len(events) \in Nat BY <3>6
   <4> QED BY <3>4, <3>7, <4>1, <4>2
  <3>11. syncedStatus' = status' /\ syncedStatus'.seq <= status'.seq BY <3>2, <3>7
  <3> HIDE DEF Doing, Faults, Worse
  <3> QED BY <2>1, <2>3, <2>4, <3>7, <3>8, <3>9, <3>10, <3>11
 <2> QED BY <2>2, <2>5, <2>6 DEF StageAfter
<1>57. CASE UNCHANGED vars BY <1>57
<1> HIDE DEF IInv, TypeInv, TypeOK, ProcInv, ProcTypeOK, TreeTypeOK, FaultTypeOK,
    LockInv, FaultInv, OrderInv, Faults, Worse, Doing, FreshInv, Status
<1> QED BY <1>1, <1>2, <1>3, <1>4, <1>5, <1>6, <1>7, <1>8, <1>9, <1>10, <1>11, <1>12,
     <1>13, <1>14, <1>15, <1>16, <1>17, <1>18, <1>19, <1>20, <1>21, <1>22, <1>23, <1>24,
     <1>25, <1>26, <1>27, <1>28, <1>29, <1>30, <1>31, <1>32, <1>33, <1>34, <1>35, <1>36,
     <1>37, <1>38, <1>39, <1>40, <1>41, <1>42, <1>43, <1>44, <1>45, <1>46, <1>47, <1>48,
     <1>49, <1>50, <1>51, <1>52, <1>53, <1>54, <1>55, <1>56, <1>57
     DEF Next, Allocation, Journal, Session, Recovery, Finalization, Sweep, Fault

\* Without a fault nothing else is left to be synced, after every step.
LEMMA CleanStep == IInv /\ OwnerInv /\ FaultInv /\ [Next]_vars => CleanInv'
<1> SUFFICES ASSUME IInv, OwnerInv, FaultInv, [Next]_vars PROVE CleanInv' OBVIOUS
<1> USE SlotsAssumption, BoundsAssumption DEF vars, procVars, diskVars, stageVars,
    treeVars, journalVars, payloadVars, sumsVars, sealVars, faultVars, IInv, TypeInv,
    TypeOK, ProcInv, ProcTypeOK, LockInv, FaultTypeOK, FaultInv, CleanInv, Faults,
    Doing, OwnerInv, Untouched
<1>1. ASSUME NEW p \in Procs, Begin(p) PROVE CleanInv' BY <1>1 DEF Begin, At, Lock, Taken
<1>2. ASSUME NEW p \in Procs, BuildStage(p) PROVE CleanInv' BY <1>2 DEF BuildStage, Goto, Staging
<1>3. ASSUME NEW p \in Procs, Activate(p) PROVE CleanInv'
 <2>1. "active" \notin Paths BY PathsAssumption DEF Entries
 <2> QED BY <1>3, <2>1 DEF Activate, At, Goto
<1>4. ASSUME NEW p \in Procs, ActivateSync(p) PROVE CleanInv' BY <1>4 DEF ActivateSync, At
<1>5. ASSUME NEW p \in Procs, EventCreate(p) PROVE CleanInv' BY <1>5 DEF EventCreate, At, Goto
<1>6. ASSUME NEW p \in Procs, EventWrite(p) PROVE CleanInv' BY <1>6 DEF EventWrite, At, Goto
<1>7. ASSUME NEW p \in Procs, EventRename(p) PROVE CleanInv'
 <2>1. "event" \notin Paths BY PathsAssumption DEF Entries
 <2> QED BY <1>7, <2>1 DEF EventRename, At, Goto
<1>8. ASSUME NEW p \in Procs, EventSync(p) PROVE CleanInv' BY <1>8 DEF EventSync, At, Goto
<1>9. ASSUME NEW p \in Procs, StatusCreate(p) PROVE CleanInv' BY <1>9 DEF StatusCreate, At, Goto
<1>10. ASSUME NEW p \in Procs, StatusRename(p) PROVE CleanInv'
 <2>1. "status" \notin Paths BY PathsAssumption DEF Entries
 <2> QED BY <1>10, <2>1 DEF StatusRename, At
<1>11. ASSUME NEW p \in Procs, StatusSync(p) PROVE CleanInv'
  BY <1>11 DEF StatusSync, At, Goto, SyncRoot, RootEntries, AfterStatus
<1>12. ASSUME NEW p \in Procs, NEW f \in Paths, LocalCreate(p, f) PROVE CleanInv'
 <2>1. f \notin Entries BY PathsAssumption DEF Entries
 <2> QED BY <1>12, <2>1 DEF LocalCreate, At, SessionSteps, Entries
<1>13. ASSUME NEW p \in Procs, LocalRename(p) PROVE CleanInv' BY <1>13 DEF LocalRename, At, Goto, SessionSteps
<1>14. ASSUME NEW p \in Procs, LocalSync(p) PROVE CleanInv' BY <1>14 DEF LocalSync, At, Goto, SessionSteps
<1>15. ASSUME NEW p \in Procs, WritePortable(p) PROVE CleanInv' BY <1>15 DEF WritePortable, At, Goto
<1>16. ASSUME NEW p \in Procs, NEW o \in {"SUCCESS", "FAILURE"}, Finish(p, o) PROVE CleanInv' BY <1>16 DEF Finish, At
<1>17. ASSUME NEW p \in Procs, Recover(p) PROVE CleanInv' BY <1>17 DEF Recover, At, Lock
<1>18. ASSUME NEW p \in Procs, RefuseEntry(p) PROVE CleanInv'
  BY <1>18 DEF RefuseEntry, At, Refuse, Leave, EntryComplaints
<1>19. ASSUME NEW p \in Procs, UnknownRun(p) PROVE CleanInv' BY <1>19 DEF UnknownRun, At, Leave
<1>20. ASSUME NEW p \in Procs, RecoverFromIndex(p) PROVE CleanInv' BY <1>20 DEF RecoverFromIndex, At, Goto
<1>21. ASSUME NEW p \in Procs, DropEventTemp(p) PROVE CleanInv' BY <1>21 DEF DropEventTemp, At, Entered
<1>22. ASSUME NEW p \in Procs, AdoptOrphan(p) PROVE CleanInv' BY <1>22 DEF AdoptOrphan, At, Entered, Orphan
<1>23. ASSUME NEW p \in Procs, LoadStatus(p) PROVE CleanInv' BY <1>23 DEF LoadStatus, At, Entered, Orphan
<1>24. ASSUME NEW p \in Procs, RefuseChain(p) PROVE CleanInv' BY <1>24 DEF RefuseChain, At, Refuse, Leave
<1>25. ASSUME NEW p \in Procs, CompleteTerminal(p) PROVE CleanInv' BY <1>25 DEF CompleteTerminal, At, Judged, Goto
<1>26. ASSUME NEW p \in Procs, ReportBusy(p) PROVE CleanInv' BY <1>26 DEF ReportBusy, At, Judged, Leave
<1>27. ASSUME NEW p \in Procs, Interrupt(p) PROVE CleanInv' BY <1>27 DEF Interrupt, At, Judged
<1>28. ASSUME NEW p \in Procs, RefuseControl(p) PROVE CleanInv'
  BY <1>28 DEF RefuseControl, At, Refuse, Leave, ControlComplaints
<1>29. ASSUME NEW p \in Procs, ClearControlTemps(p) PROVE CleanInv'
  BY <1>29 DEF ClearControlTemps, At, Goto, SyncRoot, RootEntries
<1>30. ASSUME NEW p \in Procs, RefusePortable(p) PROVE CleanInv' BY <1>30 DEF RefusePortable, At, Refuse, Leave
<1>31. ASSUME NEW p \in Procs, ReconcilePortable(p) PROVE CleanInv' BY <1>31 DEF ReconcilePortable, At, Goto
<1>32. ASSUME NEW p \in Procs, RefuseChecksums(p) PROVE CleanInv' BY <1>32 DEF RefuseChecksums, At, Refuse, Leave
<1>33. ASSUME NEW p \in Procs, AcceptChecksums(p) PROVE CleanInv' BY <1>33 DEF AcceptChecksums, At, Goto
<1>34. ASSUME NEW p \in Procs, ChecksumsCreate(p) PROVE CleanInv' BY <1>34 DEF ChecksumsCreate, At, Goto
<1>35. ASSUME NEW p \in Procs, ChecksumsRename(p) PROVE CleanInv'
 <2>1. "sums" \notin Paths BY PathsAssumption DEF Entries
 <2> QED BY <1>35, <2>1 DEF ChecksumsRename, At, Goto
<1>36. ASSUME NEW p \in Procs, ChecksumsSync(p) PROVE CleanInv'
  BY <1>36 DEF ChecksumsSync, At, Goto, SyncRoot, RootEntries
<1>37. ASSUME NEW p \in Procs, PublishRecord(p) PROVE CleanInv'
 <2>1. "record" \notin Paths BY PathsAssumption DEF Entries
 <2> QED BY <1>37, <2>1 DEF PublishRecord, At, Goto
<1>38. ASSUME NEW p \in Procs, RecordSync(p) PROVE CleanInv' BY <1>38 DEF RecordSync, At, Goto
<1>39. ASSUME NEW p \in Procs, PublishIndex(p) PROVE CleanInv'
 <2>1. "index" \notin Paths BY PathsAssumption DEF Entries
 <2> QED BY <1>39, <2>1 DEF PublishIndex, At, Goto
<1>40. ASSUME NEW p \in Procs, IndexSync(p) PROVE CleanInv' BY <1>40 DEF IndexSync, At, Goto
<1>41. ASSUME NEW p \in Procs, FinishFromIndex(p) PROVE CleanInv' BY <1>41 DEF FinishFromIndex, At, Goto
<1>42. ASSUME NEW p \in Procs, Teardown(p) PROVE CleanInv' BY <1>42 DEF Teardown, At, Goto, FreshTree
<1>43. ASSUME NEW p \in Procs, TornDown(p) PROVE CleanInv' BY <1>43 DEF TornDown, At, Leave
<1>44. ASSUME NEW p \in Procs, Rmdir(p) PROVE CleanInv'
 <2>1. "gone" \notin Paths BY PathsAssumption DEF Entries
 <2> QED BY <1>44, <2>1 DEF Rmdir, At, Goto
<1>45. ASSUME NEW p \in Procs, GoneSync(p) PROVE CleanInv' BY <1>45 DEF GoneSync, At, Leave
<1>46. ASSUME NEW p \in Procs, SweepList(p) PROVE CleanInv' BY <1>46 DEF SweepList, At, Goto
<1>47. ASSUME NEW p \in Procs, SweepLock(p) PROVE CleanInv' BY <1>47 DEF SweepLock, At, Lock, Leave
<1>48. ASSUME NEW p \in Procs, RefuseStage(p) PROVE CleanInv' BY <1>48 DEF RefuseStage, At, Refuse, Leave
<1>49. ASSUME NEW p \in Procs, LeaveLiveStage(p) PROVE CleanInv' BY <1>49 DEF LeaveLiveStage, At, Leave
<1>50. ASSUME NEW p \in Procs, ReclaimStage(p) PROVE CleanInv' BY <1>50 DEF ReclaimStage, At, Goto
<1>51. ASSUME NEW p \in Procs, RemoveStage(p) PROVE CleanInv' BY <1>51 DEF RemoveStage, At, Leave
<1>52. ASSUME NEW p \in Procs, Exit(p) PROVE CleanInv' BY <1>52 DEF Exit, At
<1>53. ASSUME NEW p \in Procs, Kill(p) PROVE CleanInv' BY <1>53 DEF Kill, At, Leave
<1>54. ASSUME NEW p \in Procs, ErrorInWrite(p) PROVE CleanInv' BY <1>54 DEF ErrorInWrite, At, Goto
<1>55. ASSUME NEW p \in Procs, Error(p) PROVE CleanInv' BY <1>55 DEF Error, At, Leave, Staging
<1>56. ASSUME PowerLoss PROVE CleanInv' BY <1>56 DEF PowerLoss, StageAfter, TreeAfter, FreshTree
<1>57. CASE UNCHANGED vars BY <1>57
<1> HIDE DEF IInv, TypeInv, TypeOK, ProcInv, ProcTypeOK, LockInv, FaultTypeOK, FaultInv,
    CleanInv, Faults, Doing, OwnerInv, Untouched
<1> QED BY <1>1, <1>2, <1>3, <1>4, <1>5, <1>6, <1>7, <1>8, <1>9, <1>10, <1>11, <1>12,
     <1>13, <1>14, <1>15, <1>16, <1>17, <1>18, <1>19, <1>20, <1>21, <1>22, <1>23, <1>24,
     <1>25, <1>26, <1>27, <1>28, <1>29, <1>30, <1>31, <1>32, <1>33, <1>34, <1>35, <1>36,
     <1>37, <1>38, <1>39, <1>40, <1>41, <1>42, <1>43, <1>44, <1>45, <1>46, <1>47, <1>48,
     <1>49, <1>50, <1>51, <1>52, <1>53, <1>54, <1>55, <1>56, <1>57
     DEF Next, Allocation, Journal, Session, Recovery, Finalization, Sweep, Fault

\* The checksums stay those of the tree, after every step.
LEMMA SumsStep == IInv /\ OwnerInv /\ FaultInv /\ [Next]_vars => SumsInv'
<1> SUFFICES ASSUME IInv, OwnerInv, FaultInv, [Next]_vars PROVE SumsInv' OBVIOUS
<1> USE SlotsAssumption, BoundsAssumption DEF vars, procVars, diskVars, stageVars,
    treeVars, journalVars, payloadVars, sumsVars, sealVars, faultVars, IInv, TypeInv,
    TypeOK, ProcInv, ProcTypeOK, TreeTypeOK, LockInv, FaultTypeOK, FaultInv, SumsInv,
    Faults, Worse, Doing, OwnerInv, Untouched, Payload
<1>1. ASSUME NEW p \in Procs, Begin(p) PROVE SumsInv' BY <1>1 DEF Begin, At, Lock, Taken
<1>2. ASSUME NEW p \in Procs, BuildStage(p) PROVE SumsInv' BY <1>2 DEF BuildStage, Goto, Staging
<1>3. ASSUME NEW p \in Procs, Activate(p) PROVE SumsInv' BY <1>3 DEF Activate, At, Goto
<1>4. ASSUME NEW p \in Procs, ActivateSync(p) PROVE SumsInv' BY <1>4 DEF ActivateSync, At
<1>5. ASSUME NEW p \in Procs, EventCreate(p) PROVE SumsInv'
 <2>1. lock = p /\ pc[p] = "event.create" /\ p # Nobody BY <1>5 DEF EventCreate, At
 <2>2. tree = "live" /\ Legal(status.event, writing[p]) BY <2>1 DEF JournalInv
 <2>3. ~Terminal(status.event) BY <2>2 DEF Legal, Terminal, Outcomes
 <2>4. sums = {} \/ Worse BY <2>2, <2>3
 <2> QED BY <1>5, <2>4 DEF EventCreate
<1>6. ASSUME NEW p \in Procs, EventWrite(p) PROVE SumsInv'
  BY <1>6 DEF EventWrite, At, Goto, JournalInv, ChainOf, Legal, Terminal, SessionSteps
<1>7. ASSUME NEW p \in Procs, EventRename(p) PROVE SumsInv'
  BY <1>7 DEF EventRename, At, Goto, JournalInv, ChainOf, Legal, Terminal, SessionSteps
<1>8. ASSUME NEW p \in Procs, EventSync(p) PROVE SumsInv'
  BY <1>8 DEF EventSync, At, Goto, JournalInv, ChainOf, Legal, Terminal, SessionSteps
<1>9. ASSUME NEW p \in Procs, StatusCreate(p) PROVE SumsInv'
  BY <1>9 DEF StatusCreate, At, Goto, JournalInv, ChainOf, Legal, Terminal, SessionSteps
<1>10. ASSUME NEW p \in Procs, StatusRename(p) PROVE SumsInv'
  BY <1>10 DEF StatusRename, At, JournalInv, ChainOf, Legal, Terminal, SessionSteps
<1>11. ASSUME NEW p \in Procs, StatusSync(p) PROVE SumsInv'
  BY <1>11 DEF StatusSync, At, Goto, SyncRoot, RootEntries, AfterStatus, JournalInv, ChainOf, Legal, Terminal,
    SessionSteps
<1>12. ASSUME NEW p \in Procs, NEW f \in Paths, LocalCreate(p, f) PROVE SumsInv'
  BY <1>12 DEF LocalCreate, At, JournalInv, ChainOf, Legal, Terminal, SessionSteps
<1>13. ASSUME NEW p \in Procs, LocalRename(p) PROVE SumsInv'
  BY <1>13 DEF LocalRename, At, Goto, JournalInv, ChainOf, Legal, Terminal, SessionSteps
<1>14. ASSUME NEW p \in Procs, LocalSync(p) PROVE SumsInv'
  BY <1>14 DEF LocalSync, At, Goto, JournalInv, ChainOf, Legal, Terminal, SessionSteps
<1>15. ASSUME NEW p \in Procs, WritePortable(p) PROVE SumsInv'
  BY <1>15 DEF WritePortable, At, Goto, JournalInv, ChainOf, Legal, Terminal, SessionSteps
<1>16. ASSUME NEW p \in Procs, NEW o \in {"SUCCESS", "FAILURE"}, Finish(p, o) PROVE SumsInv'
  BY <1>16 DEF Finish, At, JournalInv, ChainOf, Legal, Terminal, SessionSteps
<1>17. ASSUME NEW p \in Procs, Recover(p) PROVE SumsInv' BY <1>17 DEF Recover, At, Lock
<1>18. ASSUME NEW p \in Procs, RefuseEntry(p) PROVE SumsInv'
  BY <1>18 DEF RefuseEntry, At, Refuse, Leave, EntryComplaints
<1>19. ASSUME NEW p \in Procs, UnknownRun(p) PROVE SumsInv' BY <1>19 DEF UnknownRun, At, Leave
<1>20. ASSUME NEW p \in Procs, RecoverFromIndex(p) PROVE SumsInv' BY <1>20 DEF RecoverFromIndex, At, Goto
<1>21. ASSUME NEW p \in Procs, DropEventTemp(p) PROVE SumsInv' BY <1>21 DEF DropEventTemp, At, Entered
<1>22. ASSUME NEW p \in Procs, AdoptOrphan(p) PROVE SumsInv' BY <1>22 DEF AdoptOrphan, At, Entered, Orphan
<1>23. ASSUME NEW p \in Procs, LoadStatus(p) PROVE SumsInv' BY <1>23 DEF LoadStatus, At, Entered, Orphan
<1>24. ASSUME NEW p \in Procs, RefuseChain(p) PROVE SumsInv' BY <1>24 DEF RefuseChain, At, Refuse, Leave
<1>25. ASSUME NEW p \in Procs, CompleteTerminal(p) PROVE SumsInv' BY <1>25 DEF CompleteTerminal, At, Judged, Goto
<1>26. ASSUME NEW p \in Procs, ReportBusy(p) PROVE SumsInv' BY <1>26 DEF ReportBusy, At, Judged, Leave
<1>27. ASSUME NEW p \in Procs, Interrupt(p) PROVE SumsInv' BY <1>27 DEF Interrupt, At, Judged
<1>28. ASSUME NEW p \in Procs, RefuseControl(p) PROVE SumsInv'
  BY <1>28 DEF RefuseControl, At, Refuse, Leave, ControlComplaints
<1>29. ASSUME NEW p \in Procs, ClearControlTemps(p) PROVE SumsInv'
  BY <1>29 DEF ClearControlTemps, At, Goto, SyncRoot, RootEntries
<1>30. ASSUME NEW p \in Procs, RefusePortable(p) PROVE SumsInv' BY <1>30 DEF RefusePortable, At, Refuse, Leave
<1>31. ASSUME NEW p \in Procs, ReconcilePortable(p) PROVE SumsInv' BY <1>31 DEF ReconcilePortable, At, Goto
<1>32. ASSUME NEW p \in Procs, RefuseChecksums(p) PROVE SumsInv' BY <1>32 DEF RefuseChecksums, At, Refuse, Leave
<1>33. ASSUME NEW p \in Procs, AcceptChecksums(p) PROVE SumsInv' BY <1>33 DEF AcceptChecksums, At, Goto
<1>34. ASSUME NEW p \in Procs, ChecksumsCreate(p) PROVE SumsInv' BY <1>34 DEF ChecksumsCreate, At, Goto
<1>35. ASSUME NEW p \in Procs, ChecksumsRename(p) PROVE SumsInv'
 <2>1. lock = p /\ pc[p] = "sums.rename" /\ p # Nobody BY <1>35 DEF ChecksumsRename, At
 <2>2. sums' = {Payload(sumsTemps - 1)} /\ sumsTemps - 1 = 0 BY <1>35, <2>1 DEF ChecksumsRename, FinalInv
 <2>3. statusTemps = 0 /\ eventTemp = "none" /\ ChainOf(events, status) /\ Terminal(status.event) BY <2>1 DEF FinalInv
 <2>4. portable = "clean" BY <2>1 DEF TraceInv
 <2>5. UNCHANGED <<events, status, statusTemps, eventTemp, files, strays, portable>> BY <1>35 DEF ChecksumsRename
 <2> QED BY <2>2, <2>3, <2>4, <2>5 DEF ChainOf, Legal, Terminal
<1>36. ASSUME NEW p \in Procs, ChecksumsSync(p) PROVE SumsInv'
  BY <1>36 DEF ChecksumsSync, At, Goto, SyncRoot, RootEntries
<1>37. ASSUME NEW p \in Procs, PublishRecord(p) PROVE SumsInv' BY <1>37 DEF PublishRecord, At, Goto
<1>38. ASSUME NEW p \in Procs, RecordSync(p) PROVE SumsInv' BY <1>38 DEF RecordSync, At, Goto
<1>39. ASSUME NEW p \in Procs, PublishIndex(p) PROVE SumsInv' BY <1>39 DEF PublishIndex, At, Goto
<1>40. ASSUME NEW p \in Procs, IndexSync(p) PROVE SumsInv' BY <1>40 DEF IndexSync, At, Goto
<1>41. ASSUME NEW p \in Procs, FinishFromIndex(p) PROVE SumsInv' BY <1>41 DEF FinishFromIndex, At, Goto
<1>42. ASSUME NEW p \in Procs, Teardown(p) PROVE SumsInv' BY <1>42 DEF Teardown, At, Goto, FreshTree
<1>43. ASSUME NEW p \in Procs, TornDown(p) PROVE SumsInv' BY <1>43 DEF TornDown, At, Leave
<1>44. ASSUME NEW p \in Procs, Rmdir(p) PROVE SumsInv' BY <1>44 DEF Rmdir, At, Goto
<1>45. ASSUME NEW p \in Procs, GoneSync(p) PROVE SumsInv' BY <1>45 DEF GoneSync, At, Leave
<1>46. ASSUME NEW p \in Procs, SweepList(p) PROVE SumsInv' BY <1>46 DEF SweepList, At, Goto
<1>47. ASSUME NEW p \in Procs, SweepLock(p) PROVE SumsInv' BY <1>47 DEF SweepLock, At, Lock, Leave
<1>48. ASSUME NEW p \in Procs, RefuseStage(p) PROVE SumsInv' BY <1>48 DEF RefuseStage, At, Refuse, Leave
<1>49. ASSUME NEW p \in Procs, LeaveLiveStage(p) PROVE SumsInv' BY <1>49 DEF LeaveLiveStage, At, Leave
<1>50. ASSUME NEW p \in Procs, ReclaimStage(p) PROVE SumsInv' BY <1>50 DEF ReclaimStage, At, Goto
<1>51. ASSUME NEW p \in Procs, RemoveStage(p) PROVE SumsInv' BY <1>51 DEF RemoveStage, At, Leave
<1>52. ASSUME NEW p \in Procs, Exit(p) PROVE SumsInv' BY <1>52 DEF Exit, At
<1>53. ASSUME NEW p \in Procs, Kill(p) PROVE SumsInv' BY <1>53 DEF Kill, At, Leave
<1>54. ASSUME NEW p \in Procs, ErrorInWrite(p) PROVE SumsInv'
  BY <1>54 DEF ErrorInWrite, At, Goto, JournalInv, ChainOf, Legal, Terminal, SessionSteps
<1>55. ASSUME NEW p \in Procs, Error(p) PROVE SumsInv'
 <2>1. (Worse => Worse') /\ UNCHANGED <<tree, events, status, files, strays, portable, sums>> BY <1>55 DEF Error
 <2>2. SUFFICES ASSUME tree = "live", sums # {}, ~Worse PROVE SumsInv' BY <2>1
 <2>3. sums = {Payload(0)} /\ statusTemps = 0 /\ eventTemp = "none" /\ portable = "clean"
       /\ Terminal(status.event) /\ ChainOf(events, status)
   BY <2>2
 <2>4. eventTemp' = "none" BY <1>55, <2>3 DEF Error
 <2>5. pc[p] = "status.rename" => statusTemps > 0 BY DEF WritingInv
 <2>6. statusTemps' = 0 BY <1>55, <2>3, <2>5 DEF Error, At
 <2> QED BY <2>1, <2>3, <2>4, <2>6 DEF ChainOf, Legal, Terminal
<1>56. ASSUME PowerLoss PROVE SumsInv'
 <2>1. losses' = losses + 1 /\ UNCHANGED <<kills, errors>> BY <1>56 DEF PowerLoss
 <2>2. PICK lost \in SUBSET volatile : StageAfter(lost) BY <1>56 DEF PowerLoss
 <2>3. Faults >= 1 => Worse' BY <2>1
 <2>4. CASE FreshTree BY <2>4 DEF FreshTree
 <2>5. CASE TreeAfter(lost) /\ Faults = 0 /\ tree' = "live" /\ sums' # {}
  <3>1. tree = "live" /\ sums' = sums BY <2>5 DEF TreeAfter
  <3>2. Doing({"sums.sync", "record", "record.sync", "index", "index.sync", "teardown"}) BY <2>5, <3>1 DEF CleanInv
  <3>3. "status" \notin lost /\ "event" \notin lost /\ lost \cap Paths = {} BY <2>5, <3>2 DEF CleanInv
  <3>4. files \subseteq Paths /\ strays \subseteq Paths BY DEF TreeTypeOK
  <3>5. UNCHANGED <<events, status, files, strays>> BY <2>5, <3>3, <3>4 DEF TreeAfter
  <3>6. sums = {Payload(0)} /\ statusTemps = 0 /\ eventTemp = "none" /\ portable = "clean"
        /\ Terminal(status.event) /\ ChainOf(events, status)
    BY <2>5, <3>1
  <3>7. statusTemps' = 0 /\ eventTemp' = "none" /\ portable' = "clean" BY <2>5, <3>6 DEF TreeAfter
  <3> QED BY <3>1, <3>5, <3>6, <3>7 DEF ChainOf, Legal, Terminal
 <2>6. Faults \in Nat OBVIOUS
 <2> QED BY <2>2, <2>3, <2>4, <2>5, <2>6 DEF StageAfter
<1>57. CASE UNCHANGED vars BY <1>57
<1> HIDE DEF IInv, TypeInv, TypeOK, ProcInv, ProcTypeOK, TreeTypeOK, LockInv,
    FaultTypeOK, FaultInv, SumsInv, Faults, Worse, Doing, OwnerInv, Untouched, Payload
<1> QED BY <1>1, <1>2, <1>3, <1>4, <1>5, <1>6, <1>7, <1>8, <1>9, <1>10, <1>11, <1>12,
     <1>13, <1>14, <1>15, <1>16, <1>17, <1>18, <1>19, <1>20, <1>21, <1>22, <1>23, <1>24,
     <1>25, <1>26, <1>27, <1>28, <1>29, <1>30, <1>31, <1>32, <1>33, <1>34, <1>35, <1>36,
     <1>37, <1>38, <1>39, <1>40, <1>41, <1>42, <1>43, <1>44, <1>45, <1>46, <1>47, <1>48,
     <1>49, <1>50, <1>51, <1>52, <1>53, <1>54, <1>55, <1>56, <1>57
     DEF Next, Allocation, Journal, Session, Recovery, Finalization, Sweep, Fault

\* A record outlives its tree with its index, after every step.
LEMMA GoneStep == IInv /\ OwnerInv /\ FaultInv /\ [Next]_vars => GoneInv'
<1> SUFFICES ASSUME IInv, OwnerInv, FaultInv, [Next]_vars PROVE GoneInv' OBVIOUS
<1> USE SlotsAssumption, BoundsAssumption DEF vars, procVars, diskVars, stageVars,
    treeVars, journalVars, payloadVars, sumsVars, sealVars, faultVars, IInv, TypeInv,
    TypeOK, ProcInv, ProcTypeOK, LockInv, FaultTypeOK, FaultInv, GoneInv, Faults, Worse,
    Doing, Durable, SealInv, Untouched
<1>1. ASSUME NEW p \in Procs, Begin(p) PROVE GoneInv' BY <1>1 DEF Begin, At, Lock, Taken
<1>2. ASSUME NEW p \in Procs, BuildStage(p) PROVE GoneInv' BY <1>2 DEF BuildStage, Goto, Staging
<1>3. ASSUME NEW p \in Procs, Activate(p) PROVE GoneInv' BY <1>3 DEF Activate, At, Goto
<1>4. ASSUME NEW p \in Procs, ActivateSync(p) PROVE GoneInv' BY <1>4 DEF ActivateSync, At
<1>5. ASSUME NEW p \in Procs, EventCreate(p) PROVE GoneInv' BY <1>5 DEF EventCreate, At, Goto
<1>6. ASSUME NEW p \in Procs, EventWrite(p) PROVE GoneInv' BY <1>6 DEF EventWrite, At, Goto
<1>7. ASSUME NEW p \in Procs, EventRename(p) PROVE GoneInv' BY <1>7 DEF EventRename, At, Goto
<1>8. ASSUME NEW p \in Procs, EventSync(p) PROVE GoneInv' BY <1>8 DEF EventSync, At, Goto
<1>9. ASSUME NEW p \in Procs, StatusCreate(p) PROVE GoneInv' BY <1>9 DEF StatusCreate, At, Goto
<1>10. ASSUME NEW p \in Procs, StatusRename(p) PROVE GoneInv' BY <1>10 DEF StatusRename, At
<1>11. ASSUME NEW p \in Procs, StatusSync(p) PROVE GoneInv'
  BY <1>11 DEF StatusSync, At, Goto, SyncRoot, RootEntries, AfterStatus
<1>12. ASSUME NEW p \in Procs, NEW f \in Paths, LocalCreate(p, f) PROVE GoneInv'
 <2>1. tree' # "absent" BY <1>12 DEF LocalCreate, At, JournalInv
 <2> QED BY <2>1
<1>13. ASSUME NEW p \in Procs, LocalRename(p) PROVE GoneInv' BY <1>13 DEF LocalRename, At, Goto
<1>14. ASSUME NEW p \in Procs, LocalSync(p) PROVE GoneInv' BY <1>14 DEF LocalSync, At, Goto
<1>15. ASSUME NEW p \in Procs, WritePortable(p) PROVE GoneInv' BY <1>15 DEF WritePortable, At, Goto
<1>16. ASSUME NEW p \in Procs, NEW o \in {"SUCCESS", "FAILURE"}, Finish(p, o) PROVE GoneInv' BY <1>16 DEF Finish, At
<1>17. ASSUME NEW p \in Procs, Recover(p) PROVE GoneInv' BY <1>17 DEF Recover, At, Lock
<1>18. ASSUME NEW p \in Procs, RefuseEntry(p) PROVE GoneInv'
  BY <1>18 DEF RefuseEntry, At, Refuse, Leave, EntryComplaints
<1>19. ASSUME NEW p \in Procs, UnknownRun(p) PROVE GoneInv' BY <1>19 DEF UnknownRun, At, Leave
<1>20. ASSUME NEW p \in Procs, RecoverFromIndex(p) PROVE GoneInv' BY <1>20 DEF RecoverFromIndex, At, Goto
<1>21. ASSUME NEW p \in Procs, DropEventTemp(p) PROVE GoneInv' BY <1>21 DEF DropEventTemp, At, Entered
<1>22. ASSUME NEW p \in Procs, AdoptOrphan(p) PROVE GoneInv' BY <1>22 DEF AdoptOrphan, At, Entered, Orphan
<1>23. ASSUME NEW p \in Procs, LoadStatus(p) PROVE GoneInv' BY <1>23 DEF LoadStatus, At, Entered, Orphan
<1>24. ASSUME NEW p \in Procs, RefuseChain(p) PROVE GoneInv' BY <1>24 DEF RefuseChain, At, Refuse, Leave
<1>25. ASSUME NEW p \in Procs, CompleteTerminal(p) PROVE GoneInv' BY <1>25 DEF CompleteTerminal, At, Judged, Goto
<1>26. ASSUME NEW p \in Procs, ReportBusy(p) PROVE GoneInv' BY <1>26 DEF ReportBusy, At, Judged, Leave
<1>27. ASSUME NEW p \in Procs, Interrupt(p) PROVE GoneInv' BY <1>27 DEF Interrupt, At, Judged
<1>28. ASSUME NEW p \in Procs, RefuseControl(p) PROVE GoneInv'
  BY <1>28 DEF RefuseControl, At, Refuse, Leave, ControlComplaints
<1>29. ASSUME NEW p \in Procs, ClearControlTemps(p) PROVE GoneInv'
  BY <1>29 DEF ClearControlTemps, At, Goto, SyncRoot, RootEntries
<1>30. ASSUME NEW p \in Procs, RefusePortable(p) PROVE GoneInv' BY <1>30 DEF RefusePortable, At, Refuse, Leave
<1>31. ASSUME NEW p \in Procs, ReconcilePortable(p) PROVE GoneInv' BY <1>31 DEF ReconcilePortable, At, Goto
<1>32. ASSUME NEW p \in Procs, RefuseChecksums(p) PROVE GoneInv' BY <1>32 DEF RefuseChecksums, At, Refuse, Leave
<1>33. ASSUME NEW p \in Procs, AcceptChecksums(p) PROVE GoneInv' BY <1>33 DEF AcceptChecksums, At, Goto
<1>34. ASSUME NEW p \in Procs, ChecksumsCreate(p) PROVE GoneInv' BY <1>34 DEF ChecksumsCreate, At, Goto
<1>35. ASSUME NEW p \in Procs, ChecksumsRename(p) PROVE GoneInv' BY <1>35 DEF ChecksumsRename, At, Goto
<1>36. ASSUME NEW p \in Procs, ChecksumsSync(p) PROVE GoneInv'
  BY <1>36 DEF ChecksumsSync, At, Goto, SyncRoot, RootEntries
<1>37. ASSUME NEW p \in Procs, PublishRecord(p) PROVE GoneInv'
 <2>1. tree' # "absent" BY <1>37 DEF PublishRecord, At, FinalInv
 <2> QED BY <2>1
<1>38. ASSUME NEW p \in Procs, RecordSync(p) PROVE GoneInv' BY <1>38 DEF RecordSync, At, Goto
<1>39. ASSUME NEW p \in Procs, PublishIndex(p) PROVE GoneInv'
 <2>1. tree' # "absent" BY <1>39 DEF PublishIndex, At, FinalInv
 <2> QED BY <2>1
<1>40. ASSUME NEW p \in Procs, IndexSync(p) PROVE GoneInv' BY <1>40 DEF IndexSync, At, Goto
<1>41. ASSUME NEW p \in Procs, FinishFromIndex(p) PROVE GoneInv' BY <1>41 DEF FinishFromIndex, At, Goto
<1>42. ASSUME NEW p \in Procs, Teardown(p) PROVE GoneInv' BY <1>42 DEF Teardown, At, Goto, FreshTree
<1>43. ASSUME NEW p \in Procs, TornDown(p) PROVE GoneInv' BY <1>43 DEF TornDown, At, Leave
<1>44. ASSUME NEW p \in Procs, Rmdir(p) PROVE GoneInv' BY <1>44 DEF Rmdir, At, Goto
<1>45. ASSUME NEW p \in Procs, GoneSync(p) PROVE GoneInv' BY <1>45 DEF GoneSync, At, Leave
<1>46. ASSUME NEW p \in Procs, SweepList(p) PROVE GoneInv' BY <1>46 DEF SweepList, At, Goto
<1>47. ASSUME NEW p \in Procs, SweepLock(p) PROVE GoneInv' BY <1>47 DEF SweepLock, At, Lock, Leave
<1>48. ASSUME NEW p \in Procs, RefuseStage(p) PROVE GoneInv' BY <1>48 DEF RefuseStage, At, Refuse, Leave
<1>49. ASSUME NEW p \in Procs, LeaveLiveStage(p) PROVE GoneInv' BY <1>49 DEF LeaveLiveStage, At, Leave
<1>50. ASSUME NEW p \in Procs, ReclaimStage(p) PROVE GoneInv' BY <1>50 DEF ReclaimStage, At, Goto
<1>51. ASSUME NEW p \in Procs, RemoveStage(p) PROVE GoneInv' BY <1>51 DEF RemoveStage, At, Leave
<1>52. ASSUME NEW p \in Procs, Exit(p) PROVE GoneInv' BY <1>52 DEF Exit, At
<1>53. ASSUME NEW p \in Procs, Kill(p) PROVE GoneInv' BY <1>53 DEF Kill, At, Leave
<1>54. ASSUME NEW p \in Procs, ErrorInWrite(p) PROVE GoneInv' BY <1>54 DEF ErrorInWrite, At, Goto
<1>55. ASSUME NEW p \in Procs, Error(p) PROVE GoneInv' BY <1>55 DEF Error, At, Leave, Staging
<1>56. ASSUME PowerLoss PROVE GoneInv'
 <2>1. losses' = losses + 1 /\ volatile' = {} /\ UNCHANGED <<kills, errors>> BY <1>56 DEF PowerLoss
 <2>2. PICK lost \in SUBSET volatile :
          /\ StageAfter(lost)
          /\ records' = IF "record" \in lost THEN {} ELSE records
          /\ indexes' = IF "index" \in lost THEN {} ELSE indexes
   BY <1>56 DEF PowerLoss
 <2>3. Faults >= 1 => Worse' BY <2>1
 <2>4. CASE Faults = 0 /\ "active" \in lost /\ (tree # "absent" \/ "gone" \in lost)
  <3>1. Doing({"stage.sync"}) BY <2>4 DEF CleanInv
  <3>2. records = {} BY <3>1 DEF OwnerInv
  <3> QED BY <2>2, <3>2
 <2>5. CASE Faults = 0 /\ TreeAfter(lost) /\ tree' = "absent" /\ records' # {}
  <3>1. tree = "absent" /\ records # {} BY <2>2, <2>5 DEF TreeAfter
  <3>2. Durable BY <2>5, <3>1
  <3> QED BY <2>1, <2>2, <3>2
 <2>6. Faults \in Nat OBVIOUS
 <2> QED BY <2>2, <2>3, <2>4, <2>5, <2>6 DEF StageAfter
<1>57. CASE UNCHANGED vars BY <1>57
<1> HIDE DEF IInv, TypeInv, TypeOK, ProcInv, ProcTypeOK, LockInv, FaultTypeOK, FaultInv,
    GoneInv, Faults, Worse, Doing, Durable, SealInv, Untouched
<1> QED BY <1>1, <1>2, <1>3, <1>4, <1>5, <1>6, <1>7, <1>8, <1>9, <1>10, <1>11, <1>12,
     <1>13, <1>14, <1>15, <1>16, <1>17, <1>18, <1>19, <1>20, <1>21, <1>22, <1>23, <1>24,
     <1>25, <1>26, <1>27, <1>28, <1>29, <1>30, <1>31, <1>32, <1>33, <1>34, <1>35, <1>36,
     <1>37, <1>38, <1>39, <1>40, <1>41, <1>42, <1>43, <1>44, <1>45, <1>46, <1>47, <1>48,
     <1>49, <1>50, <1>51, <1>52, <1>53, <1>54, <1>55, <1>56, <1>57
     DEF Next, Allocation, Journal, Session, Recovery, Finalization, Sweep, Fault

\* Every refusal has the fault that explains it, after every step.
LEMMA RefusedStep == IInv /\ OwnerInv /\ FaultInv /\ RefusalsHaveACause /\ [Next]_vars => RefusalsHaveACause'
<1> SUFFICES ASSUME IInv, OwnerInv, FaultInv, RefusalsHaveACause, [Next]_vars PROVE RefusalsHaveACause' OBVIOUS
<1> USE SlotsAssumption, BoundsAssumption DEF vars, procVars, diskVars, stageVars,
    treeVars, journalVars, payloadVars, sumsVars, sealVars, faultVars, IInv, TypeInv,
    TypeOK, ProcInv, LockInv, FaultTypeOK, FaultInv, RefusalsHaveACause, Faults
<1>1. ASSUME NEW p \in Procs, Begin(p) PROVE RefusalsHaveACause' BY <1>1 DEF Begin, At, Lock, Taken
<1>2. ASSUME NEW p \in Procs, BuildStage(p) PROVE RefusalsHaveACause' BY <1>2 DEF BuildStage, Goto, Staging
<1>3. ASSUME NEW p \in Procs, Activate(p) PROVE RefusalsHaveACause' BY <1>3 DEF Activate, At, Goto
<1>4. ASSUME NEW p \in Procs, ActivateSync(p) PROVE RefusalsHaveACause' BY <1>4 DEF ActivateSync, At
<1>5. ASSUME NEW p \in Procs, EventCreate(p) PROVE RefusalsHaveACause' BY <1>5 DEF EventCreate, At, Goto
<1>6. ASSUME NEW p \in Procs, EventWrite(p) PROVE RefusalsHaveACause' BY <1>6 DEF EventWrite, At, Goto
<1>7. ASSUME NEW p \in Procs, EventRename(p) PROVE RefusalsHaveACause' BY <1>7 DEF EventRename, At, Goto
<1>8. ASSUME NEW p \in Procs, EventSync(p) PROVE RefusalsHaveACause' BY <1>8 DEF EventSync, At, Goto
<1>9. ASSUME NEW p \in Procs, StatusCreate(p) PROVE RefusalsHaveACause' BY <1>9 DEF StatusCreate, At, Goto
<1>10. ASSUME NEW p \in Procs, StatusRename(p) PROVE RefusalsHaveACause' BY <1>10 DEF StatusRename, At
<1>11. ASSUME NEW p \in Procs, StatusSync(p) PROVE RefusalsHaveACause'
  BY <1>11 DEF StatusSync, At, Goto, SyncRoot, RootEntries, AfterStatus
<1>12. ASSUME NEW p \in Procs, NEW f \in Paths, LocalCreate(p, f) PROVE RefusalsHaveACause'
  BY <1>12 DEF LocalCreate, At
<1>13. ASSUME NEW p \in Procs, LocalRename(p) PROVE RefusalsHaveACause' BY <1>13 DEF LocalRename, At, Goto
<1>14. ASSUME NEW p \in Procs, LocalSync(p) PROVE RefusalsHaveACause' BY <1>14 DEF LocalSync, At, Goto
<1>15. ASSUME NEW p \in Procs, WritePortable(p) PROVE RefusalsHaveACause' BY <1>15 DEF WritePortable, At, Goto
<1>16. ASSUME NEW p \in Procs, NEW o \in {"SUCCESS", "FAILURE"}, Finish(p, o) PROVE RefusalsHaveACause'
  BY <1>16 DEF Finish, At
<1>17. ASSUME NEW p \in Procs, Recover(p) PROVE RefusalsHaveACause' BY <1>17 DEF Recover, At, Lock
<1>18. ASSUME NEW p \in Procs, RefuseEntry(p) PROVE RefusalsHaveACause'
 <2>1. lock = p /\ pc[p] = "recover" /\ p # Nobody /\ UNCHANGED faultVars BY <1>18 DEF RefuseEntry, At, Refuse
 <2>2. refused' = refused \cup EntryComplaints /\ indexes = {} BY <1>18 DEF RefuseEntry, Refuse
 <2>3. "tree" \notin EntryComplaints BY <2>2 DEF EntryComplaints, SealInv, Durable
 <2>4. "orphan" \notin EntryComplaints
  <3>1. SUFFICES ASSUME Orphan PROVE Legal(status.event, events[status.seq + 1]) BY DEF EntryComplaints
  <3> HIDE DEF RefusalsHaveACause
  <3>0. status \in Status /\ syncedStatus \in Status /\ events \in Seq(Event) BY DEF TreeTypeOK
  <3>5. status.seq \in Nat /\ syncedStatus.seq \in Nat /\ Len(events) \in Nat BY <3>0 DEF Status
  <3>2. status.seq + 1 \in 2 .. Len(events) BY <3>1, <3>5 DEF Orphan, OrderInv
  <3>3. (status.seq + 1) - 1 = status.seq BY <3>5
  <3>4. Legal(events[(status.seq + 1) - 1], events[status.seq + 1]) BY <3>2 DEF OrderInv
  <3> QED BY <3>3, <3>4 DEF OrderInv
 <2>5. "event temp" \in EntryComplaints => Faults >= 1 BY <2>1 DEF EntryComplaints, TraceInv, Doing
 <2>6. "record" \in EntryComplaints => Worse BY <2>2 DEF EntryComplaints, GoneInv, Durable
 <2>7. EntryComplaints \subseteq {"record", "tree", "event temp", "orphan"} BY DEF EntryComplaints
 <2> QED BY <2>1, <2>2, <2>3, <2>4, <2>5, <2>6, <2>7 DEF Worse
<1>19. ASSUME NEW p \in Procs, UnknownRun(p) PROVE RefusalsHaveACause' BY <1>19 DEF UnknownRun, At, Leave
<1>20. ASSUME NEW p \in Procs, RecoverFromIndex(p) PROVE RefusalsHaveACause' BY <1>20 DEF RecoverFromIndex, At, Goto
<1>21. ASSUME NEW p \in Procs, DropEventTemp(p) PROVE RefusalsHaveACause' BY <1>21 DEF DropEventTemp, At, Entered
<1>22. ASSUME NEW p \in Procs, AdoptOrphan(p) PROVE RefusalsHaveACause' BY <1>22 DEF AdoptOrphan, At, Entered, Orphan
<1>23. ASSUME NEW p \in Procs, LoadStatus(p) PROVE RefusalsHaveACause' BY <1>23 DEF LoadStatus, At, Entered, Orphan
<1>24. ASSUME NEW p \in Procs, RefuseChain(p) PROVE RefusalsHaveACause'
 <2>1. lock = p /\ pc[p] = "judge" /\ p # Nobody /\ UNCHANGED faultVars BY <1>24 DEF RefuseChain, At, Refuse
 <2>2. refused' = refused \cup {"chain"} /\ ~ChainOf(events, status) BY <1>24, <2>1 DEF RefuseChain, Refuse, JournalInv
 <2>3. Len(events) = status.seq \/ Worse BY <2>1 DEF OrderInv, Doing
 <2>4. Worse BY <2>2, <2>3 DEF OrderInv, ChainOf
 <2> QED BY <2>1, <2>2, <2>4 DEF Worse
<1>25. ASSUME NEW p \in Procs, CompleteTerminal(p) PROVE RefusalsHaveACause'
  BY <1>25 DEF CompleteTerminal, At, Judged, Goto
<1>26. ASSUME NEW p \in Procs, ReportBusy(p) PROVE RefusalsHaveACause' BY <1>26 DEF ReportBusy, At, Judged, Leave
<1>27. ASSUME NEW p \in Procs, Interrupt(p) PROVE RefusalsHaveACause' BY <1>27 DEF Interrupt, At, Judged
<1>28. ASSUME NEW p \in Procs, RefuseControl(p) PROVE RefusalsHaveACause'
 <2>1. lock = p /\ pc[p] = "complete" /\ p # Nobody /\ UNCHANGED faultVars BY <1>28 DEF RefuseControl, At, Refuse
 <2>2. refused' = refused \cup ControlComplaints BY <1>28 DEF RefuseControl, Refuse
 <2> HIDE DEF RefusalsHaveACause
 <2>0. statusTemps \in Nat /\ sumsTemps \in Nat /\ Faults \in Nat BY DEF TreeTypeOK
 <2>3. "sums temps" \notin ControlComplaints
  <3>1. sumsTemps <= 1 BY DEF TraceInv
  <3>2. ~(sumsTemps > 1) BY <2>0, <3>1
  <3> QED BY <3>2 DEF ControlComplaints
 <2>4. "status temps" \in ControlComplaints => Faults >= 2
  <3>1. statusTemps <= Faults BY <2>1 DEF TraceInv, Doing
  <3>2. statusTemps > 1 => Faults >= 2 BY <2>0, <3>1
  <3> QED BY <3>2 DEF ControlComplaints
 <2>5. "root temp" \in ControlComplaints => Faults >= 1 BY <2>1 DEF ControlComplaints, TraceInv, Doing
 <2>6. ControlComplaints \subseteq {"status temps", "sums temps", "root temp"} BY DEF ControlComplaints
 <2> QED BY <2>1, <2>2, <2>3, <2>4, <2>5, <2>6 DEF RefusalsHaveACause, Worse
<1>29. ASSUME NEW p \in Procs, ClearControlTemps(p) PROVE RefusalsHaveACause'
  BY <1>29 DEF ClearControlTemps, At, Goto, SyncRoot, RootEntries
<1>30. ASSUME NEW p \in Procs, RefusePortable(p) PROVE RefusalsHaveACause'
 <2>1. lock = p /\ pc[p] = "portable" /\ p # Nobody /\ UNCHANGED faultVars BY <1>30 DEF RefusePortable, At, Refuse
 <2>2. refused' = refused \cup {"portable"} /\ portable = "torn" BY <1>30 DEF RefusePortable, Refuse
 <2>3. Faults >= 1 BY <2>1, <2>2 DEF TraceInv, Doing
 <2> QED BY <2>1, <2>2, <2>3 DEF Worse
<1>31. ASSUME NEW p \in Procs, ReconcilePortable(p) PROVE RefusalsHaveACause' BY <1>31 DEF ReconcilePortable, At, Goto
<1>32. ASSUME NEW p \in Procs, RefuseChecksums(p) PROVE RefusalsHaveACause'
 <2>1. lock = p /\ pc[p] = "sums" /\ p # Nobody /\ UNCHANGED faultVars BY <1>32 DEF RefuseChecksums, At, Refuse
 <2>2. refused' = refused \cup {"sums"} /\ sums # {} /\ Payload(sumsTemps) \notin sums
   BY <1>32 DEF RefuseChecksums, Refuse
 <2>3. tree = "live" /\ sumsTemps = 0 BY <2>1 DEF FinalInv
 <2>4. Worse BY <2>2, <2>3 DEF SumsInv
 <2> QED BY <2>1, <2>2, <2>4 DEF Worse
<1>33. ASSUME NEW p \in Procs, AcceptChecksums(p) PROVE RefusalsHaveACause' BY <1>33 DEF AcceptChecksums, At, Goto
<1>34. ASSUME NEW p \in Procs, ChecksumsCreate(p) PROVE RefusalsHaveACause' BY <1>34 DEF ChecksumsCreate, At, Goto
<1>35. ASSUME NEW p \in Procs, ChecksumsRename(p) PROVE RefusalsHaveACause' BY <1>35 DEF ChecksumsRename, At, Goto
<1>36. ASSUME NEW p \in Procs, ChecksumsSync(p) PROVE RefusalsHaveACause'
  BY <1>36 DEF ChecksumsSync, At, Goto, SyncRoot, RootEntries
<1>37. ASSUME NEW p \in Procs, PublishRecord(p) PROVE RefusalsHaveACause' BY <1>37 DEF PublishRecord, At, Goto
<1>38. ASSUME NEW p \in Procs, RecordSync(p) PROVE RefusalsHaveACause' BY <1>38 DEF RecordSync, At, Goto
<1>39. ASSUME NEW p \in Procs, PublishIndex(p) PROVE RefusalsHaveACause' BY <1>39 DEF PublishIndex, At, Goto
<1>40. ASSUME NEW p \in Procs, IndexSync(p) PROVE RefusalsHaveACause' BY <1>40 DEF IndexSync, At, Goto
<1>41. ASSUME NEW p \in Procs, FinishFromIndex(p) PROVE RefusalsHaveACause' BY <1>41 DEF FinishFromIndex, At, Goto
<1>42. ASSUME NEW p \in Procs, Teardown(p) PROVE RefusalsHaveACause' BY <1>42 DEF Teardown, At, Goto, FreshTree
<1>43. ASSUME NEW p \in Procs, TornDown(p) PROVE RefusalsHaveACause' BY <1>43 DEF TornDown, At, Leave
<1>44. ASSUME NEW p \in Procs, Rmdir(p) PROVE RefusalsHaveACause' BY <1>44 DEF Rmdir, At, Goto
<1>45. ASSUME NEW p \in Procs, GoneSync(p) PROVE RefusalsHaveACause' BY <1>45 DEF GoneSync, At, Leave
<1>46. ASSUME NEW p \in Procs, SweepList(p) PROVE RefusalsHaveACause' BY <1>46 DEF SweepList, At, Goto
<1>47. ASSUME NEW p \in Procs, SweepLock(p) PROVE RefusalsHaveACause' BY <1>47 DEF SweepLock, At, Lock, Leave
<1>48. ASSUME NEW p \in Procs, RefuseStage(p) PROVE RefusalsHaveACause'
 <2>1. lock = p /\ pc[p] = "sweep" /\ p # Nobody /\ UNCHANGED faultVars BY <1>48 DEF RefuseStage, At, Refuse
 <2>2. /\ refused' \subseteq refused \cup {"stage", "vanished stage"}
       /\ refused \subseteq refused'
       /\ "stage" \in refused' \ refused => stage = "bare"
   BY <1>48 DEF RefuseStage, Refuse
 <2>3. stage = "bare" => Faults >= 1 BY <2>1 DEF TraceInv, Doing
 <2> QED BY <2>1, <2>2, <2>3 DEF Worse
<1>49. ASSUME NEW p \in Procs, LeaveLiveStage(p) PROVE RefusalsHaveACause' BY <1>49 DEF LeaveLiveStage, At, Leave
<1>50. ASSUME NEW p \in Procs, ReclaimStage(p) PROVE RefusalsHaveACause' BY <1>50 DEF ReclaimStage, At, Goto
<1>51. ASSUME NEW p \in Procs, RemoveStage(p) PROVE RefusalsHaveACause' BY <1>51 DEF RemoveStage, At, Leave
<1>52. ASSUME NEW p \in Procs, Exit(p) PROVE RefusalsHaveACause' BY <1>52 DEF Exit, At
<1>53. ASSUME NEW p \in Procs, Kill(p) PROVE RefusalsHaveACause'
 <2>1. refused' = refused BY <1>53 DEF Kill
 <2> HIDE DEF RefusalsHaveACause
 <2>2. Faults' = Faults + 1 /\ Faults \in Nat BY <1>53 DEF Kill
 <2>3. losses' >= losses /\ losses \in Nat /\ losses' \in Nat BY <1>53 DEF Kill
 <2>4. (Faults >= 1 => Faults' >= 1) /\ (Faults >= 2 => Faults' >= 2)
       /\ (losses >= 1 => losses' >= 1)
   BY <2>2, <2>3
 <2> QED BY <2>1, <2>4 DEF RefusalsHaveACause
<1>54. ASSUME NEW p \in Procs, ErrorInWrite(p) PROVE RefusalsHaveACause'
 <2>1. refused' = refused BY <1>54 DEF ErrorInWrite
 <2> HIDE DEF RefusalsHaveACause
 <2>2. Faults' = Faults + 1 /\ Faults \in Nat BY <1>54 DEF ErrorInWrite
 <2>3. losses' >= losses /\ losses \in Nat /\ losses' \in Nat BY <1>54 DEF ErrorInWrite
 <2>4. (Faults >= 1 => Faults' >= 1) /\ (Faults >= 2 => Faults' >= 2)
       /\ (losses >= 1 => losses' >= 1)
   BY <2>2, <2>3
 <2> QED BY <2>1, <2>4 DEF RefusalsHaveACause
<1>55. ASSUME NEW p \in Procs, Error(p) PROVE RefusalsHaveACause'
 <2>1. refused' = refused BY <1>55 DEF Error
 <2> HIDE DEF RefusalsHaveACause
 <2>2. Faults' = Faults + 1 /\ Faults \in Nat BY <1>55 DEF Error
 <2>3. losses' >= losses /\ losses \in Nat /\ losses' \in Nat BY <1>55 DEF Error
 <2>4. (Faults >= 1 => Faults' >= 1) /\ (Faults >= 2 => Faults' >= 2)
       /\ (losses >= 1 => losses' >= 1)
   BY <2>2, <2>3
 <2> QED BY <2>1, <2>4 DEF RefusalsHaveACause
<1>56. ASSUME PowerLoss PROVE RefusalsHaveACause'
 <2>1. refused' = refused BY <1>56 DEF PowerLoss
 <2> HIDE DEF RefusalsHaveACause
 <2>2. Faults' = Faults + 1 /\ Faults \in Nat BY <1>56 DEF PowerLoss
 <2>3. losses' >= losses /\ losses \in Nat /\ losses' \in Nat BY <1>56 DEF PowerLoss
 <2>4. (Faults >= 1 => Faults' >= 1) /\ (Faults >= 2 => Faults' >= 2)
       /\ (losses >= 1 => losses' >= 1)
   BY <2>2, <2>3
 <2> QED BY <2>1, <2>4 DEF RefusalsHaveACause
<1>57. CASE UNCHANGED vars BY <1>57
<1> HIDE DEF IInv, TypeInv, TypeOK, ProcInv, LockInv, FaultTypeOK, FaultInv,
    RefusalsHaveACause, Faults
<1> QED BY <1>1, <1>2, <1>3, <1>4, <1>5, <1>6, <1>7, <1>8, <1>9, <1>10, <1>11, <1>12,
     <1>13, <1>14, <1>15, <1>16, <1>17, <1>18, <1>19, <1>20, <1>21, <1>22, <1>23, <1>24,
     <1>25, <1>26, <1>27, <1>28, <1>29, <1>30, <1>31, <1>32, <1>33, <1>34, <1>35, <1>36,
     <1>37, <1>38, <1>39, <1>40, <1>41, <1>42, <1>43, <1>44, <1>45, <1>46, <1>47, <1>48,
     <1>49, <1>50, <1>51, <1>52, <1>53, <1>54, <1>55, <1>56, <1>57
     DEF Next, Allocation, Journal, Session, Recovery, Finalization, Sweep, Fault

\* A store that no run has touched has no fault and nothing left of one.
LEMMA FaultInit == Init => FaultInv /\ RefusalsHaveACause
<1> SUFFICES ASSUME Init PROVE FaultInv /\ RefusalsHaveACause OBVIOUS
<1> USE DEF Init, Faults, Doing
<1>1. TraceInv BY DEF TraceInv, RecordStraysAreNested
<1>2. OrderInv BY DEF OrderInv, Allocated
<1>3. CleanInv /\ SumsInv /\ GoneInv BY DEF CleanInv, SumsInv, GoneInv
<1>4. RefusalsHaveACause BY DEF RefusalsHaveACause
<1> QED BY <1>1, <1>2, <1>3, <1>4 DEF FaultInv

\* What is left behind, and what is refused, is always of a fault.
THEOREM FaultsInvariance == Spec => [](FaultInv /\ RefusalsHaveACause)
<1>1. Init => FaultInv /\ RefusalsHaveACause BY FaultInit
<1>2. IInv /\ OwnerInv /\ (FaultInv /\ RefusalsHaveACause) /\ [Next]_vars
        => (FaultInv /\ RefusalsHaveACause)'
  BY TraceStep, OrderStep, CleanStep, SumsStep, GoneStep, RefusedStep DEF FaultInv
<1> QED BY <1>1, <1>2, Invariance, OwnersInvariance, PTL DEF Spec

\* A fault does no more than it must: recovery refuses only what a fault explains,
\* and of what a kill left only nested writer temps reach the record.
THEOREM FaultsContained == Spec => []FaultsAreContained
<1>1. FaultInv /\ RefusalsHaveACause => FaultsAreContained BY DEF FaultInv, TraceInv, FaultsAreContained
<1> QED BY <1>1, FaultsInvariance, PTL

----------------------------------------
(* The run's life, as RunLifecycle tells it *)

\* A record that is not yet durable is of the tree as it is.
PendingInv ==
  \A r \in records :
    "record" \in volatile => tree = "live" /\ r.payload.events = events /\ r.payload.status = status

\* A record that is not yet durable stays that of the tree, after every step.
LEMMA PendingStep == IInv /\ OwnerInv /\ PendingInv /\ [Next]_vars => PendingInv'
<1> SUFFICES ASSUME IInv, OwnerInv, PendingInv, [Next]_vars PROVE PendingInv' OBVIOUS
<1> USE SlotsAssumption, BoundsAssumption DEF vars, procVars, diskVars, stageVars,
    treeVars, journalVars, payloadVars, sumsVars, sealVars, faultVars, IInv, TypeInv,
    ProcInv, LockInv, PendingInv
<1>1. ASSUME NEW p \in Procs, Begin(p) PROVE PendingInv' BY <1>1 DEF Begin, At, Lock, Taken
<1>2. ASSUME NEW p \in Procs, BuildStage(p) PROVE PendingInv' BY <1>2 DEF BuildStage, Goto, Staging
<1>3. ASSUME NEW p \in Procs, Activate(p) PROVE PendingInv'
 <2>1. records' = {} BY <1>3 DEF Activate, At, SealInv
 <2> QED BY <2>1
<1>4. ASSUME NEW p \in Procs, ActivateSync(p) PROVE PendingInv' BY <1>4 DEF ActivateSync, At
<1>5. ASSUME NEW p \in Procs, EventCreate(p) PROVE PendingInv' BY <1>5 DEF EventCreate, At, Goto
<1>6. ASSUME NEW p \in Procs, EventWrite(p) PROVE PendingInv' BY <1>6 DEF EventWrite, At, Goto
<1>7. ASSUME NEW p \in Procs, EventRename(p) PROVE PendingInv'
 <2>1. tree = "live" /\ ChainOf(events, status) /\ Legal(status.event, writing[p])
   BY <1>7 DEF EventRename, At, JournalInv
 <2>2. ~Terminal(status.event) BY <2>1 DEF Legal, Terminal, Outcomes
 <2>3. records = {} \/ "record" \notin volatile BY <2>2 DEF SealInv, Verified
 <2>4. records' = records /\ volatile' = volatile \cup {"event"} BY <1>7 DEF EventRename
 <2> QED BY <2>3, <2>4
<1>8. ASSUME NEW p \in Procs, EventSync(p) PROVE PendingInv' BY <1>8 DEF EventSync, At, Goto
<1>9. ASSUME NEW p \in Procs, StatusCreate(p) PROVE PendingInv' BY <1>9 DEF StatusCreate, At, Goto
<1>10. ASSUME NEW p \in Procs, StatusRename(p) PROVE PendingInv'
 <2>1. Len(events) > status.seq BY <1>10 DEF StatusRename, At, JournalInv
 <2>2. records = {} \/ "record" \notin volatile
  <3>1. SUFFICES ASSUME NEW r \in records, "record" \in volatile PROVE FALSE OBVIOUS
  <3>2. ChainOf(events, status) BY <3>1 DEF SealInv, Verified
  <3>3. Len(events) = status.seq BY <3>2 DEF ChainOf
  <3>4. status.seq \in Nat BY DEF TypeOK, TreeTypeOK, Status
  <3> QED BY <2>1, <3>3, <3>4
 <2>3. records' = records /\ volatile' = volatile \cup {"status"} BY <1>10 DEF StatusRename
 <2> QED BY <2>2, <2>3
<1>11. ASSUME NEW p \in Procs, StatusSync(p) PROVE PendingInv'
  BY <1>11 DEF StatusSync, At, Goto, SyncRoot, RootEntries, AfterStatus
<1>12. ASSUME NEW p \in Procs, NEW f \in Paths, LocalCreate(p, f) PROVE PendingInv'
 <2>1. records' = {} BY <1>12 DEF LocalCreate, At, OwnerInv, SessionSteps, Untouched
 <2> QED BY <2>1
<1>13. ASSUME NEW p \in Procs, LocalRename(p) PROVE PendingInv' BY <1>13 DEF LocalRename, At, Goto
<1>14. ASSUME NEW p \in Procs, LocalSync(p) PROVE PendingInv' BY <1>14 DEF LocalSync, At, Goto
<1>15. ASSUME NEW p \in Procs, WritePortable(p) PROVE PendingInv' BY <1>15 DEF WritePortable, At, Goto
<1>16. ASSUME NEW p \in Procs, NEW o \in {"SUCCESS", "FAILURE"}, Finish(p, o) PROVE PendingInv' BY <1>16 DEF Finish, At
<1>17. ASSUME NEW p \in Procs, Recover(p) PROVE PendingInv' BY <1>17 DEF Recover, At, Lock
<1>18. ASSUME NEW p \in Procs, RefuseEntry(p) PROVE PendingInv'
  BY <1>18 DEF RefuseEntry, At, Refuse, Leave, EntryComplaints
<1>19. ASSUME NEW p \in Procs, UnknownRun(p) PROVE PendingInv' BY <1>19 DEF UnknownRun, At, Leave
<1>20. ASSUME NEW p \in Procs, RecoverFromIndex(p) PROVE PendingInv' BY <1>20 DEF RecoverFromIndex, At, Goto
<1>21. ASSUME NEW p \in Procs, DropEventTemp(p) PROVE PendingInv' BY <1>21 DEF DropEventTemp, At, Entered
<1>22. ASSUME NEW p \in Procs, AdoptOrphan(p) PROVE PendingInv' BY <1>22 DEF AdoptOrphan, At, Entered, Orphan
<1>23. ASSUME NEW p \in Procs, LoadStatus(p) PROVE PendingInv' BY <1>23 DEF LoadStatus, At, Entered, Orphan
<1>24. ASSUME NEW p \in Procs, RefuseChain(p) PROVE PendingInv' BY <1>24 DEF RefuseChain, At, Refuse, Leave
<1>25. ASSUME NEW p \in Procs, CompleteTerminal(p) PROVE PendingInv' BY <1>25 DEF CompleteTerminal, At, Judged, Goto
<1>26. ASSUME NEW p \in Procs, ReportBusy(p) PROVE PendingInv' BY <1>26 DEF ReportBusy, At, Judged, Leave
<1>27. ASSUME NEW p \in Procs, Interrupt(p) PROVE PendingInv' BY <1>27 DEF Interrupt, At, Judged
<1>28. ASSUME NEW p \in Procs, RefuseControl(p) PROVE PendingInv'
  BY <1>28 DEF RefuseControl, At, Refuse, Leave, ControlComplaints
<1>29. ASSUME NEW p \in Procs, ClearControlTemps(p) PROVE PendingInv'
  BY <1>29 DEF ClearControlTemps, At, Goto, SyncRoot, RootEntries
<1>30. ASSUME NEW p \in Procs, RefusePortable(p) PROVE PendingInv' BY <1>30 DEF RefusePortable, At, Refuse, Leave
<1>31. ASSUME NEW p \in Procs, ReconcilePortable(p) PROVE PendingInv' BY <1>31 DEF ReconcilePortable, At, Goto
<1>32. ASSUME NEW p \in Procs, RefuseChecksums(p) PROVE PendingInv' BY <1>32 DEF RefuseChecksums, At, Refuse, Leave
<1>33. ASSUME NEW p \in Procs, AcceptChecksums(p) PROVE PendingInv' BY <1>33 DEF AcceptChecksums, At, Goto
<1>34. ASSUME NEW p \in Procs, ChecksumsCreate(p) PROVE PendingInv' BY <1>34 DEF ChecksumsCreate, At, Goto
<1>35. ASSUME NEW p \in Procs, ChecksumsRename(p) PROVE PendingInv' BY <1>35 DEF ChecksumsRename, At, Goto
<1>36. ASSUME NEW p \in Procs, ChecksumsSync(p) PROVE PendingInv'
  BY <1>36 DEF ChecksumsSync, At, Goto, SyncRoot, RootEntries
<1>37. ASSUME NEW p \in Procs, PublishRecord(p) PROVE PendingInv'
 <2>1. tree' = "live" /\ UNCHANGED <<events, status, tree>> BY <1>37 DEF PublishRecord, At, FinalInv
 <2>2. Payload(sumsTemps).events = events /\ Payload(sumsTemps).status = status BY DEF Payload
 <2>3. CASE records' = records /\ volatile' = volatile BY <2>1, <2>3
 <2>4. CASE records' = {[payload |-> Payload(sumsTemps), sums |-> s] : s \in sums} BY <2>1, <2>2, <2>4
 <2> QED BY <1>37, <2>3, <2>4 DEF PublishRecord
<1>38. ASSUME NEW p \in Procs, RecordSync(p) PROVE PendingInv' BY <1>38 DEF RecordSync, At, Goto
<1>39. ASSUME NEW p \in Procs, PublishIndex(p) PROVE PendingInv' BY <1>39 DEF PublishIndex, At, Goto
<1>40. ASSUME NEW p \in Procs, IndexSync(p) PROVE PendingInv' BY <1>40 DEF IndexSync, At, Goto
<1>41. ASSUME NEW p \in Procs, FinishFromIndex(p) PROVE PendingInv' BY <1>41 DEF FinishFromIndex, At, Goto
<1>42. ASSUME NEW p \in Procs, Teardown(p) PROVE PendingInv'
 <2>1. "record" \notin volatile' BY <1>42 DEF Teardown, At, SealInv, Durable
 <2> QED BY <2>1
<1>43. ASSUME NEW p \in Procs, TornDown(p) PROVE PendingInv' BY <1>43 DEF TornDown, At, Leave
<1>44. ASSUME NEW p \in Procs, Rmdir(p) PROVE PendingInv'
 <2>1. "record" \notin volatile' BY <1>44 DEF Rmdir, At, SealInv, Durable
 <2> QED BY <2>1
<1>45. ASSUME NEW p \in Procs, GoneSync(p) PROVE PendingInv' BY <1>45 DEF GoneSync, At, Leave
<1>46. ASSUME NEW p \in Procs, SweepList(p) PROVE PendingInv' BY <1>46 DEF SweepList, At, Goto
<1>47. ASSUME NEW p \in Procs, SweepLock(p) PROVE PendingInv' BY <1>47 DEF SweepLock, At, Lock, Leave
<1>48. ASSUME NEW p \in Procs, RefuseStage(p) PROVE PendingInv' BY <1>48 DEF RefuseStage, At, Refuse, Leave
<1>49. ASSUME NEW p \in Procs, LeaveLiveStage(p) PROVE PendingInv' BY <1>49 DEF LeaveLiveStage, At, Leave
<1>50. ASSUME NEW p \in Procs, ReclaimStage(p) PROVE PendingInv' BY <1>50 DEF ReclaimStage, At, Goto
<1>51. ASSUME NEW p \in Procs, RemoveStage(p) PROVE PendingInv' BY <1>51 DEF RemoveStage, At, Leave
<1>52. ASSUME NEW p \in Procs, Exit(p) PROVE PendingInv' BY <1>52 DEF Exit, At
<1>53. ASSUME NEW p \in Procs, Kill(p) PROVE PendingInv' BY <1>53 DEF Kill, At, Leave
<1>54. ASSUME NEW p \in Procs, ErrorInWrite(p) PROVE PendingInv' BY <1>54 DEF ErrorInWrite, At, Goto
<1>55. ASSUME NEW p \in Procs, Error(p) PROVE PendingInv' BY <1>55 DEF Error, At, Leave, Staging
<1>56. ASSUME PowerLoss PROVE PendingInv'
 <2>1. volatile' = {} BY <1>56 DEF PowerLoss
 <2> QED BY <2>1
<1>57. CASE UNCHANGED vars BY <1>57
<1> HIDE DEF IInv, TypeInv, ProcInv, LockInv, PendingInv
<1> QED BY <1>1, <1>2, <1>3, <1>4, <1>5, <1>6, <1>7, <1>8, <1>9, <1>10, <1>11, <1>12,
     <1>13, <1>14, <1>15, <1>16, <1>17, <1>18, <1>19, <1>20, <1>21, <1>22, <1>23, <1>24,
     <1>25, <1>26, <1>27, <1>28, <1>29, <1>30, <1>31, <1>32, <1>33, <1>34, <1>35, <1>36,
     <1>37, <1>38, <1>39, <1>40, <1>41, <1>42, <1>43, <1>44, <1>45, <1>46, <1>47, <1>48,
     <1>49, <1>50, <1>51, <1>52, <1>53, <1>54, <1>55, <1>56, <1>57
     DEF Next, Allocation, Journal, Session, Recovery, Finalization, Sweep, Fault

\* The marks that tell how durable each part of the run is
Marks == {"record", "index", "gone", "active", "event"}

\* A run that is open or decided: its tree is durably there, its record not yet
Alive == ~Sealed /\ tree = "live" /\ "active" \notin volatile

\* The event the journal ends with
Last == events[Len(events)]

\* A step the run's life allows, or one that does not show in it
Moves == Lifecycle!Next \/ UNCHANGED <<phase, outcome>>

\* The outcome of the record
RecordOutcome == (CHOOSE r \in records : TRUE).payload.status.event

\* Phase and outcome case by case
Told ==
  /\ Sealed => phase = (IF Closed THEN "closed" ELSE "sealed") /\ outcome = RecordOutcome
  /\ ~Sealed /\ Alive /\ Decided => phase = "decided" /\ outcome = Last
  /\ ~Sealed /\ Alive /\ ~Decided => phase = "open" /\ outcome = "none"
  /\ ~Sealed /\ ~Alive => phase = "unborn" /\ outcome = "none"

\* The cases are those of the definitions, ...
LEMMA Telling == Told
<1>1. CASE Sealed
 <2>1. phase = IF Closed THEN "closed" ELSE "sealed" BY <1>1 DEF phase
 <2> QED BY <1>1, <2>1 DEF Told, outcome, RecordOutcome
<1>2. CASE ~Sealed
 <2>1. ~Closed BY <1>2 DEF Closed
 <2>2. Alive /\ Decided => phase = "decided" BY <1>2, <2>1 DEF phase, Alive
 <2>3. Alive /\ ~Decided => phase = "open" BY <1>2, <2>1 DEF phase, Alive
 <2>4. ~Alive => phase = "unborn" BY <1>2, <2>1 DEF phase, Alive
 <2> QED BY <1>2, <2>2, <2>3, <2>4 DEF Told, outcome, Last
<1> QED BY <1>1, <1>2

\* ... before a step and after it.
LEMMA TellingNext == Told'
<1>1. Told BY Telling
<1> QED BY <1>1, PTL

\* What leaves the tree, the journal, the record, the index and the marks as they are
\* does not show in the run's life.
LEMMA Unseen ==
  ASSUME UNCHANGED <<tree, events, records, indexes>>,
         \A m \in Marks : m \in volatile' <=> m \in volatile
  PROVE  Moves
<1>1. Sealed' = Sealed /\ Closed' = Closed /\ Decided' = Decided BY DEF Sealed, Closed, Decided, Terminal, Marks
<1>2. ("active" \notin volatile)' = ("active" \notin volatile) BY DEF Marks
<1>3. phase' = phase BY <1>1, <1>2 DEF phase
<1>4. outcome' = outcome BY <1>3 DEF outcome
<1> QED BY <1>3, <1>4 DEF Moves

\* A sealed run stays so, with its record, or is closed.
LEMMA SealedOn ==
  ASSUME Sealed, records' = records, "record" \notin volatile', Closed => Closed'
  PROVE  Moves
<1>1. Sealed' BY DEF Sealed
<1>2. phase = (IF Closed THEN "closed" ELSE "sealed") /\ outcome = RecordOutcome BY Telling DEF Told
<1>3. phase' = (IF Closed' THEN "closed" ELSE "sealed") /\ outcome' = RecordOutcome' BY <1>1, TellingNext DEF Told
<1>4. outcome' = outcome BY <1>2, <1>3 DEF RecordOutcome
<1>5. CASE Closed' /\ ~Closed BY <1>2, <1>3, <1>4, <1>5 DEF Moves, Lifecycle!Next, Lifecycle!Close
<1>6. CASE ~(Closed' /\ ~Closed) BY <1>2, <1>3, <1>4, <1>6 DEF Moves
<1> QED BY <1>5, <1>6

\* A run that is not sealed may come to be open, and then decided, for good.
LEMMA OpenOn ==
  ASSUME ~Sealed, ~Sealed', Alive => Alive',
         Alive /\ Decided => Decided' /\ Last' = Last
  PROVE  Moves
<1>1. /\ Alive /\ Decided => phase = "decided" /\ outcome = Last
      /\ Alive /\ ~Decided => phase = "open" /\ outcome = "none"
      /\ ~Alive => phase = "unborn" /\ outcome = "none"
  BY Telling DEF Told
<1>2. /\ Alive' /\ Decided' => phase' = "decided" /\ outcome' = Last'
      /\ Alive' /\ ~Decided' => phase' = "open" /\ outcome' = "none"
      /\ ~Alive' => phase' = "unborn" /\ outcome' = "none"
  BY TellingNext DEF Told
<1>3. CASE Alive' /\ Decided' /\ ~(Alive /\ Decided)
 <2>1. Last' \in Outcomes BY <1>3 DEF Decided, Terminal, Last
 <2> QED BY <1>1, <1>2, <1>3, <2>1 DEF Moves, Lifecycle!Next, Lifecycle!Decide
<1>4. CASE Alive' /\ ~Decided' /\ ~Alive BY <1>1, <1>2, <1>4 DEF Moves, Lifecycle!Next, Lifecycle!Open
<1>5. CASE Alive /\ (Decided <=> Decided') BY <1>1, <1>2, <1>5 DEF Moves
<1>6. CASE ~Alive /\ ~Alive' BY <1>1, <1>2, <1>6 DEF Moves
<1> QED BY <1>3, <1>4, <1>5, <1>6

\* A run is sealed with the outcome it was decided for, if it was.
LEMMA SealsNow ==
  ASSUME ~Sealed, Sealed', ~Closed',
         \A r \in records' : /\ r.payload.status.event \in Outcomes
                             /\ Alive /\ Decided => r.payload.status.event = Last
  PROVE  Moves
<1>1. /\ Alive /\ Decided => phase = "decided" /\ outcome = Last
      /\ Alive /\ ~Decided => phase = "open" /\ outcome = "none"
      /\ ~Alive => phase = "unborn" /\ outcome = "none"
  BY Telling DEF Told
<1>2. phase' = "sealed" /\ outcome' = RecordOutcome' BY TellingNext DEF Told
<1>3. records' # {} BY DEF Sealed
<1>4. PICK o \in Outcomes : o = RecordOutcome' /\ (Alive /\ Decided => o = Last) BY <1>3 DEF RecordOutcome
<1>5. phase \in {"unborn", "open", "decided"} /\ outcome \in {"none", o} BY <1>1, <1>4
<1> QED BY <1>2, <1>4, <1>5 DEF Moves, Lifecycle!Next, Lifecycle!Seal

\* Every step is one the run's life allows, or does not show in it.
LEMMA MovesStep == IInv /\ OwnerInv /\ PendingInv /\ [Next]_vars => Moves
<1> SUFFICES ASSUME IInv, OwnerInv, PendingInv, [Next]_vars PROVE Moves OBVIOUS
<1> USE SlotsAssumption, BoundsAssumption DEF vars, procVars, diskVars, stageVars,
    treeVars, journalVars, payloadVars, sumsVars, sealVars, faultVars, IInv, TypeInv,
    ProcInv
<1>1. ASSUME NEW p \in Procs, Begin(p) PROVE Moves BY <1>1, Unseen DEF Begin, At, Lock, Taken
<1>2. ASSUME NEW p \in Procs, BuildStage(p) PROVE Moves BY <1>2, Unseen DEF BuildStage, Goto, Staging
<1>3. ASSUME NEW p \in Procs, Activate(p) PROVE Moves
 <2>1. tree = "absent" /\ records = {} /\ records' = {} BY <1>3 DEF Activate, At, SealInv
 <2>2. ~Sealed /\ ~Sealed' /\ ~Alive BY <2>1 DEF Sealed, Alive
 <2> QED BY <2>2, OpenOn
<1>4. ASSUME NEW p \in Procs, ActivateSync(p) PROVE Moves
 <2>1. records = {} /\ records' = {} /\ tree = "live" /\ tree' = tree /\ events' = events
   BY <1>4 DEF ActivateSync, At, OwnerInv, Untouched, JournalInv
 <2>2. volatile' = volatile \ {"active", "gone"} BY <1>4 DEF ActivateSync
 <2>3. ~Sealed /\ ~Sealed' /\ Alive' BY <2>1, <2>2 DEF Sealed, Alive
 <2>4. Decided => Decided' /\ Last' = Last BY <2>1, <2>2 DEF Decided, Terminal, Last
 <2> QED BY <2>3, <2>4, OpenOn
<1>5. ASSUME NEW p \in Procs, EventCreate(p) PROVE Moves BY <1>5, Unseen DEF EventCreate, At, Goto
<1>6. ASSUME NEW p \in Procs, EventWrite(p) PROVE Moves BY <1>6, Unseen DEF EventWrite, At, Goto
<1>7. ASSUME NEW p \in Procs, EventRename(p) PROVE Moves
 <2>1. tree = "live" /\ ChainOf(events, status) /\ Legal(status.event, writing[p])
   BY <1>7 DEF EventRename, At, JournalInv
 <2>2. ~Decided BY <2>1 DEF Decided, Legal, Terminal, Outcomes, ChainOf
 <2>3. UNCHANGED <<tree, records>> /\ volatile' = volatile \cup {"event"} BY <1>7 DEF EventRename
 <2>4. CASE Sealed BY <2>1, <2>3, <2>4, SealedOn DEF Sealed, Closed
 <2>5. CASE ~Sealed
  <3>1. ~Sealed' /\ (Alive => Alive') BY <2>3, <2>5 DEF Sealed, Alive
  <3> QED BY <2>2, <2>5, <3>1, OpenOn
 <2> QED BY <2>4, <2>5
<1>8. ASSUME NEW p \in Procs, EventSync(p) PROVE Moves
 <2>1. UNCHANGED <<tree, events, records, indexes>> /\ volatile' = volatile \ {"event"} BY <1>8 DEF EventSync
 <2>2. CASE Sealed
  <3>1. "record" \notin volatile' /\ (Closed => Closed') BY <2>1, <2>2 DEF Sealed, Closed
  <3> QED BY <2>1, <2>2, <3>1, SealedOn
 <2>3. CASE ~Sealed
  <3>1. ~Sealed' /\ (Alive => Alive') /\ (Decided => Decided' /\ Last' = Last)
    BY <2>1, <2>3 DEF Sealed, Alive, Decided, Terminal, Last
  <3> QED BY <2>3, <3>1, OpenOn
 <2> QED BY <2>2, <2>3
<1>9. ASSUME NEW p \in Procs, StatusCreate(p) PROVE Moves BY <1>9, Unseen DEF StatusCreate, At, Goto
<1>10. ASSUME NEW p \in Procs, StatusRename(p) PROVE Moves
 <2>1. UNCHANGED <<tree, events, records, indexes>> /\ volatile' = volatile \cup {"status"} BY <1>10 DEF StatusRename
 <2> QED BY <2>1, Unseen DEF Marks
<1>11. ASSUME NEW p \in Procs, StatusSync(p) PROVE Moves
 <2>1. Marks \cap RootEntries = {} BY PathsAssumption DEF Entries, Paths, Marks, RootEntries
 <2>2. UNCHANGED <<tree, events, records, indexes>> BY <1>11 DEF StatusSync
 <2>3. volatile' = volatile \/ volatile' = volatile \ RootEntries BY <1>11 DEF StatusSync, SyncRoot
 <2> QED BY <2>1, <2>2, <2>3, Unseen
<1>12. ASSUME NEW p \in Procs, NEW f \in Paths, LocalCreate(p, f) PROVE Moves
 <2>1. f \notin Marks BY PathsAssumption DEF Entries, Marks
 <2>2. UNCHANGED <<tree, events, records, indexes>> /\ volatile' = volatile \cup {f} BY <1>12 DEF LocalCreate
 <2> QED BY <2>1, <2>2, Unseen
<1>13. ASSUME NEW p \in Procs, LocalRename(p) PROVE Moves BY <1>13, Unseen DEF LocalRename, At, Goto
<1>14. ASSUME NEW p \in Procs, LocalSync(p) PROVE Moves
 <2>1. writing[p] \notin Marks BY <1>14, PathsAssumption DEF LocalSync, At, WritingInv, Entries, Marks
 <2>2. UNCHANGED <<tree, events, records, indexes>> /\ volatile' = volatile \ {writing[p]} BY <1>14 DEF LocalSync
 <2> QED BY <2>1, <2>2, Unseen
<1>15. ASSUME NEW p \in Procs, WritePortable(p) PROVE Moves BY <1>15, Unseen DEF WritePortable, At, Goto
<1>16. ASSUME NEW p \in Procs, NEW o \in {"SUCCESS", "FAILURE"}, Finish(p, o) PROVE Moves
  BY <1>16, Unseen DEF Finish, At
<1>17. ASSUME NEW p \in Procs, Recover(p) PROVE Moves BY <1>17, Unseen DEF Recover, At, Lock
<1>18. ASSUME NEW p \in Procs, RefuseEntry(p) PROVE Moves
  BY <1>18, Unseen DEF RefuseEntry, At, Refuse, Leave, EntryComplaints
<1>19. ASSUME NEW p \in Procs, UnknownRun(p) PROVE Moves BY <1>19, Unseen DEF UnknownRun, At, Leave
<1>20. ASSUME NEW p \in Procs, RecoverFromIndex(p) PROVE Moves BY <1>20, Unseen DEF RecoverFromIndex, At, Goto
<1>21. ASSUME NEW p \in Procs, DropEventTemp(p) PROVE Moves BY <1>21, Unseen DEF DropEventTemp, At, Entered
<1>22. ASSUME NEW p \in Procs, AdoptOrphan(p) PROVE Moves
 <2>1. UNCHANGED <<tree, events, records, indexes>> /\ volatile' = volatile \ {"event"} BY <1>22 DEF AdoptOrphan
 <2>2. CASE Sealed
  <3>1. "record" \notin volatile' /\ (Closed => Closed') BY <2>1, <2>2 DEF Sealed, Closed
  <3> QED BY <2>1, <2>2, <3>1, SealedOn
 <2>3. CASE ~Sealed
  <3>1. ~Sealed' /\ (Alive => Alive') /\ (Decided => Decided' /\ Last' = Last)
    BY <2>1, <2>3 DEF Sealed, Alive, Decided, Terminal, Last
  <3> QED BY <2>3, <3>1, OpenOn
 <2> QED BY <2>2, <2>3
<1>23. ASSUME NEW p \in Procs, LoadStatus(p) PROVE Moves BY <1>23, Unseen DEF LoadStatus, At, Entered, Orphan
<1>24. ASSUME NEW p \in Procs, RefuseChain(p) PROVE Moves BY <1>24, Unseen DEF RefuseChain, At, Refuse, Leave
<1>25. ASSUME NEW p \in Procs, CompleteTerminal(p) PROVE Moves BY <1>25, Unseen DEF CompleteTerminal, At, Judged, Goto
<1>26. ASSUME NEW p \in Procs, ReportBusy(p) PROVE Moves BY <1>26, Unseen DEF ReportBusy, At, Judged, Leave
<1>27. ASSUME NEW p \in Procs, Interrupt(p) PROVE Moves BY <1>27, Unseen DEF Interrupt, At, Judged
<1>28. ASSUME NEW p \in Procs, RefuseControl(p) PROVE Moves
  BY <1>28, Unseen DEF RefuseControl, At, Refuse, Leave, ControlComplaints
<1>29. ASSUME NEW p \in Procs, ClearControlTemps(p) PROVE Moves
 <2>1. Marks \cap RootEntries = {} BY PathsAssumption DEF Entries, Paths, Marks, RootEntries
 <2>2. UNCHANGED <<tree, events, records, indexes>> BY <1>29 DEF ClearControlTemps
 <2>3. volatile' = volatile \/ volatile' = volatile \ RootEntries BY <1>29 DEF ClearControlTemps, SyncRoot
 <2> QED BY <2>1, <2>2, <2>3, Unseen
<1>30. ASSUME NEW p \in Procs, RefusePortable(p) PROVE Moves BY <1>30, Unseen DEF RefusePortable, At, Refuse, Leave
<1>31. ASSUME NEW p \in Procs, ReconcilePortable(p) PROVE Moves BY <1>31, Unseen DEF ReconcilePortable, At, Goto
<1>32. ASSUME NEW p \in Procs, RefuseChecksums(p) PROVE Moves BY <1>32, Unseen DEF RefuseChecksums, At, Refuse, Leave
<1>33. ASSUME NEW p \in Procs, AcceptChecksums(p) PROVE Moves BY <1>33, Unseen DEF AcceptChecksums, At, Goto
<1>34. ASSUME NEW p \in Procs, ChecksumsCreate(p) PROVE Moves BY <1>34, Unseen DEF ChecksumsCreate, At, Goto
<1>35. ASSUME NEW p \in Procs, ChecksumsRename(p) PROVE Moves
 <2>1. UNCHANGED <<tree, events, records, indexes>> /\ volatile' = volatile \cup {"sums"} BY <1>35 DEF ChecksumsRename
 <2> QED BY <2>1, Unseen DEF Marks
<1>36. ASSUME NEW p \in Procs, ChecksumsSync(p) PROVE Moves
 <2>1. Marks \cap RootEntries = {} BY PathsAssumption DEF Entries, Paths, Marks, RootEntries
 <2>2. UNCHANGED <<tree, events, records, indexes>> BY <1>36 DEF ChecksumsSync
 <2>3. volatile' = volatile \/ volatile' = volatile \ RootEntries BY <1>36 DEF ChecksumsSync, SyncRoot
 <2> QED BY <2>1, <2>2, <2>3, Unseen
<1>37. ASSUME NEW p \in Procs, PublishRecord(p) PROVE Moves
 <2>1. UNCHANGED <<tree, events, indexes>> BY <1>37 DEF PublishRecord
 <2>2. CASE records = {} /\ volatile' = volatile \cup {"record"}
  <3>1. ~Sealed /\ ~Sealed' /\ (Alive => Alive') /\ (Decided => Decided' /\ Last' = Last)
    BY <2>1, <2>2 DEF Sealed, Alive, Decided, Terminal, Last
  <3> QED BY <3>1, OpenOn
 <2>3. CASE UNCHANGED <<records, volatile>> BY <2>1, <2>3, Unseen
 <2> QED BY <1>37, <2>2, <2>3 DEF PublishRecord
<1>38. ASSUME NEW p \in Procs, RecordSync(p) PROVE Moves
 <2>1. UNCHANGED <<tree, events, records, indexes>> /\ volatile' = volatile \ {"record"} BY <1>38 DEF RecordSync
 <2>2. records # {} /\ tree = "live" BY <1>38 DEF RecordSync, At, SealInv, FinalInv
 <2>3. CASE Sealed BY <2>1, <2>2, <2>3, SealedOn DEF Sealed, Closed
 <2>4. CASE ~Sealed
  <3>1. Sealed' /\ ~Closed' BY <2>1, <2>2 DEF Sealed, Closed
  <3>2. ASSUME NEW r \in records
        PROVE  r.payload.status.event \in Outcomes /\ r.payload.status.event = Last
   <4>1. r.payload.events = events /\ r.payload.status = status BY <2>2, <2>4 DEF Sealed, PendingInv
   <4>2. Terminal(status.event) /\ ChainOf(events, status) BY <4>1 DEF SealInv, Verified
   <4> QED BY <4>1, <4>2 DEF Terminal, ChainOf, Last
  <3> QED BY <2>1, <2>4, <3>1, <3>2, SealsNow
 <2> QED BY <2>3, <2>4
<1>39. ASSUME NEW p \in Procs, PublishIndex(p) PROVE Moves
 <2>1. records # {} /\ "record" \notin volatile /\ tree = "live" BY <1>39 DEF PublishIndex, At, SealInv, FinalInv
 <2>2. records' = records /\ volatile' = volatile \cup {"index"} BY <1>39 DEF PublishIndex
 <2> QED BY <2>1, <2>2, SealedOn DEF Sealed, Closed
<1>40. ASSUME NEW p \in Procs, IndexSync(p) PROVE Moves
 <2>1. records # {} /\ "record" \notin volatile /\ tree = "live" BY <1>40 DEF IndexSync, At, SealInv, FinalInv
 <2>2. records' = records /\ volatile' = volatile \ {"index"} BY <1>40 DEF IndexSync
 <2> QED BY <2>1, <2>2, SealedOn DEF Sealed, Closed
<1>41. ASSUME NEW p \in Procs, FinishFromIndex(p) PROVE Moves
 <2>1. records # {} /\ "record" \notin volatile BY <1>41 DEF FinishFromIndex, At, SealInv
 <2>2. UNCHANGED <<tree, records, indexes>> /\ volatile' = volatile \ {"record", "index"} BY <1>41 DEF FinishFromIndex
 <2>3. Sealed /\ (Closed => Closed') BY <2>1, <2>2 DEF Sealed, Closed
 <2> QED BY <2>1, <2>2, <2>3, SealedOn
<1>42. ASSUME NEW p \in Procs, Teardown(p) PROVE Moves
 <2>1. Durable /\ tree # "absent" BY <1>42 DEF Teardown, At, SealInv
 <2>2. records' = records /\ volatile' \subseteq volatile BY <1>42 DEF Teardown
 <2> QED BY <2>1, <2>2, SealedOn DEF Sealed, Closed, Durable
<1>43. ASSUME NEW p \in Procs, TornDown(p) PROVE Moves BY <1>43, Unseen DEF TornDown, At, Leave
<1>44. ASSUME NEW p \in Procs, Rmdir(p) PROVE Moves
 <2>1. Durable /\ tree = "tearing" BY <1>44 DEF Rmdir, At, SealInv, FreshInv
 <2>2. records' = records /\ volatile' = volatile \cup {"gone"} BY <1>44 DEF Rmdir
 <2> QED BY <2>1, <2>2, SealedOn DEF Sealed, Closed, Durable
<1>45. ASSUME NEW p \in Procs, GoneSync(p) PROVE Moves
 <2>1. Durable BY <1>45 DEF GoneSync, At, SealInv
 <2>2. UNCHANGED <<tree, records, indexes>> /\ volatile' = volatile \ {"active", "gone"} BY <1>45 DEF GoneSync
 <2>3. Sealed /\ (Closed => Closed') /\ "record" \notin volatile' BY <2>1, <2>2 DEF Sealed, Closed, Durable
 <2> QED BY <2>2, <2>3, SealedOn
<1>46. ASSUME NEW p \in Procs, SweepList(p) PROVE Moves BY <1>46, Unseen DEF SweepList, At, Goto
<1>47. ASSUME NEW p \in Procs, SweepLock(p) PROVE Moves BY <1>47, Unseen DEF SweepLock, At, Lock, Leave
<1>48. ASSUME NEW p \in Procs, RefuseStage(p) PROVE Moves BY <1>48, Unseen DEF RefuseStage, At, Refuse, Leave
<1>49. ASSUME NEW p \in Procs, LeaveLiveStage(p) PROVE Moves BY <1>49, Unseen DEF LeaveLiveStage, At, Leave
<1>50. ASSUME NEW p \in Procs, ReclaimStage(p) PROVE Moves BY <1>50, Unseen DEF ReclaimStage, At, Goto
<1>51. ASSUME NEW p \in Procs, RemoveStage(p) PROVE Moves BY <1>51, Unseen DEF RemoveStage, At, Leave
<1>52. ASSUME NEW p \in Procs, Exit(p) PROVE Moves BY <1>52, Unseen DEF Exit, At
<1>53. ASSUME NEW p \in Procs, Kill(p) PROVE Moves BY <1>53, Unseen DEF Kill, At, Leave
<1>54. ASSUME NEW p \in Procs, ErrorInWrite(p) PROVE Moves BY <1>54, Unseen DEF ErrorInWrite, At, Goto
<1>55. ASSUME NEW p \in Procs, Error(p) PROVE Moves BY <1>55, Unseen DEF Error, At, Leave, Staging
<1>56. ASSUME PowerLoss PROVE Moves
 <2>1. volatile' = {} BY <1>56 DEF PowerLoss
 <2>2. PICK lost \in SUBSET volatile :
          /\ StageAfter(lost)
          /\ records' = IF "record" \in lost THEN {} ELSE records
          /\ indexes' = IF "index" \in lost THEN {} ELSE indexes
   BY <1>56 DEF PowerLoss
 <2>3. CASE Sealed
  <3>1. records' = records BY <2>2, <2>3 DEF Sealed
  <3>2. ASSUME Closed PROVE Closed'
   <4>1. tree = "absent" /\ indexes # {} /\ "gone" \notin lost /\ "index" \notin lost BY <3>2 DEF Closed
   <4>2. tree' = "absent" /\ indexes' = indexes BY <2>2, <4>1 DEF StageAfter, TreeAfter
   <4> QED BY <2>1, <2>3, <3>1, <4>1, <4>2 DEF Closed, Sealed
  <3> QED BY <2>1, <2>3, <3>1, <3>2, SealedOn
 <2>4. CASE ~Sealed /\ records' # {}
  <3>1. records' = records /\ records # {} /\ "record" \in volatile BY <2>2, <2>4 DEF Sealed
  <3>2. tree = "live" /\ indexes = {} /\ indexes' = {} BY <2>2, <3>1 DEF PendingInv, SealInv
  <3>3. Sealed' /\ ~Closed' BY <2>1, <2>4, <3>2 DEF Sealed, Closed
  <3>4. ASSUME NEW r \in records
        PROVE  r.payload.status.event \in Outcomes /\ r.payload.status.event = Last
   <4>1. r.payload.events = events /\ r.payload.status = status BY <3>1 DEF PendingInv
   <4>2. Terminal(status.event) /\ ChainOf(events, status) BY <4>1 DEF SealInv, Verified
   <4> QED BY <4>1, <4>2 DEF Terminal, ChainOf, Last
  <3> QED BY <2>4, <3>1, <3>3, <3>4, SealsNow
 <2>5. CASE ~Sealed /\ records' = {}
  <3>1. ~Sealed' BY <2>5 DEF Sealed
  <3>2. ASSUME Alive PROVE Alive' /\ (Decided => Decided' /\ Last' = Last)
   <4>1. tree = "live" /\ "active" \notin lost BY <3>2 DEF Alive
   <4>2. tree' = "live" /\ ("event" \notin lost => events' = events) BY <2>2, <4>1 DEF StageAfter, TreeAfter
   <4> QED BY <2>1, <3>1, <4>2 DEF Alive, Decided, Terminal, Last
  <3> QED BY <2>5, <3>1, <3>2, OpenOn
 <2> QED BY <2>3, <2>4, <2>5
<1>57. CASE UNCHANGED vars BY <1>57, Unseen
<1> HIDE DEF IInv, TypeInv, ProcInv
<1> QED BY <1>1, <1>2, <1>3, <1>4, <1>5, <1>6, <1>7, <1>8, <1>9, <1>10, <1>11, <1>12,
     <1>13, <1>14, <1>15, <1>16, <1>17, <1>18, <1>19, <1>20, <1>21, <1>22, <1>23, <1>24,
     <1>25, <1>26, <1>27, <1>28, <1>29, <1>30, <1>31, <1>32, <1>33, <1>34, <1>35, <1>36,
     <1>37, <1>38, <1>39, <1>40, <1>41, <1>42, <1>43, <1>44, <1>45, <1>46, <1>47, <1>48,
     <1>49, <1>50, <1>51, <1>52, <1>53, <1>54, <1>55, <1>56, <1>57
     DEF Next, Allocation, Journal, Session, Recovery, Finalization, Sweep, Fault

\* A record is pending only while it is the tree's.
THEOREM RecordsOfTrees == Spec => []PendingInv
<1>1. Init => PendingInv BY DEF Init, PendingInv
<1>2. IInv /\ OwnerInv /\ PendingInv /\ [Next]_vars => PendingInv' BY PendingStep
<1> QED BY <1>1, <1>2, Invariance, OwnersInvariance, PTL DEF Spec

\* Whatever is killed, raises or loses power, the run goes through its life once
\* and with one outcome: a durable terminal event is never replaced, the record
\* carries it, and no other run is begun under its id.
THEOREM LifecycleKept == Spec => ImplementsLifecycle
<1>1. Init => Lifecycle!Init
 <2> SUFFICES ASSUME Init PROVE Lifecycle!Init OBVIOUS
 <2>1. ~Sealed /\ ~Alive BY DEF Init, Sealed, Alive
 <2> QED BY <2>1, Telling DEF Told, Lifecycle!Init
<1>2. IInv /\ OwnerInv /\ PendingInv /\ [Next]_vars => [Lifecycle!Next]_Lifecycle!vars
  BY MovesStep DEF Moves, Lifecycle!vars
<1>3. Spec => Lifecycle!Spec BY <1>1, <1>2, Invariance, OwnersInvariance, RecordsOfTrees, PTL DEF Spec, Lifecycle!Spec
<1> QED BY <1>3, IdentityKept DEF ImplementsLifecycle
=============================================================================

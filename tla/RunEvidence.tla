----------------------------- MODULE RunEvidence -----------------------------
(***************************************************************************)
(* One run of runs/: allocation, the event journal and its status          *)
(* projection, the live session, finalization (checksums, record, index,   *)
(* teardown) and recovery, as src/strixlab/evidence.py performs them on    *)
(* the file system.  Every action is one durable effect or one fsync, so   *)
(* that a process may be killed, an operation may raise and the power may  *)
(* fail between any two of them.                                           *)
(*                                                                         *)
(* Data is abstract.  An event is its state, a terminal one its outcome;   *)
(* its place in the journal stands for its hash links.  A local evidence   *)
(* file is its path.  Directories that hold at most one entry of this run  *)
(* (records/, indexes/, checksums.sha256) are sets of at most one element. *)
(***************************************************************************)
EXTENDS Naturals, Sequences, FiniteSets

CONSTANTS Procs,          \* process slots; a killed one is used again
          RootPaths,      \* local evidence written at the run root
          NestedPaths,    \* local evidence written below a subdirectory
          Nobody,         \* the holder of a free lock
          MaxKills,       \* bound: processes killed
          MaxLosses,      \* bound: power failures
          MaxErrors       \* bound: operations that raise OSError

Paths    == RootPaths \cup NestedPaths
Outcomes == {"SUCCESS", "FAILURE", "INTERRUPTED"}
Event    == {"ALLOCATED", "ACTIVE"} \cup Outcomes
Status   == [seq : Nat, event : Event]
Entries  == {"active", "event", "status", "sums", "record", "index", "gone"}

ASSUME SlotsAssumption == Nobody \notin Procs
ASSUME PathsAssumption == /\ RootPaths \cap NestedPaths = {}
                          /\ Paths \cap (Entries \cup Event) = {}
ASSUME BoundsAssumption == MaxKills \in Nat /\ MaxLosses \in Nat /\ MaxErrors \in Nat

VARIABLES
  lock,          \* locks/<run-id>.lock: a process, or Nobody
  pc,            \* where each process is; "idle" outside every operation
  role,          \* "owner" of a session, "recoverer", or "none"
  known,         \* the RunStatusV1 each process holds in memory
  writing,       \* the event or the local path each process is publishing
  stage,         \* allocation-staging/.<run-id>.<hex>.tmp
  owner,         \* the process run.json names
  ownerAlive,    \* _owner_alive of that process
  tree,          \* active/<run-id>
  events,        \* events/00000001.json, ...
  eventTemp,     \* the writer temps in events/
  status,        \* status.json
  syncedStatus,  \* the status.json a power failure falls back to
  statusTemps,   \* how many .status.json.<hex>.tmp there are
  files,         \* local evidence committed under its name
  strays,        \* local evidence paths with a writer temp
  portable,      \* portable/: "clean", or with what an unfinished write left
  sums,          \* checksums.sha256
  sumsTemps,     \* how many .checksums.sha256.<hex>.tmp there are
  records,       \* records/<run-id>
  indexes,       \* indexes/<run-id>.json
  volatile,      \* directory entries renamed and not yet fsynced
  refused,       \* ghost: why an operation failed closed, so far
  kills, losses, errors

procVars    == <<lock, pc, role, known, writing>>
stageVars   == <<stage, owner, ownerAlive>>
journalVars == <<events, eventTemp, status, syncedStatus, statusTemps>>
payloadVars == <<files, strays, portable>>
sumsVars    == <<sums, sumsTemps>>
sealVars    == <<records, indexes>>
faultVars   == <<kills, losses, errors>>
treeVars    == <<tree, journalVars, payloadVars, sumsVars>>
diskVars    == <<stageVars, treeVars, sealVars, volatile>>
vars        == <<procVars, diskVars, refused, faultVars>>

Allocated == [seq |-> 1, event |-> "ALLOCATED"]

\* The tree as _stage_run builds it, before any later step.
FreshTree ==
  /\ events' = <<"ALLOCATED">>
  /\ eventTemp' = "none"
  /\ status' = Allocated
  /\ syncedStatus' = Allocated
  /\ statusTemps' = 0
  /\ files' = {}
  /\ strays' = {}
  /\ portable' = "clean"
  /\ sums' = {}
  /\ sumsTemps' = 0

Init ==
  /\ lock = Nobody
  /\ pc = [p \in Procs |-> "idle"]
  /\ role = [p \in Procs |-> "none"]
  /\ known = [p \in Procs |-> Allocated]
  /\ writing = [p \in Procs |-> "ALLOCATED"]
  /\ stage = "none"
  /\ owner = Nobody
  /\ ownerAlive = FALSE
  /\ tree = "absent"
  /\ events = <<"ALLOCATED">>
  /\ eventTemp = "none"
  /\ status = Allocated
  /\ syncedStatus = Allocated
  /\ statusTemps = 0
  /\ files = {} /\ strays = {} /\ portable = "clean"
  /\ sums = {} /\ sumsTemps = 0
  /\ records = {} /\ indexes = {}
  /\ volatile = {}
  /\ refused = {}
  /\ kills = 0 /\ losses = 0 /\ errors = 0

-----------------------------------------------------------------------------
(* Steps of a process *)

At(p, l) == pc[p] = l

Goto(p, l) ==
  /\ pc' = [pc EXCEPT ![p] = l]
  /\ UNCHANGED <<lock, role, known, writing>>

\* Mutant of Lock: the attempt's status is not looked at.
LockUnchecked(p, r, l) ==
  /\ lock' = p
  /\ pc' = [pc EXCEPT ![p] = l]
  /\ role' = [role EXCEPT ![p] = r]
  /\ UNCHANGED <<known, writing>>

\* Enter the critical section: exclusive_lock does not wait.
Lock(p, r, l) ==
  /\ lock = Nobody
  /\ lock' = p
  /\ pc' = [pc EXCEPT ![p] = l]
  /\ role' = [role EXCEPT ![p] = r]
  /\ UNCHANGED <<known, writing>>

\* Mutant of Leave: a contended attempt closes the holder's lock.
LeaveUnlocking(p) ==
  /\ lock' = Nobody
  /\ pc' = [pc EXCEPT ![p] = "idle"]
  /\ role' = [role EXCEPT ![p] = "none"]
  /\ known' = [known EXCEPT ![p] = Allocated]
  /\ writing' = [writing EXCEPT ![p] = "ALLOCATED"]

\* The operation returns or raises: the lock closes, the memory is gone.
Leave(p) ==
  /\ lock' = IF lock = p THEN Nobody ELSE lock
  /\ pc' = [pc EXCEPT ![p] = "idle"]
  /\ role' = [role EXCEPT ![p] = "none"]
  /\ known' = [known EXCEPT ![p] = Allocated]
  /\ writing' = [writing EXCEPT ![p] = "ALLOCATED"]

\* The operation raises RunError with nothing on disk to show for it.
Refuse(p, reasons) ==
  /\ reasons # {}
  /\ Leave(p)
  /\ refused' = refused \cup reasons
  /\ UNCHANGED <<diskVars, faultVars>>

\* The entries an fsync of the run root makes durable.
RootEntries == {"status", "sums"} \cup RootPaths

SyncRoot ==
  /\ volatile' = volatile \ RootEntries
  /\ syncedStatus' = status

\* Mutant of Terminal: every state but the first counts.
StartedIsTerminal(e) == e # "ALLOCATED"

Terminal(e) == e \in Outcomes

\* _LEGAL
Legal(from, to) ==
  \/ from = "ALLOCATED" /\ to \in {"ACTIVE"} \cup Outcomes
  \/ from = "ACTIVE" /\ to \in Outcomes

\* What hash_owned_tree sees with n checksum temps at the root.
Payload(n) ==
  [events |-> events, status |-> status, files |-> files, strays |-> strays,
   portable |-> portable, sumsTemps |-> n,
   temps |-> statusTemps # 0 \/ eventTemp # "none"]

-----------------------------------------------------------------------------
(* Allocation: begin_run and _stage_run *)

\* Mutant of Taken: only active/ is looked at.
TakenIfActive == tree # "absent"

Taken == tree # "absent" \/ records # {} \/ indexes # {}

\* One id stands for the fresh random one each attempt draws; it is drawn
\* again only when no staging tree of it is left.
Begin(p) ==
  /\ At(p, "idle")
  /\ ~Taken
  /\ stage = "none"
  /\ Lock(p, "owner", "stage.make")
  /\ owner' = p
  /\ ownerAlive' = TRUE
  /\ UNCHANGED <<stage, treeVars, sealVars, volatile, refused, faultVars>>

\* stage.mkdir, then the manifests, then run.json and the rest, fsynced.  A
\* staging tree is "bare" while it has members and no whole run.json.
Staging == [l \in {"stage.make", "stage.fill", "stage.describe"} |->
              CASE l = "stage.make"     -> <<"none", "empty", "stage.fill">>
                [] l = "stage.fill"     -> <<"empty", "bare", "stage.describe">>
                [] l = "stage.describe" -> <<"bare", "described", "stage.rename">>]

BuildStage(p) ==
  /\ pc[p] \in DOMAIN Staging
  /\ stage = Staging[pc[p]][1]
  /\ stage' = Staging[pc[p]][2]
  /\ Goto(p, Staging[pc[p]][3])
  /\ UNCHANGED <<owner, ownerAlive, treeVars, sealVars, volatile, refused, faultVars>>

\* rename_noreplace of the staging tree to active/<run-id>
Activate(p) ==
  /\ At(p, "stage.rename")
  /\ stage = "described" /\ tree = "absent"
  /\ stage' = "none"
  /\ tree' = "live"
  /\ volatile' = volatile \cup {"active"}
  /\ Goto(p, "stage.sync")
  /\ UNCHANGED <<owner, ownerAlive, journalVars, payloadVars, sumsVars, sealVars,
                 refused, faultVars>>

\* fsync of active/, then _transition to ACTIVE from the status just loaded
ActivateSync(p) ==
  /\ At(p, "stage.sync")
  /\ volatile' = volatile \ {"active", "gone"}
  /\ pc' = [pc EXCEPT ![p] = "event.create"]
  /\ known' = [known EXCEPT ![p] = status]
  /\ writing' = [writing EXCEPT ![p] = "ACTIVE"]
  /\ UNCHANGED <<lock, role, stageVars, treeVars, sealVars, refused, faultVars>>

-----------------------------------------------------------------------------
(* _publish_event: the event under its number, then the status projection *)

EventCreate(p) ==
  /\ At(p, "event.create")
  /\ eventTemp' = IF eventTemp = "none" THEN "torn" ELSE "many"
  /\ Goto(p, "event.write")
  /\ UNCHANGED <<stageVars, tree, events, status, syncedStatus, statusTemps,
                 payloadVars, sumsVars, sealVars, volatile, refused, faultVars>>

EventWrite(p) ==
  /\ At(p, "event.write")
  /\ eventTemp = "torn"
  /\ eventTemp' = "full"
  /\ Goto(p, "event.rename")
  /\ UNCHANGED <<stageVars, tree, events, status, syncedStatus, statusTemps,
                 payloadVars, sumsVars, sealVars, volatile, refused, faultVars>>

\* The number comes from the status in memory; the name must be free.
EventRename(p) ==
  /\ At(p, "event.rename")
  /\ Len(events) = known[p].seq
  /\ events' = Append(events, writing[p])
  /\ eventTemp' = "none"
  /\ volatile' = volatile \cup {"event"}
  /\ Goto(p, "event.sync")
  /\ UNCHANGED <<stageVars, tree, status, syncedStatus, statusTemps,
                 payloadVars, sumsVars, sealVars, refused, faultVars>>

EventSync(p) ==
  /\ At(p, "event.sync")
  /\ volatile' = volatile \ {"event"}
  /\ Goto(p, "status.create")
  /\ UNCHANGED <<stageVars, treeVars, sealVars, refused, faultVars>>

StatusCreate(p) ==
  /\ At(p, "status.create")
  /\ statusTemps' = statusTemps + 1
  /\ Goto(p, "status.rename")
  /\ UNCHANGED <<stageVars, tree, events, eventTemp, status, syncedStatus,
                 payloadVars, sumsVars, sealVars, volatile, refused, faultVars>>

StatusRename(p) ==
  /\ At(p, "status.rename")
  /\ status' = [seq |-> known[p].seq + 1, event |-> writing[p]]
  /\ known' = [known EXCEPT ![p] = status']
  /\ statusTemps' = statusTemps - 1
  /\ volatile' = volatile \cup {"status"}
  /\ pc' = [pc EXCEPT ![p] = "status.sync"]
  /\ UNCHANGED <<lock, role, writing, stageVars, tree, events, eventTemp,
                 syncedStatus, payloadVars, sumsVars, sealVars, refused, faultVars>>

\* An owner goes on to its session or to finalization; a recoverer judges the
\* status it has adopted or published.
AfterStatus(p) ==
  IF role[p] # "owner" THEN "judge"
    ELSE IF Terminal(writing[p]) THEN "complete" ELSE "session"

StatusSync(p) ==
  /\ At(p, "status.sync")
  /\ SyncRoot
  /\ Goto(p, AfterStatus(p))
  /\ UNCHANGED <<stageVars, tree, events, eventTemp, status, statusTemps,
                 payloadVars, sumsVars, sealVars, refused, faultVars>>

-----------------------------------------------------------------------------
(* The live session: RunSession *)

\* write_evidence: a writer temp beside the file ...
LocalCreate(p, f) ==
  /\ At(p, "session")
  /\ f \notin files \cup strays
  /\ strays' = strays \cup {f}
  /\ volatile' = volatile \cup {f}
  /\ pc' = [pc EXCEPT ![p] = "local.rename"]
  /\ writing' = [writing EXCEPT ![p] = f]
  /\ UNCHANGED <<lock, role, known, stageVars, tree, journalVars, files, portable,
                 sumsVars, sealVars, refused, faultVars>>

\* ... renamed without replacement ...
LocalRename(p) ==
  /\ At(p, "local.rename")
  /\ files' = files \cup {writing[p]}
  /\ strays' = strays \ {writing[p]}
  /\ Goto(p, "local.sync")
  /\ UNCHANGED <<stageVars, tree, journalVars, portable, sumsVars, sealVars,
                 volatile, refused, faultVars>>

\* ... and its directory fsynced.
LocalSync(p) ==
  /\ At(p, "local.sync")
  /\ volatile' = volatile \ {writing[p]}
  /\ Goto(p, "session")
  /\ UNCHANGED <<stageVars, treeVars, sealVars, refused, faultVars>>

\* write_portable, of which only what a crash may leave is kept: a torn writer
\* temp, then a whole temp or a blob no entry names, then a committed entry.
WritePortable(p) ==
  /\ \/ At(p, "session") /\ portable = "clean" /\ portable' = "torn"
        /\ Goto(p, "portable.fill")
     \/ At(p, "portable.fill") /\ portable' = "orphan" /\ Goto(p, "portable.commit")
     \/ At(p, "portable.commit") /\ portable' = "clean" /\ Goto(p, "session")
  /\ UNCHANGED <<stageVars, tree, journalVars, files, strays, sumsVars, sealVars,
                 volatile, refused, faultVars>>

\* succeed, fail, or __exit__ with FAILURE
Finish(p, o) ==
  /\ At(p, "session")
  /\ Legal(known[p].event, o)
  /\ pc' = [pc EXCEPT ![p] = "event.create"]
  /\ writing' = [writing EXCEPT ![p] = o]
  /\ UNCHANGED <<lock, role, known, diskVars, refused, faultVars>>

-----------------------------------------------------------------------------
(* Recovery: _recover_locked *)

Recover(p) ==
  /\ At(p, "idle")
  /\ Lock(p, "recoverer", "recover")
  /\ UNCHANGED <<diskVars, refused, faultVars>>

\* Mutant of Orphan: an event beyond the status is not adopted.
NoOrphan == FALSE

Orphan == Len(events) > status.seq

\* What _authenticate_active_root and _reconcile_orphan_event reject
EntryComplaints ==
  {c \in {"record", "tree", "event temp", "orphan"} :
     \/ c = "record" /\ tree = "absent" /\ records # {}
     \/ c = "tree" /\ tree = "tearing"
     \/ c = "event temp" /\ tree = "live" /\ eventTemp \in {"torn", "many"}
     \/ c = "orphan" /\ tree = "live" /\ Orphan
        /\ ~Legal(status.event, events[status.seq + 1])}

RefuseEntry(p) ==
  /\ At(p, "recover")
  /\ indexes = {}
  /\ Refuse(p, EntryComplaints)

UnknownRun(p) ==
  /\ At(p, "recover")
  /\ indexes = {} /\ tree = "absent" /\ records = {}
  /\ Leave(p)
  /\ UNCHANGED <<diskVars, refused, faultVars>>

\* An index already published: _finish_from_index
RecoverFromIndex(p) ==
  /\ At(p, "recover")
  /\ indexes # {}
  /\ Goto(p, "finish")
  /\ UNCHANGED <<diskVars, refused, faultVars>>

Entered(p) ==
  /\ At(p, "recover")
  /\ indexes = {} /\ tree = "live" /\ EntryComplaints = {}

\* _reconcile_event_temp: a whole temp that links as the next event is removed
DropEventTemp(p) ==
  /\ Entered(p)
  /\ eventTemp = "full"
  /\ eventTemp' = "none"
  /\ UNCHANGED <<procVars, stageVars, tree, events, status, syncedStatus,
                 statusTemps, payloadVars, sumsVars, sealVars, volatile,
                 refused, faultVars>>

\* _reconcile_orphan_event: fsync events/, then rewrite the status projection
AdoptOrphan(p) ==
  /\ Entered(p)
  /\ eventTemp = "none" /\ Orphan
  /\ volatile' = volatile \ {"event"}
  /\ pc' = [pc EXCEPT ![p] = "status.create"]
  /\ known' = [known EXCEPT ![p] = status]
  /\ writing' = [writing EXCEPT ![p] = events[status.seq + 1]]
  /\ UNCHANGED <<lock, role, stageVars, treeVars, sealVars, refused, faultVars>>

LoadStatus(p) ==
  /\ Entered(p)
  /\ eventTemp = "none" /\ ~Orphan
  /\ pc' = [pc EXCEPT ![p] = "judge"]
  /\ known' = [known EXCEPT ![p] = status]
  /\ UNCHANGED <<lock, role, writing, diskVars, refused, faultVars>>

\* _verify_event_chain: the journal has exactly the events status.json counts,
\* each legal after the one before, and the last is the one it projects.
ChainOf(evs, st) ==
  /\ Len(evs) = st.seq
  /\ evs[1] = "ALLOCATED"
  /\ \A i \in 2 .. Len(evs) : Legal(evs[i - 1], evs[i])
  /\ evs[Len(evs)] = st.event

RefuseChain(p) ==
  /\ At(p, "judge")
  /\ ~ChainOf(events, known[p])
  /\ Refuse(p, {"chain"})

Judged(p) == At(p, "judge") /\ ChainOf(events, known[p])

CompleteTerminal(p) ==
  /\ Judged(p)
  /\ Terminal(known[p].event)
  /\ Goto(p, "complete")
  /\ UNCHANGED <<diskVars, refused, faultVars>>

\* Mutant of ReportBusy: every nonterminal run is busy.
ReportBusyAlways(p) ==
  /\ Judged(p)
  /\ ~Terminal(known[p].event)
  /\ Leave(p)
  /\ UNCHANGED <<diskVars, refused, faultVars>>

\* RunBusy: a run whose owner lives is left alone
ReportBusy(p) ==
  /\ Judged(p)
  /\ ~Terminal(known[p].event)
  /\ ownerAlive
  /\ Leave(p)
  /\ UNCHANGED <<diskVars, refused, faultVars>>

\* Mutant of Interrupt: the owner is not asked after.
InterruptLiving(p) ==
  /\ Judged(p)
  /\ ~Terminal(known[p].event)
  /\ pc' = [pc EXCEPT ![p] = "event.create"]
  /\ writing' = [writing EXCEPT ![p] = "INTERRUPTED"]
  /\ UNCHANGED <<lock, role, known, diskVars, refused, faultVars>>

\* Mutant of Interrupt: a terminal status is not noticed.
InterruptTerminal(p) ==
  /\ Judged(p)
  /\ ~ownerAlive
  /\ pc' = [pc EXCEPT ![p] = "event.create"]
  /\ writing' = [writing EXCEPT ![p] = "INTERRUPTED"]
  /\ UNCHANGED <<lock, role, known, diskVars, refused, faultVars>>

Interrupt(p) ==
  /\ Judged(p)
  /\ ~Terminal(known[p].event)
  /\ ~ownerAlive
  /\ pc' = [pc EXCEPT ![p] = "event.create"]
  /\ writing' = [writing EXCEPT ![p] = "INTERRUPTED"]
  /\ UNCHANGED <<lock, role, known, diskVars, refused, faultVars>>

-----------------------------------------------------------------------------
(* Finalization: _complete_finalization *)

\* Mutant of ControlComplaints: other temps at the root are passed over.
KnownTempComplaints ==
  {c \in {"status temps", "sums temps"} :
     \/ c = "status temps" /\ statusTemps > 1
     \/ c = "sums temps" /\ sumsTemps > 1}

ControlComplaints ==
  {c \in {"status temps", "sums temps", "root temp"} :
     \/ c = "status temps" /\ statusTemps > 1
     \/ c = "sums temps" /\ sumsTemps > 1
     \/ c = "root temp" /\ strays \cap RootPaths # {}}

RefuseControl(p) ==
  /\ At(p, "complete")
  /\ Refuse(p, ControlComplaints)

\* _reconcile_control_temps
ClearControlTemps(p) ==
  /\ At(p, "complete")
  /\ ControlComplaints = {}
  /\ statusTemps' = 0 /\ sumsTemps' = 0
  /\ IF statusTemps + sumsTemps = 0 THEN UNCHANGED <<volatile, syncedStatus>>
                                    ELSE SyncRoot
  /\ Goto(p, "portable")
  /\ UNCHANGED <<stageVars, tree, events, eventTemp, status, payloadVars, sums,
                 sealVars, refused, faultVars>>

RefusePortable(p) ==
  /\ At(p, "portable")
  /\ portable = "torn"
  /\ Refuse(p, {"portable"})

\* _recover_portable
ReconcilePortable(p) ==
  /\ At(p, "portable")
  /\ portable # "torn"
  /\ portable' = "clean"
  /\ Goto(p, "sums")
  /\ UNCHANGED <<stageVars, tree, journalVars, files, strays, sumsVars, sealVars,
                 volatile, refused, faultVars>>

RefuseChecksums(p) ==
  /\ At(p, "sums")
  /\ sums # {} /\ Payload(sumsTemps) \notin sums
  /\ Refuse(p, {"sums"})

\* Mutant of AcceptChecksums: the file is trusted as it is.
TrustChecksums(p) ==
  /\ At(p, "sums")
  /\ sums # {}
  /\ Goto(p, "record")
  /\ UNCHANGED <<diskVars, refused, faultVars>>

\* _verify_checksums of the file a crashed finalization left
AcceptChecksums(p) ==
  /\ At(p, "sums")
  /\ Payload(sumsTemps) \in sums
  /\ Goto(p, "record")
  /\ UNCHANGED <<diskVars, refused, faultVars>>

\* The lines are computed before their own temp is created.
ChecksumsCreate(p) ==
  /\ At(p, "sums")
  /\ sums = {}
  /\ sumsTemps' = sumsTemps + 1
  /\ Goto(p, "sums.rename")
  /\ UNCHANGED <<stageVars, tree, journalVars, payloadVars, sums, sealVars,
                 volatile, refused, faultVars>>

ChecksumsRename(p) ==
  /\ At(p, "sums.rename")
  /\ sums' = {Payload(sumsTemps - 1)}
  /\ sumsTemps' = sumsTemps - 1
  /\ volatile' = volatile \cup {"sums"}
  /\ Goto(p, "sums.sync")
  /\ UNCHANGED <<stageVars, tree, journalVars, payloadVars, sealVars, refused, faultVars>>

ChecksumsSync(p) ==
  /\ At(p, "sums.sync")
  /\ SyncRoot
  /\ Goto(p, "record")
  /\ UNCHANGED <<stageVars, tree, events, eventTemp, status, statusTemps,
                 payloadVars, sumsVars, sealVars, refused, faultVars>>

\* publish_record: a fsynced copy of the live tree renamed into records/; a
\* record a crashed finalization left is accepted.
PublishRecord(p) ==
  /\ At(p, "record")
  /\ \/ /\ records = {}
        /\ records' = {[payload |-> Payload(sumsTemps), sums |-> s] : s \in sums}
        /\ volatile' = volatile \cup {"record"}
     \/ records # {} /\ UNCHANGED <<records, volatile>>
  /\ Goto(p, "record.sync")
  /\ UNCHANGED <<stageVars, treeVars, indexes, refused, faultVars>>

RecordSync(p) ==
  /\ At(p, "record.sync")
  /\ volatile' = volatile \ {"record"}
  /\ Goto(p, "index")
  /\ UNCHANGED <<stageVars, treeVars, sealVars, refused, faultVars>>

\* _verify_finalized_record
Verified(r) ==
  /\ Terminal(r.payload.status.event)
  /\ ChainOf(r.payload.events, r.payload.status)
  /\ ~r.payload.temps
  /\ r.sums = r.payload

\* _build_index and _publish_index
PublishIndex(p) ==
  /\ At(p, "index")
  /\ \A r \in records : Verified(r)
  /\ indexes' = {[outcome |-> r.payload.status.event, record |-> r] : r \in records}
  /\ volatile' = volatile \cup {"index"}
  /\ Goto(p, "index.sync")
  /\ UNCHANGED <<stageVars, treeVars, records, refused, faultVars>>

IndexSync(p) ==
  /\ At(p, "index.sync")
  /\ volatile' = volatile \ {"index"}
  /\ Goto(p, "teardown")
  /\ UNCHANGED <<stageVars, treeVars, sealVars, refused, faultVars>>

Binds(i, r) ==
  /\ Verified(r)
  /\ i.record = r
  /\ i.outcome = r.payload.status.event

\* Mutant of FinishFromIndex: the directories are not fsynced.
FinishUnsynced(p) ==
  /\ At(p, "finish")
  /\ \A i \in indexes : \E r \in records : Binds(i, r)
  /\ Goto(p, "teardown")
  /\ UNCHANGED <<diskVars, refused, faultVars>>

\* _finish_from_index: verify record against index, fsync both directories
FinishFromIndex(p) ==
  /\ At(p, "finish")
  /\ \A i \in indexes : \E r \in records : Binds(i, r)
  /\ volatile' = volatile \ {"record", "index"}
  /\ Goto(p, "teardown")
  /\ UNCHANGED <<stageVars, treeVars, sealVars, refused, faultVars>>

\* _rmtree_fd: from its first unlink on, the tree is no longer the run's
Teardown(p) ==
  /\ At(p, "teardown")
  /\ tree # "absent"
  /\ tree' = "tearing"
  /\ FreshTree
  /\ volatile' = volatile \ ({"event", "status", "sums"} \cup Paths)
  /\ Goto(p, "rmdir")
  /\ UNCHANGED <<stageVars, sealVars, refused, faultVars>>

TornDown(p) ==
  /\ At(p, "teardown")
  /\ tree = "absent"
  /\ Leave(p)
  /\ UNCHANGED <<diskVars, refused, faultVars>>

Rmdir(p) ==
  /\ At(p, "rmdir")
  /\ tree' = "absent"
  /\ volatile' = volatile \cup {"gone"}
  /\ Goto(p, "gone.sync")
  /\ UNCHANGED <<stageVars, journalVars, payloadVars, sumsVars, sealVars, refused, faultVars>>

GoneSync(p) ==
  /\ At(p, "gone.sync")
  /\ volatile' = volatile \ {"active", "gone"}
  /\ Leave(p)
  /\ UNCHANGED <<stageVars, treeVars, sealVars, refused, faultVars>>

-----------------------------------------------------------------------------
(* _reconcile_allocation_staging *)

\* The directory is listed before the lock of the listed run is tried.
SweepList(p) ==
  /\ At(p, "idle")
  /\ stage # "none"
  /\ Goto(p, "sweep.lock")
  /\ UNCHANGED <<diskVars, refused, faultVars>>

\* Mutant of SweepLock: the stage is reconciled without its run's lock.
SweepUnlocked(p) ==
  /\ At(p, "sweep.lock")
  /\ Goto(p, "sweep")
  /\ UNCHANGED <<diskVars, refused, faultVars>>

SweepLock(p) ==
  /\ At(p, "sweep.lock")
  /\ \/ Lock(p, "recoverer", "sweep")
     \/ lock # Nobody /\ Leave(p)
  /\ UNCHANGED <<diskVars, refused, faultVars>>

\* _reconcile_one_stage: the stage listed above may be gone by now
RefuseStage(p) ==
  /\ At(p, "sweep")
  /\ Refuse(p, {c \in {"stage", "vanished stage"} :
                  \/ c = "stage" /\ stage = "bare"
                  \/ c = "vanished stage" /\ stage = "none"})

LeaveLiveStage(p) ==
  /\ At(p, "sweep")
  /\ stage = "described" /\ ownerAlive
  /\ Leave(p)
  /\ UNCHANGED <<diskVars, refused, faultVars>>

\* Its members go in no given order, the directory last.
ReclaimStage(p) ==
  /\ At(p, "sweep")
  /\ \/ stage = "empty"
     \/ stage = "described" /\ ~ownerAlive
  /\ stage' \in {"empty", IF stage = "empty" THEN "empty" ELSE "bare"}
  /\ Goto(p, "sweep.rmdir")
  /\ UNCHANGED <<owner, ownerAlive, treeVars, sealVars, volatile, refused, faultVars>>

RemoveStage(p) ==
  /\ At(p, "sweep.rmdir")
  /\ stage' = "none"
  /\ Leave(p)
  /\ UNCHANGED <<owner, ownerAlive, treeVars, sealVars, volatile, refused, faultVars>>

-----------------------------------------------------------------------------
(* Faults *)

\* A process outside every operation ends; only its being an owner shows.
Exit(p) ==
  /\ At(p, "idle")
  /\ owner = p /\ ownerAlive
  /\ ownerAlive' = FALSE
  /\ UNCHANGED <<procVars, stage, owner, treeVars, sealVars, volatile, refused, faultVars>>

\* SIGKILL: the kernel drops the lock, the disk stays as it is
Kill(p) ==
  /\ kills < MaxKills
  /\ ~At(p, "idle")
  /\ kills' = kills + 1
  /\ Leave(p)
  /\ ownerAlive' = (ownerAlive /\ owner # p)
  /\ UNCHANGED <<stage, owner, treeVars, sealVars, volatile, refused, losses, errors>>

\* A write in a session raises: its temp may stay, the session goes on
ErrorInWrite(p) ==
  /\ errors < MaxErrors
  /\ pc[p] \in {"local.rename", "local.sync", "portable.fill", "portable.commit"}
  /\ errors' = errors + 1
  /\ Goto(p, "session")
  /\ IF At(p, "local.rename") THEN strays' \in {strays, strays \ {writing[p]}}
                              ELSE UNCHANGED strays
  /\ UNCHANGED <<stageVars, tree, journalVars, files, portable, sumsVars, sealVars,
                 volatile, refused, kills, losses>>

\* Any other step raises: the operation ends, its process lives.  A writer
\* temp stays when the write or its fsync failed and goes when the rename did;
\* a failed allocation removes its stage as far as it can.
Error(p) ==
  /\ errors < MaxErrors
  /\ pc[p] \notin {"idle", "session", "sweep.lock", "local.rename", "local.sync",
                   "portable.fill", "portable.commit"}
  /\ errors' = errors + 1
  /\ Leave(p)
  /\ IF pc[p] \in DOMAIN Staging \cup {"stage.rename"}
       THEN stage' \in {stage, "none"} ELSE UNCHANGED stage
  /\ IF At(p, "event.rename") THEN eventTemp' \in {eventTemp, "none"}
                              ELSE UNCHANGED eventTemp
  /\ IF At(p, "status.rename") THEN statusTemps' \in {statusTemps, statusTemps - 1}
                               ELSE UNCHANGED statusTemps
  /\ sumsTemps' = IF At(p, "sums.rename") THEN sumsTemps - 1 ELSE sumsTemps
  /\ UNCHANGED <<owner, ownerAlive, tree, events, status, syncedStatus, payloadVars,
                 sums, sealVars, volatile, refused, kills, losses>>

\* What a power failure leaves of the tree when the entries in lost are lost
TreeAfter(lost) ==
  /\ tree' = IF tree = "absent" /\ "gone" \in lost THEN "tearing" ELSE tree
  /\ events' = IF "event" \in lost THEN SubSeq(events, 1, Len(events) - 1) ELSE events
  /\ eventTemp' \in {eventTemp, "none"}
  /\ status' = IF "status" \in lost THEN syncedStatus ELSE status
  /\ syncedStatus' = status'
  /\ statusTemps' \in 0 .. statusTemps
  /\ files' = files \ lost
  /\ strays' = strays \ lost
  /\ portable' \in {portable, "clean"}
  /\ sums' = IF "sums" \in lost THEN {} ELSE sums
  /\ sumsTemps' \in 0 .. sumsTemps

\* An unsynced rename into active/ is undone: the tree is a stage again.
StageAfter(lost) ==
  IF "active" \in lost /\ (tree # "absent" \/ "gone" \in lost)
    THEN /\ stage' \in {"described"} \cup (IF tree = "live" THEN {} ELSE {"bare", "empty"})
         /\ tree' = "absent"
         /\ FreshTree
    ELSE /\ stage' \in (IF stage = "described" THEN {stage} ELSE {stage, "none"})
         /\ TreeAfter(lost)

\* Power failure: every process is gone with its lock, and any of the entries
\* not yet fsynced may be.
PowerLoss ==
  /\ losses < MaxLosses
  /\ losses' = losses + 1
  /\ lock' = Nobody
  /\ pc' = [p \in Procs |-> "idle"]
  /\ role' = [p \in Procs |-> "none"]
  /\ known' = [p \in Procs |-> Allocated]
  /\ writing' = [p \in Procs |-> "ALLOCATED"]
  /\ ownerAlive' = FALSE
  /\ \E lost \in SUBSET volatile :
       /\ StageAfter(lost)
       /\ records' = IF "record" \in lost THEN {} ELSE records
       /\ indexes' = IF "index" \in lost THEN {} ELSE indexes
  /\ volatile' = {}
  /\ UNCHANGED <<owner, refused, kills, errors>>

-----------------------------------------------------------------------------

Allocation(p) == Begin(p) \/ BuildStage(p) \/ Activate(p) \/ ActivateSync(p)

Journal(p) ==
  \/ EventCreate(p) \/ EventWrite(p) \/ EventRename(p) \/ EventSync(p)
  \/ StatusCreate(p) \/ StatusRename(p) \/ StatusSync(p)

Session(p) ==
  \/ \E f \in Paths : LocalCreate(p, f)
  \/ LocalRename(p) \/ LocalSync(p) \/ WritePortable(p)
  \/ \E o \in {"SUCCESS", "FAILURE"} : Finish(p, o)

Recovery(p) ==
  \/ RefuseEntry(p) \/ UnknownRun(p) \/ RecoverFromIndex(p)
  \/ DropEventTemp(p) \/ AdoptOrphan(p) \/ LoadStatus(p)
  \/ RefuseChain(p) \/ CompleteTerminal(p) \/ ReportBusy(p) \/ Interrupt(p)

Finalization(p) ==
  \/ RefuseControl(p) \/ ClearControlTemps(p)
  \/ RefusePortable(p) \/ ReconcilePortable(p)
  \/ RefuseChecksums(p) \/ AcceptChecksums(p)
  \/ ChecksumsCreate(p) \/ ChecksumsRename(p) \/ ChecksumsSync(p)
  \/ PublishRecord(p) \/ RecordSync(p) \/ PublishIndex(p) \/ IndexSync(p)
  \/ FinishFromIndex(p)
  \/ Teardown(p) \/ TornDown(p) \/ Rmdir(p) \/ GoneSync(p)

Sweep(p) ==
  \/ SweepLock(p) \/ RefuseStage(p) \/ LeaveLiveStage(p)
  \/ ReclaimStage(p) \/ RemoveStage(p)

Fault(p) == Exit(p) \/ Kill(p) \/ ErrorInWrite(p) \/ Error(p)

Next ==
  \/ \E p \in Procs :
       \/ Allocation(p) \/ Journal(p) \/ Session(p)
       \/ Recover(p) \/ Recovery(p) \/ Finalization(p)
       \/ SweepList(p) \/ Sweep(p)
       \/ Fault(p)
  \/ PowerLoss

Spec == Init /\ [][Next]_vars

\* Recovery runs to its end once entered and is asked for again and again; no
\* session needs to end and no process to begin, sweep or exit.
Fairness ==
  /\ \A p \in Procs : WF_vars(Journal(p) \/ Recovery(p) \/ Finalization(p) \/ Sweep(p))
  /\ SF_vars(\E p \in Procs : Recover(p))

FairSpec == Spec /\ Fairness
-----------------------------------------------------------------------------
(* Correctness *)

Labels ==
  {"idle", "stage.make", "stage.fill", "stage.describe", "stage.rename", "stage.sync",
   "event.create", "event.write", "event.rename", "event.sync",
   "status.create", "status.rename", "status.sync",
   "session", "local.rename", "local.sync", "portable.fill", "portable.commit",
   "recover", "judge", "complete", "portable", "sums", "sums.rename", "sums.sync",
   "record", "record.sync", "index", "index.sync", "finish",
   "teardown", "rmdir", "gone.sync", "sweep.lock", "sweep", "sweep.rmdir"}

Reasons == {"record", "tree", "event temp", "orphan", "chain", "status temps",
            "sums temps", "root temp", "portable", "sums", "stage", "vanished stage"}

Payloads == [events : Seq(Event), status : Status, files : SUBSET Paths,
             strays : SUBSET Paths, portable : {"clean", "orphan", "torn"},
             sumsTemps : Nat, temps : BOOLEAN]
Records  == [payload : Payloads, sums : Payloads]
Indexes  == [outcome : Outcomes, record : Records]

ProcTypeOK ==
  /\ lock \in Procs \cup {Nobody}
  /\ pc \in [Procs -> Labels]
  /\ role \in [Procs -> {"none", "owner", "recoverer"}]
  /\ known \in [Procs -> Status]
  /\ writing \in [Procs -> Event \cup Paths]

StageTypeOK ==
  /\ stage \in {"none", "empty", "bare", "described"}
  /\ owner \in Procs \cup {Nobody}
  /\ ownerAlive \in BOOLEAN

TreeTypeOK ==
  /\ tree \in {"absent", "live", "tearing"}
  /\ events \in Seq(Event)
  /\ eventTemp \in {"none", "torn", "full", "many"}
  /\ status \in Status /\ syncedStatus \in Status
  /\ statusTemps \in Nat /\ sumsTemps \in Nat
  /\ files \in SUBSET Paths /\ strays \in SUBSET Paths
  /\ portable \in {"clean", "orphan", "torn"}
  /\ sums \in SUBSET Payloads

SealTypeOK ==
  /\ records \in SUBSET Records
  /\ indexes \in SUBSET Indexes
  /\ volatile \in SUBSET (Entries \cup Paths)

FaultTypeOK ==
  /\ refused \in SUBSET Reasons
  /\ kills \in 0 .. MaxKills /\ losses \in 0 .. MaxLosses /\ errors \in 0 .. MaxErrors

\* Every variable stays within its type.
TypeOK == ProcTypeOK /\ StageTypeOK /\ TreeTypeOK /\ SealTypeOK /\ FaultTypeOK

\* While a process is publishing a transition its status in memory is the one
\* on disk, the next event number is free, and the event it will project is in
\* place: _run_finalization trusts RunSession._status and never reads it again.
KnownIsCurrent ==
  \A p \in Procs :
    /\ pc[p] \in {"event.create", "event.write", "event.rename"} =>
         /\ tree = "live" /\ known[p] = status
         /\ ChainOf(events, status)
         /\ Legal(status.event, writing[p])
    /\ pc[p] \in {"status.create", "status.rename"} =>
         /\ tree = "live" /\ known[p] = status
         /\ Len(events) > status.seq /\ events[status.seq + 1] = writing[p]

\* Nothing finalizes or deletes a run under its live session: the owner lives,
\* holds the lock, its tree is whole and no later step of its run has begun.
SessionIsUndisturbed ==
  \A p \in Procs :
    pc[p] \in {"session", "local.rename", "local.sync", "portable.fill", "portable.commit"} =>
      /\ lock = p /\ owner = p /\ ownerAlive
      /\ tree = "live" /\ events = <<"ALLOCATED", "ACTIVE">> /\ status = known[p]
      /\ sums = {} /\ records = {} /\ indexes = {}

\* The live tree is given up only when record and index are published, durable
\* and agree, whatever failed before: no crash leaves a run without evidence.
TeardownIsSafe ==
  tree = "tearing" \/ (\E p \in Procs : pc[p] \in {"rmdir", "gone.sync"}) =>
    /\ volatile \cap {"record", "index"} = {}
    /\ \E i \in indexes, r \in records : Binds(i, r)

\* The completed record passes its own verifier and the index names it, at every
\* step that relies on it.
VerifierAccepts ==
  /\ \A i \in indexes : \E r \in records : Binds(i, r)
  /\ (\E p \in Procs : pc[p] = "index") => records # {} /\ \A r \in records : Verified(r)

\* INTERRUPTED is for a dead owner: no living owner's run is ever given that
\* outcome by a recoverer.
InterruptedOnlyWhenDead ==
  ("INTERRUPTED" \in {events[i] : i \in DOMAIN events}
     \/ \E r \in records : r.payload.status.event = "INTERRUPTED") => ~ownerAlive

\* The sweep of allocation-staging/ never touches the tree a live allocator is
\* building, although it lists the directory before it holds the lock.
StageIsTheAllocators ==
  \A p \in Procs :
    /\ pc[p] \in DOMAIN Staging => stage = Staging[pc[p]][1] /\ tree = "absent"
    /\ pc[p] = "stage.rename" => stage = "described" /\ tree = "absent"

\* A writer temp that a crash left reaches the immutable record only from below
\* a subdirectory, where no step of finalization looks for one.
RecordStraysAreNested ==
  \A r \in records : /\ r.payload.strays \subseteq NestedPaths
                     /\ ~r.payload.temps /\ r.payload.sumsTemps = 0
                     /\ r.payload.portable = "clean"

\* Recovery fails closed for a fault that explains it and for nothing else: a
\* torn temp needs a fault, two status temps need two, and a journal or payload
\* that contradicts its projection needs a power failure upon another fault.
\* Only the race with an allocator's own stage needs none.
RefusalsHaveACause ==
  LET faults == kills + losses + errors
  IN /\ refused \cap {"tree", "orphan", "sums temps"} = {}
     /\ refused \cap {"event temp", "portable", "root temp", "stage"} # {} => faults >= 1
     /\ "status temps" \in refused => faults >= 2
     /\ refused \cap {"chain", "sums", "record"} # {} => losses >= 1 /\ faults >= 2

\* What outlives the live tree is sound: types hold, the tree is given up only
\* behind a durable record and index, and both pass _verify_finalized_record.
RecordIsSound == TypeOK /\ TeardownIsSafe /\ VerifierAccepts

\* A live owner is left alone by everyone else: by the recoverers of recover_run,
\* in its session and in its status, and by the sweep of allocation-staging/.
OwnersAreUndisturbed ==
  KnownIsCurrent /\ SessionIsUndisturbed /\ StageIsTheAllocators /\ InterruptedOnlyWhenDead

\* A fault does no more than it must: recovery refuses only what a fault explains,
\* and of what a kill left only nested writer temps reach the record.
FaultsAreContained == RecordStraysAreNested /\ RefusalsHaveACause

\* How far the run has durably come, as RunLifecycle tells it.
Sealed  == records # {} /\ "record" \notin volatile
Closed  == Sealed /\ tree = "absent" /\ indexes # {} /\ volatile \cap {"index", "gone"} = {}
Decided == Terminal(events[Len(events)]) /\ "event" \notin volatile
phase   == CASE Closed -> "closed"
             [] ~Closed /\ Sealed -> "sealed"
             [] ~Sealed /\ tree = "live" /\ "active" \notin volatile ->
                  IF Decided THEN "decided" ELSE "open"
             [] OTHER -> "unborn"
outcome == CASE phase \in {"sealed", "closed"} ->
                  (CHOOSE r \in records : TRUE).payload.status.event
             [] phase = "decided" -> events[Len(events)]
             [] OTHER -> "none"

Lifecycle == INSTANCE RunLifecycle

\* A finalized run's id is never given to another run, although its live tree is
\* gone: no step brings active/<run-id> to life beside a durable record.
IdentityIsNotReissued == [][Sealed /\ tree # "live" => tree' # "live"]_vars

\* Whatever is killed, raises or loses power, the run goes through its life once
\* and with one outcome: a durable terminal event is never replaced, the record
\* carries it, and no other run is begun under its id.
ImplementsLifecycle == Lifecycle!Spec /\ IdentityIsNotReissued

\* What makes recovery refuse for good, in the state of the disk between two
\* operations: a torn temp, two status temps, a temp at the root, a journal whose
\* status is not its last event or the one before, checksums of other files.
Irrecoverable ==
  /\ lock = Nobody
  /\ \/ eventTemp \in {"torn", "many"} \/ portable = "torn"
     \/ statusTemps > 1 \/ strays \cap RootPaths # {}
     \/ Len(events) \notin {status.seq, status.seq + 1}
     \/ sums # {} /\ Payload(0) \notin sums

\* A run whose owner is dead comes to its end, if recovery is asked for again and
\* again and faults stop: its tree is gone, or refused for one of the causes above.
DeadRunIsFinalized ==
  (tree # "absent" /\ ~ownerAlive) ~> (tree = "absent" \/ Irrecoverable)

=============================================================================

------------------------ MODULE SourcePreparation_proofs ------------------------
(***************************************************************************)
(* Every safety property of SourcePreparation that the runs check, for any *)
(* number of processes and every bound on faults, edits and events.  All   *)
(* of them follow from the inductive invariant IInv, whose parts each have *)
(* a lemma with one step per action.                                       *)
(***************************************************************************)
EXTENDS SourcePreparation, TLAPS

\* The labels of a preparation before PUBLISHED is recorded, and those of its failure
Making == {"stage"} \cup Tried

\* A process is about to replace current.json after an event that leads to s.
Replacing(p, s) == At(p, "replace") /\ Last.to = s

\* What a preparation records while it goes well
Progress == {"MIRROR_READY", "WORKTREE_CREATED", "CANDIDATE_READY", "PUBLISHED"}

\* A preparation on its way to PUBLISHED
Advancing(p) == pc[p] \in Making \cup {"commit"} \/ \E s \in Progress : Replacing(p, s)

\* Who is past the lock holds it.
LockInv == \A p \in Procs : pc[p] \notin {"idle", "lease", "enter"} => lock = p

\* There is a log from the allocation on, and it ends with the event that is about
\* to be projected.
LogInv ==
  \A p \in Procs :
    /\ At(p, "allocate") => log = << >>
    /\ pc[p] \notin {"idle", "allocate"} => log # << >>
    /\ At(p, "replace") => \E l \in DOMAIN Target : Last.to = Target[l]

\* Before the allocation there is nothing.
FreshInv ==
  log = << >> => current.state = "none" /\ orphans = {}

\* A preparation is alone: nothing is published before it has come to the end, and
\* no git runs beside it.
MakingInv ==
  \A p \in Procs : Advancing(p) => current.state # "PUBLISHED" /\ orphans = {}

\* The labels at which both sides of the worktree are there, and whole
Added == {"adding", "capture", "created", "apply", "evidence", "candidate", "publish", "published"}
\* The steps of a preparation from the applied patches on
Applied == {"evidence", "candidate", "publish", "published"}

\* What a preparation has made so far
MadeInv ==
  \A p \in Procs :
    /\ pc[p] \in Added => admin = "locked" /\ entries
    /\ pc[p] \in Applied => tree = "candidate"
    /\ pc[p] \in Applied \cup {"apply"} => known[p].owned
    /\ At(p, "published") => record
    /\ Replacing(p, "WORKTREE_CREATED") => admin = "locked" /\ entries
    /\ Replacing(p, "CANDIDATE_READY") =>
         tree = "candidate" /\ admin = "locked" /\ entries /\ known[p].owned
    /\ Replacing(p, "PUBLISHED") =>
         tree = "candidate" /\ admin = "locked" /\ entries /\ known[p].owned /\ record

\* Nothing is removed before the clean-up is recorded, by a process or by a git that
\* it left behind.
RemovingInv ==
  /\ \A p \in Procs :
       pc[p] \in Removing \cup {"conclude"} \/ Replacing(p, "CLEANED") =>
         current.state = "CLEANUP_STARTED"
  /\ orphans # {} => current.state # "PUBLISHED"

\* The states before a preparation is published, and those after it
Early == {"ALLOCATED", "MIRROR_READY", "WORKTREE_CREATED", "CANDIDATE_READY"}
Late  == {"PUBLISHED", "CLEANUP_STARTED", "CLEANED"}

\* The labels of a clean-up that has read the registry
Cleaning == {"enter", "check", "announce", "conclude"} \cup Removing

\* The log has come to PUBLISHED.
WasPublished == \E i \in 1 .. Len(log) : log[i].to = "PUBLISHED"

\* Without a fault log and current.json agree between two transitions, and so does
\* what the holder of the lock has in memory.
HistoryInv ==
  kills + errors = 0 =>
    /\ log # << >> /\ (\A p \in Procs : pc[p] \notin {"commit", "replace"})
          => Last.to = current.state
    /\ \A p \in Procs :
         /\ ~At(p, "fail")
         /\ At(p, "commit") => Last.to = "ALLOCATED"
         /\ pc[p] \in Making \cup Removing \cup {"conclude"} => Last.to = known[p].state

\* While a preparation goes well nobody can have read more of it than it recorded.
EarlyInv ==
  \A p \in Procs : Advancing(p) =>
    /\ current.state \in Early \cup {"none"}
    /\ pc[p] # "commit" => known[p].state \in Early
    /\ \A q \in Procs : At(q, "enter") => known[q].state \in Early
    /\ WasPublished => Replacing(p, "PUBLISHED")

\* A failure after the event PUBLISHED breaks the chain.
FailedInv ==
  \A p \in Procs : At(p, "fail") =>
    known[p].state \in Early /\ (WasPublished => Last.to = "PUBLISHED")

\* Along a chain with PUBLISHED in it, who knows of PUBLISHED knows of the digest.
BoundInv ==
  /\ WasPublished => record
  /\ WasPublished /\ Chained =>
       /\ Last.to \in Late
       /\ current.state \in Late => current.bound /\ current.owned
       /\ \A p \in Procs :
            /\ pc[p] \in Cleaning => (known[p].bound /\ known[p].owned) \/ known[p].state \in Early
            /\ At(p, "replace") /\ Last.to \in Late =>
                 known[p].owned /\ (known[p].bound \/ Last.to = "PUBLISHED")

\* The labels of a preparation that owns no worktree yet
Unowned == {"commit", "stage", "mirror", "fetch", "ready", "add", "adding", "capture", "created"}

\* A worktree is owned from WORKTREE_CREATED on, and a git that goes on adding one
\* is of a preparation that never came so far.
OwnerInv ==
  /\ \A p \in Procs :
       pc[p] \in Unowned \/ Replacing(p, "MIRROR_READY") \/ Replacing(p, "WORKTREE_CREATED") =>
         ~current.owned /\ \A q \in Procs : ~known[q].owned
  /\ "add" \in orphans => kills > 0 /\ ~current.owned /\ \A q \in Procs : ~known[q].owned
  /\ current.owned => current.state \notin {"none", "ALLOCATED", "MIRROR_READY"}
  /\ \A q \in Procs : known[q].owned => known[q].state \notin {"none", "ALLOCATED", "MIRROR_READY"}
  /\ \A q \in Procs : pc[q] \in {"idle", "allocate"} => ~known[q].owned

\* What a clean-up has done when it concludes
GoneInv ==
  \A p \in Procs :
    /\ pc[p] \in {"verify", "conclude"} \/ Replacing(p, "CLEANED") => stage = "absent" /\ ~incoming
    /\ At(p, "conclude") \/ Replacing(p, "CLEANED") =>
         /\ known[p].owned \/ kills = 0 => tree = "absent"
         /\ known[p].owned => admin = "absent"

\* Who read no evidence of a worktree that is owned read the registry before there
\* was any.
EvidenceInv ==
  \A p \in Procs :
    pc[p] \in {"enter", "check"} /\ known[p].owned /\ record /\ ~evidence[p] =>
      known[p].state \in {"WORKTREE_CREATED", "CANDIDATE_READY"}

\* Types, and who holds the lock
TypeInv == TypeOK /\ LockInv

\* The inductive invariant
IInv ==
  /\ TypeInv /\ LogInv /\ FreshInv /\ MakingInv /\ MadeInv /\ RemovingInv
  /\ PublishedIsWhole /\ LeaseIsUndisturbed
  /\ HistoryInv /\ LogBreaksAreKnown /\ EarlyInv /\ FailedInv /\ BoundInv
  /\ OwnerInv /\ GoneInv /\ CleanedIsGone /\ EvidenceInv

----------------------------------------
\* The events of the log, one being written among them
Events == [from : States, to : (States \ {"none"}) \cup {"torn"}]

\* The log after one more event
LEMMA Appended ==
  ASSUME log \in Seq(Events), NEW e \in Events, log' = Append(log, e)
  PROVE  log' \in Seq(Events) /\ log' # << >> /\ Last' = e
BY DEF Last

\* The last event of a log that has one
LEMMA LastEvent ==
  ASSUME log \in Seq(Events), log # << >>
  PROVE  Last \in Events
BY DEF Last

\* Every transition leads to a state of its own.
LEMMA Targets ==
  /\ \A l \in DOMAIN Target : Target[l] \in States \ {"none"}
  /\ Target["ready"] = "MIRROR_READY" /\ Target["created"] = "WORKTREE_CREATED"
  /\ Target["candidate"] = "CANDIDATE_READY" /\ Target["published"] = "PUBLISHED"
  /\ Target["fail"] = "FAILED" /\ Target["announce"] = "CLEANUP_STARTED"
  /\ Target["conclude"] = "CLEANED"
  /\ DOMAIN Target =
       {"ready", "created", "candidate", "published", "fail", "announce", "conclude"}
BY DEF Target, States

\* The registry a transition writes is well formed.
LEMMA UpdatedRegistry ==
  ASSUME TypeOK, LogInv, NEW p \in Procs, At(p, "replace")
  PROVE  /\ Updated(p) \in Registries /\ After(Last.to) \in Labels
         /\ Updated(p).state = Last.to
<1>1. PICK l \in DOMAIN Target : Last.to = Target[l] BY DEF LogInv
<1>2. Last.to \in States \ {"none"} BY <1>1, Targets
<1> QED BY <1>2 DEF TypeOK, Updated, Registries, After, Labels, Target, Tried, Removing

\* The variables that processes keep for themselves, and the lock
ProcTypes ==
  /\ lock \in Procs \cup {Nobody} /\ pc \in [Procs -> Labels]
  /\ known \in [Procs -> Registries]
  /\ evidence \in [Procs -> BOOLEAN] /\ force \in [Procs -> BOOLEAN]
  /\ seen \in [Procs -> [tree : BOOLEAN, admin : Entries]]

\* A process that goes on keeps them typed,
LEMMA Goes ==
  ASSUME TypeOK, NEW p \in Procs, NEW l \in Labels, Goto(p, l)
  PROVE  ProcTypes'
BY DEF TypeOK, ProcTypes, Goto

\* and so does one that returns.
LEMMA Returns ==
  ASSUME TypeOK, NEW p \in Procs, Return(p)
  PROVE  ProcTypes'
<1> USE DEF TypeOK, Return
<1>1. lock' \in Procs \cup {Nobody} /\ pc' \in [Procs -> Labels] BY DEF Labels
<1>2. known' \in [Procs -> Registries] BY DEF Unregistered, Registries, States
<1>3. evidence' \in [Procs -> BOOLEAN] /\ force' \in [Procs -> BOOLEAN] OBVIOUS
<1>4. seen' \in [Procs -> [tree : BOOLEAN, admin : Entries]]
 <2>1. Nothing \in [tree : BOOLEAN, admin : Entries] BY DEF Nothing, Entries
 <2> QED BY <2>1
<1> QED BY <1>1, <1>2, <1>3, <1>4 DEF ProcTypes

\* The labels of a preparation, and those of a clean-up, are labels.
LEMMA SomeLabels ==
  /\ Tried \subseteq Labels /\ Removing \subseteq Labels /\ DOMAIN Target \subseteq Labels
  /\ {"idle", "allocate", "commit", "stage", "replace", "return", "lease", "leased", "enter",
      "check", "fail"} \subseteq Labels
BY Targets DEF Labels

\* The types are kept.
LEMMA TypesStep == TypeInv /\ LogInv /\ [Next]_vars => TypeOK'
<1> SUFFICES ASSUME TypeInv, LogInv, [Next]_vars PROVE TypeOK' OBVIOUS
<1> USE SlotsAssumption, BoundsAssumption DEF vars, procVars, logVars, treeVars,
    storeVars, faultVars, TypeInv, TypeOK
<1>1. ASSUME NEW p \in Procs, Prepare(p) PROVE TypeOK' BY <1>1, SomeLabels DEF Prepare, At
<1>2. ASSUME NEW p \in Procs, Allocate(p) PROVE TypeOK'
 <2>1. [from |-> "none", to |-> "ALLOCATED"] \in Events BY DEF Events, States
 <2>2. log' \in Seq(Events) BY <1>2, <2>1 DEF Allocate
 <2>3. ProcTypes' BY <1>2, Goes, SomeLabels DEF Allocate
 <2> QED BY <1>2, <2>2, <2>3 DEF Allocate, Goto, Events, ProcTypes
<1>3. ASSUME NEW p \in Procs, Commit(p) PROVE TypeOK'
 <2>1. known' = [known EXCEPT ![p] = current'] /\ pc' = [pc EXCEPT ![p] = "stage"] BY <1>3 DEF Commit
 <2>2. current' \in Registries BY <1>3 DEF Commit, Unregistered, Registries, States
 <2>3. known' \in [Procs -> Registries] /\ pc' \in [Procs -> Labels] BY <2>1, <2>2, SomeLabels
 <2> QED BY <1>3, <2>2, <2>3 DEF Commit
<1>4. ASSUME NEW p \in Procs, OpenStage(p) PROVE TypeOK'
 <2>1. ProcTypes' BY <1>4, Goes, SomeLabels DEF OpenStage, Tried, At
 <2> QED BY <1>4, <2>1 DEF OpenStage, ProcTypes, Goto
<1>5. ASSUME NEW p \in Procs, StartMirror(p) PROVE TypeOK'
 <2>1. ProcTypes' BY <1>5, Goes, SomeLabels DEF StartMirror, Tried, At
 <2> QED BY <1>5, <2>1 DEF StartMirror, ProcTypes, Goto
<1>6. ASSUME NEW p \in Procs, FetchMirror(p) PROVE TypeOK'
 <2>1. ProcTypes' BY <1>6, Goes, SomeLabels DEF FetchMirror, Tried, At, Target
 <2> QED BY <1>6, <2>1 DEF FetchMirror, ProcTypes, Goto
<1>7. ASSUME NEW p \in Procs, AddEntry(p) PROVE TypeOK'
 <2>1. ProcTypes' BY <1>7, Goes, SomeLabels DEF AddEntry, Tried, At
 <2> QED BY <1>7, <2>1 DEF AddEntry, ProcTypes, Goto, Entries
<1>8. ASSUME NEW p \in Procs, AddTree(p) PROVE TypeOK'
 <2>1. ProcTypes' BY <1>8, Goes, SomeLabels DEF AddTree, Tried, At
 <2> QED BY <1>8, <2>1 DEF AddTree, ProcTypes, Goto
<1>9. ASSUME NEW p \in Procs, Capture(p) PROVE TypeOK'
 <2>1. ProcTypes' BY <1>9, Goes, SomeLabels DEF Capture, Tried, At, Target
 <2> QED BY <1>9, <2>1 DEF Capture, ProcTypes, Goto
<1>10. ASSUME NEW p \in Procs, Apply(p) PROVE TypeOK'
 <2>1. ProcTypes' BY <1>10, Goes, SomeLabels DEF Apply, Tried, At
 <2> QED BY <1>10, <2>1 DEF Apply, ProcTypes, Goto
<1>11. ASSUME NEW p \in Procs, WriteEvidence(p) PROVE TypeOK'
 <2>1. ProcTypes' BY <1>11, Goes, SomeLabels DEF WriteEvidence, Tried, At, Target
 <2> QED BY <1>11, <2>1 DEF WriteEvidence, ProcTypes, Goto
<1>12. ASSUME NEW p \in Procs, PublishRecord(p) PROVE TypeOK'
 <2>1. ProcTypes' BY <1>12, Goes, SomeLabels DEF PublishRecord, Tried, At, Target
 <2> QED BY <1>12, <2>1 DEF PublishRecord, ProcTypes, Goto
<1>13. ASSUME NEW p \in Procs, LoadForLease(p) PROVE TypeOK' BY <1>13, SomeLabels DEF LoadForLease, At
<1>14. ASSUME NEW p \in Procs, Lease(p) PROVE TypeOK' BY <1>14, SomeLabels DEF Lease, At
<1>15. ASSUME NEW p \in Procs, LeaseRefused(p) PROVE TypeOK'
 <2>1. ProcTypes' BY <1>15, Returns DEF LeaseRefused
 <2> QED BY <1>15, <2>1 DEF LeaseRefused, ProcTypes
<1>16. ASSUME NEW p \in Procs, EndLease(p) PROVE TypeOK'
 <2>1. ProcTypes' BY <1>16, Returns DEF EndLease
 <2> QED BY <1>16, <2>1 DEF EndLease, ProcTypes
<1>17. ASSUME NEW p \in Procs, NEW forced \in BOOLEAN, LoadForCleanup(p, forced) PROVE
         TypeOK'
  BY <1>17, SomeLabels DEF LoadForCleanup, At
<1>18. ASSUME NEW p \in Procs, EnterCleanup(p) PROVE TypeOK' BY <1>18, SomeLabels DEF EnterCleanup, At
<1>19. ASSUME NEW p \in Procs, CleanupBusy(p) PROVE TypeOK'
 <2>1. ProcTypes' BY <1>19, Returns DEF CleanupBusy
 <2> QED BY <1>19, <2>1 DEF CleanupBusy, ProcTypes
<1>20. ASSUME NEW p \in Procs, Check(p) PROVE TypeOK' BY <1>20, SomeLabels DEF Check, At, Entries, Target
<1>21. ASSUME NEW p \in Procs, CheckRefused(p) PROVE TypeOK'
 <2>1. ProcTypes' BY <1>21, Returns DEF CheckRefused
 <2> QED BY <1>21, <2>1 DEF CheckRefused, ProcTypes
<1>22. ASSUME NEW p \in Procs, Unlock(p) PROVE TypeOK'
 <2>1. ProcTypes' BY <1>22, Goes, SomeLabels DEF Unlock, Removing
 <2> QED BY <1>22, <2>1 DEF Unlock, ProcTypes, Goto, Entries
<1>23. ASSUME NEW p \in Procs, SkipUnlock(p) PROVE TypeOK'
 <2>1. ProcTypes' BY <1>23, Goes, SomeLabels DEF SkipUnlock, Removing, RemovalOf
 <2> QED BY <1>23, <2>1 DEF SkipUnlock, ProcTypes, Goto
<1>24. ASSUME NEW p \in Procs, RemoveTree(p) PROVE TypeOK'
 <2>1. ProcTypes' BY <1>24, Goes, SomeLabels DEF RemoveTree, Removing
 <2> QED BY <1>24, <2>1 DEF RemoveTree, ProcTypes, Goto, Entries
<1>25. ASSUME NEW p \in Procs, RemoveEntry(p) PROVE TypeOK'
 <2>1. ProcTypes' BY <1>25, Goes, SomeLabels DEF RemoveEntry, Removing
 <2> QED BY <1>25, <2>1 DEF RemoveEntry, ProcTypes, Goto, Entries
<1>26. ASSUME NEW p \in Procs, PruneEntry(p) PROVE TypeOK'
 <2>1. ProcTypes' BY <1>26, Goes, SomeLabels DEF PruneEntry, Removing
 <2> QED BY <1>26, <2>1 DEF PruneEntry, ProcTypes, Goto, Entries
<1>27. ASSUME NEW p \in Procs, PruneTree(p) PROVE TypeOK'
 <2>1. ProcTypes' BY <1>27, Goes, SomeLabels DEF PruneTree, Removing
 <2> QED BY <1>27, <2>1 DEF PruneTree, ProcTypes, Goto, Entries
<1>28. ASSUME NEW p \in Procs, RemoveStrays(p) PROVE TypeOK'
 <2>1. ProcTypes' BY <1>28, Goes, SomeLabels DEF RemoveStrays, Removing
 <2> QED BY <1>28, <2>1 DEF RemoveStrays, ProcTypes, Goto, Entries, Strays
<1>29. ASSUME NEW p \in Procs, VerifyRemoval(p) PROVE TypeOK'
 <2>1. ProcTypes' BY <1>29, Goes, SomeLabels DEF VerifyRemoval, Target
 <2> QED BY <1>29, <2>1 DEF VerifyRemoval, ProcTypes, Goto
<1>30. ASSUME NEW p \in Procs, CleanupFails(p) PROVE TypeOK'
 <2>1. ProcTypes' BY <1>30, Returns DEF CleanupFails
 <2> QED BY <1>30, <2>1 DEF CleanupFails, ProcTypes
<1>31. ASSUME NEW p \in Procs, RecordEvent(p) PROVE TypeOK'
 <2>1. [from |-> known[p].state, to |-> Target[pc[p]]] \in Events BY <1>31, Targets DEF RecordEvent, Events, Registries
 <2>2. log' \in Seq(Events) BY <1>31, <2>1, Appended DEF RecordEvent, Events
 <2>3. ProcTypes' BY <1>31, Goes, SomeLabels DEF RecordEvent
 <2> QED BY <1>31, <2>2, <2>3 DEF RecordEvent, Goto, Events, ProcTypes
<1>32. ASSUME NEW p \in Procs, ReplaceCurrent(p) PROVE TypeOK'
 <2>1. Updated(p) \in Registries /\ After(Last.to) \in Labels BY <1>32, UpdatedRegistry DEF ReplaceCurrent
 <2> QED BY <1>32, <2>1 DEF ReplaceCurrent, Kept
<1>33. ASSUME NEW p \in Procs, Finish(p) PROVE TypeOK'
 <2>1. ProcTypes' BY <1>33, Returns DEF Finish
 <2> QED BY <1>33, <2>1 DEF Finish, ProcTypes
<1>34. ASSUME NEW p \in Procs, Kill(p) PROVE TypeOK'
 <2>1. [from |-> known[p].state, to |-> "torn"] \in Events BY DEF Events, Registries
 <2>2. log' \in Seq(Events) BY <1>34, <2>1, Appended DEF Kill, Halfway, Events
 <2>3. orphans' \subseteq {"add", "remove"} BY <1>34 DEF Kill, Child
 <2>4. ProcTypes' BY <1>34, Returns DEF Kill
 <2>5. tree' \in {"absent", "base", "candidate", "changed", "torn"} /\ admin' \in Entries
   BY <1>34 DEF Kill, Halfway, Entries
 <2> QED BY <1>34, <2>2, <2>3, <2>4, <2>5 DEF Kill, Events, ProcTypes
<1>35. ASSUME NEW p \in Procs, Raise(p) PROVE TypeOK'
 <2>1. [from |-> known[p].state, to |-> "torn"] \in Events BY DEF Events, Registries
 <2>2. log' \in Seq(Events) BY <1>35, <2>1, Appended DEF Raise, Halfway, Events
 <2>3. current' \in Registries BY <1>35, UpdatedRegistry DEF Raise
 <2>4. ProcTypes' BY <1>35, Goes, Returns, SomeLabels DEF Raise
 <2>5. tree' \in {"absent", "base", "candidate", "changed", "torn"} /\ admin' \in Entries
   BY <1>35 DEF Raise, Halfway, Entries
 <2> QED BY <1>35, <2>2, <2>3, <2>4, <2>5 DEF Raise, Events, ProcTypes
<1>36. CASE OrphanAdds BY <1>36, SomeLabels DEF OrphanAdds
<1>37. CASE OrphanRemoves
 <2>1. UNCHANGED <<procVars, logVars, storeVars, kills, errors, edits>> BY <1>37 DEF OrphanRemoves
 <2>2. /\ tree' \in {tree, "absent"} /\ admin' \in {admin, "absent"}
       /\ entries' \in {entries, FALSE} /\ orphans' \subseteq orphans
   BY <1>37 DEF OrphanRemoves
 <2>3. admin' \in Entries /\ entries' \in BOOLEAN BY <2>2 DEF Entries
 <2> QED BY <2>1, <2>2, <2>3
<1>38. CASE Edit BY <1>38, SomeLabels DEF Edit, Entries
<1>39. CASE Sibling BY <1>39, SomeLabels DEF Sibling
<1>40. CASE UNCHANGED vars BY <1>40, SomeLabels
<1> HIDE DEF TypeInv, TypeOK
<1> QED BY <1>1, <1>2, <1>3, <1>4, <1>5, <1>6, <1>7, <1>8, <1>9, <1>10, <1>11, <1>12,
     <1>13, <1>14, <1>15, <1>16, <1>17, <1>18, <1>19, <1>20, <1>21, <1>22, <1>23, <1>24,
     <1>25, <1>26, <1>27, <1>28, <1>29, <1>30, <1>31, <1>32, <1>33, <1>34, <1>35, <1>36,
     <1>37, <1>38, <1>39, <1>40 DEF Next, Work, PrepareStep, LeaseStep, CleanupStep

\* Only the holder of the lock gets past it.
LEMMA LockStep == TypeInv /\ [Next]_vars => LockInv'
<1> SUFFICES ASSUME TypeInv, [Next]_vars PROVE LockInv' OBVIOUS
<1> USE SlotsAssumption, BoundsAssumption DEF vars, procVars, logVars, treeVars,
    storeVars, faultVars, TypeInv, TypeOK, LockInv
<1>1. ASSUME NEW p \in Procs, StartMirror(p) \/ FetchMirror(p) \/ AddEntry(p) \/
         AddTree(p) \/ Capture(p) \/ Apply(p) \/ WriteEvidence(p) \/ PublishRecord(p) \/
         OpenStage(p) \/ Allocate(p) PROVE LockInv'
  BY <1>1 DEF StartMirror, FetchMirror, AddEntry, AddTree, Capture, Apply, WriteEvidence, PublishRecord, OpenStage,
    Allocate, At, Goto
<1>2. ASSUME NEW p \in Procs, Unlock(p) \/ SkipUnlock(p) \/ RemoveTree(p) \/
         RemoveEntry(p) \/ PruneEntry(p) \/ PruneTree(p) \/ RemoveStrays(p) \/
         VerifyRemoval(p) PROVE LockInv'
  BY <1>2 DEF Unlock, SkipUnlock, RemoveTree, RemoveEntry, PruneEntry, PruneTree, RemoveStrays, VerifyRemoval, At,
    Goto
<1>3. ASSUME NEW p \in Procs, LeaseRefused(p) \/ EndLease(p) \/ CleanupBusy(p) \/
         CheckRefused(p) \/ CleanupFails(p) \/ Finish(p) PROVE LockInv'
  BY <1>3 DEF LeaseRefused, EndLease, CleanupBusy, CheckRefused, CleanupFails, Finish, Return
<1>4. ASSUME NEW p \in Procs, Lease(p) \/ EnterCleanup(p) \/ Check(p) \/ LoadForLease(p)
         \/ Prepare(p) PROVE LockInv'
  BY <1>4 DEF Lease, EnterCleanup, Check, LoadForLease, Prepare, At
<1>5. ASSUME NEW p \in Procs, Commit(p) PROVE LockInv' BY <1>5 DEF Commit, At
<1>6. ASSUME NEW p \in Procs, NEW forced \in BOOLEAN, LoadForCleanup(p, forced) PROVE
         LockInv'
  BY <1>6 DEF LoadForCleanup, At
<1>7. ASSUME NEW p \in Procs, RecordEvent(p) PROVE LockInv' BY <1>7 DEF RecordEvent, Target, Goto
<1>8. ASSUME NEW p \in Procs, ReplaceCurrent(p) PROVE LockInv' BY <1>8 DEF ReplaceCurrent, At
<1>9. ASSUME NEW p \in Procs, Kill(p) PROVE LockInv' BY <1>9 DEF Kill, At, Return
<1>10. ASSUME NEW p \in Procs, Raise(p) PROVE LockInv' BY <1>10 DEF Raise, At, InTry, Tried, Removing, Goto, Return
<1>11. CASE OrphanAdds BY <1>11 DEF OrphanAdds
<1>12. CASE OrphanRemoves BY <1>12 DEF OrphanRemoves
<1>13. CASE Edit BY <1>13 DEF Edit
<1>14. CASE Sibling BY <1>14 DEF Sibling
<1>15. CASE UNCHANGED vars BY <1>15
<1> QED BY <1>1, <1>2, <1>3, <1>4, <1>5, <1>6, <1>7, <1>8, <1>9, <1>10, <1>11, <1>12,
     <1>13, <1>14, <1>15 DEF Next, Work, PrepareStep, LeaseStep, CleanupStep

\* The log starts with the allocation and ends with the event in writing.
LEMMA LogStep == TypeInv /\ LogInv /\ [Next]_vars => LogInv'
<1> SUFFICES ASSUME TypeInv, LogInv, [Next]_vars PROVE LogInv' OBVIOUS
<1> USE SlotsAssumption, BoundsAssumption DEF vars, procVars, logVars, treeVars,
    storeVars, faultVars, TypeInv, TypeOK, LockInv, LogInv
<1>1. ASSUME NEW p \in Procs, StartMirror(p) \/ FetchMirror(p) \/ AddEntry(p) \/
         AddTree(p) \/ Capture(p) \/ Apply(p) \/ WriteEvidence(p) \/ PublishRecord(p) \/
         OpenStage(p) PROVE LogInv'
  BY <1>1 DEF StartMirror, FetchMirror, AddEntry, AddTree, Capture, Apply, WriteEvidence, PublishRecord, OpenStage,
    At, Goto, Last
<1>2. ASSUME NEW p \in Procs, Unlock(p) \/ SkipUnlock(p) \/ RemoveTree(p) \/
         RemoveEntry(p) \/ PruneEntry(p) \/ PruneTree(p) \/ RemoveStrays(p) \/
         VerifyRemoval(p) PROVE LogInv'
  BY <1>2 DEF Unlock, SkipUnlock, RemoveTree, RemoveEntry, PruneEntry, PruneTree, RemoveStrays, VerifyRemoval, At,
    Goto, Last, RemovalOf
<1>3. ASSUME NEW p \in Procs, LeaseRefused(p) \/ EndLease(p) \/ CleanupBusy(p) \/
         CheckRefused(p) \/ CleanupFails(p) \/ Finish(p) PROVE LogInv'
  BY SMTT(40), <1>3 DEF LeaseRefused, EndLease, CleanupBusy, CheckRefused, CleanupFails, Finish, At, Return, Last
<1>4. ASSUME NEW p \in Procs, Lease(p) \/ EnterCleanup(p) \/ Check(p) \/ Prepare(p) \/
         Commit(p) PROVE LogInv'
  BY <1>4 DEF Lease, EnterCleanup, Check, Prepare, Commit, At, Last
<1>5. ASSUME NEW p \in Procs, Allocate(p) PROVE LogInv'
 <2>1. log' # << >> BY <1>5 DEF Allocate
 <2> QED BY <1>5, <2>1 DEF Allocate, At, Goto
<1>6. ASSUME NEW p \in Procs, LoadForLease(p) PROVE LogInv' BY <1>6 DEF LoadForLease, At, Last, Loadable, Chained
<1>7. ASSUME NEW p \in Procs, NEW forced \in BOOLEAN, LoadForCleanup(p, forced) PROVE
         LogInv'
  BY <1>7 DEF LoadForCleanup, At, Last, Loadable, Chained
<1>8. ASSUME NEW p \in Procs, RecordEvent(p) PROVE LogInv'
 <2>1. [from |-> known[p].state, to |-> Target[pc[p]]] \in Events BY <1>8, Targets DEF RecordEvent, Events, Registries
 <2>2. log' # << >> /\ Last'.to = Target[pc[p]] BY <1>8, <2>1, Appended DEF RecordEvent, Events
 <2>3. pc[p] \notin {"idle", "lease", "enter", "allocate"} BY <1>8, Targets DEF RecordEvent
 <2>4. Target' = Target BY DEF Target
 <2> QED BY <1>8, <2>2, <2>3, <2>4 DEF RecordEvent, At, Goto
<1>9. ASSUME NEW p \in Procs, ReplaceCurrent(p) PROVE LogInv'
 <2>1. After(Last.to) \notin {"idle", "allocate", "replace"} BY DEF After
 <2> QED BY <1>9, <2>1 DEF ReplaceCurrent, At, Last
<1>10. ASSUME NEW p \in Procs, Kill(p) PROVE LogInv'
 <2>1. log' # << >> \/ log' = log BY <1>10 DEF Kill, Halfway, Events
 <2>2. ASSUME NEW q \in Procs, q # p PROVE pc'[q] = pc[q] BY <1>10, <2>2 DEF Kill, Return
 <2>3. pc'[p] = "idle" BY <1>10 DEF Kill, Return
 <2>4. ASSUME NEW q \in Procs, q # p, pc[q] \notin {"idle", "lease", "enter"}
       PROVE  log' = log
   BY <1>10, <2>4 DEF Kill, Halfway, Target, At
 <2> QED BY <1>10, <2>1, <2>2, <2>3, <2>4 DEF At, Last
<1>11. ASSUME NEW p \in Procs, Raise(p) PROVE LogInv'
 <2>1. log' # << >> \/ log' = log BY <1>11 DEF Raise, Halfway, Events
 <2>2. ASSUME NEW q \in Procs, q # p PROVE pc'[q] = pc[q] BY <1>11, <2>2 DEF Raise, Goto, Return
 <2>3. pc'[p] = "idle" \/ (pc'[p] = "fail" /\ InTry(p)) BY <1>11 DEF Raise, Goto, Return
 <2>4. pc[p] \notin {"idle", "lease", "enter"} /\ (InTry(p) => pc[p] # "allocate")
   BY <1>11 DEF Raise, InTry, Tried, Removing, At
 <2> QED BY <1>11, <2>1, <2>2, <2>3, <2>4 DEF At
<1>12. CASE OrphanAdds BY <1>12 DEF OrphanAdds, At, Last
<1>13. CASE OrphanRemoves BY <1>13 DEF OrphanRemoves, At, Last
<1>14. CASE Edit BY <1>14 DEF Edit, At, Last
<1>15. CASE Sibling BY <1>15 DEF Sibling, At, Last
<1>16. CASE UNCHANGED vars BY <1>16 DEF At, Last
<1> QED BY <1>1, <1>2, <1>3, <1>4, <1>5, <1>6, <1>7, <1>8, <1>9, <1>10, <1>11, <1>12,
     <1>13, <1>14, <1>15, <1>16 DEF Next, Work, PrepareStep, LeaseStep, CleanupStep

\* Nothing is there before the allocation, nor runs.
LEMMA FreshStep == TypeInv /\ LogInv /\ FreshInv /\ [Next]_vars => FreshInv'
<1> SUFFICES ASSUME TypeInv, LogInv, FreshInv, [Next]_vars PROVE FreshInv' OBVIOUS
<1> USE SlotsAssumption, BoundsAssumption DEF vars, procVars, logVars, treeVars,
    storeVars, faultVars, TypeInv, TypeOK, LockInv, LogInv, FreshInv
<1>1. ASSUME NEW p \in Procs, StartMirror(p) \/ FetchMirror(p) \/ AddEntry(p) \/
         AddTree(p) \/ Capture(p) \/ Apply(p) \/ WriteEvidence(p) \/ PublishRecord(p) \/
         OpenStage(p) PROVE FreshInv'
  BY <1>1 DEF StartMirror, FetchMirror, AddEntry, AddTree, Capture, Apply, WriteEvidence, PublishRecord, OpenStage,
    At, Goto
<1>2. ASSUME NEW p \in Procs, Unlock(p) \/ SkipUnlock(p) \/ RemoveTree(p) \/
         RemoveEntry(p) \/ PruneEntry(p) \/ PruneTree(p) \/ RemoveStrays(p) \/
         VerifyRemoval(p) PROVE FreshInv'
  BY <1>2 DEF Unlock, SkipUnlock, RemoveTree, RemoveEntry, PruneEntry, PruneTree, RemoveStrays, VerifyRemoval, At,
    Goto
<1>3. ASSUME NEW p \in Procs, LeaseRefused(p) \/ EndLease(p) \/ CleanupBusy(p) \/
         CheckRefused(p) \/ CleanupFails(p) \/ Finish(p) PROVE FreshInv'
  BY <1>3 DEF LeaseRefused, EndLease, CleanupBusy, CheckRefused, CleanupFails, Finish, Return
<1>4. ASSUME NEW p \in Procs, NEW forced \in BOOLEAN, Lease(p) \/ EnterCleanup(p) \/ Check(p)
           \/ Prepare(p) \/
         LoadForLease(p) \/ LoadForCleanup(p, forced) PROVE FreshInv'
  BY <1>4 DEF Lease, EnterCleanup, Check, Prepare, LoadForLease, LoadForCleanup, At
<1>5. ASSUME NEW p \in Procs, Allocate(p) PROVE FreshInv' BY <1>5 DEF Allocate, At, Goto
<1>6. ASSUME NEW p \in Procs, Commit(p) PROVE FreshInv' BY <1>6 DEF Commit, At
<1>7. ASSUME NEW p \in Procs, RecordEvent(p) PROVE FreshInv'
 <2>1. [from |-> known[p].state, to |-> Target[pc[p]]] \in Events BY <1>7, Targets DEF RecordEvent, Events, Registries
 <2> QED BY <1>7, <2>1, Appended DEF RecordEvent, Events
<1>8. ASSUME NEW p \in Procs, ReplaceCurrent(p) PROVE FreshInv' BY <1>8 DEF ReplaceCurrent, At
<1>9. ASSUME NEW p \in Procs, Kill(p) PROVE FreshInv'
 <2>1. log' # << >> \/ log' = log BY <1>9 DEF Kill, Halfway, Events
 <2>2. CASE At(p, "adding") \/ pc[p] \in {"remove", "removing"} BY <1>9, <2>1, <2>2 DEF Kill, Halfway, At
 <2>3. CASE ~(At(p, "adding") \/ pc[p] \in {"remove", "removing"}) BY <1>9, <2>1, <2>3 DEF Kill, Child
 <2> QED BY <2>2, <2>3
<1>10. ASSUME NEW p \in Procs, Raise(p) PROVE FreshInv'
 <2>1. log' # << >> \/ log' = log BY <1>10 DEF Raise, Halfway, Events
 <2>2. log = << >> => ~At(p, "replace") BY DEF At
 <2> QED BY <1>10, <2>1, <2>2 DEF Raise
<1>11. CASE OrphanAdds BY <1>11 DEF OrphanAdds
<1>12. CASE OrphanRemoves BY <1>12 DEF OrphanRemoves
<1>13. CASE Edit BY <1>13 DEF Edit
<1>14. CASE Sibling BY <1>14 DEF Sibling
<1>15. CASE UNCHANGED vars BY <1>15
<1> QED BY <1>1, <1>2, <1>3, <1>4, <1>5, <1>6, <1>7, <1>8, <1>9, <1>10, <1>11, <1>12,
     <1>13, <1>14, <1>15 DEF Next, Work, PrepareStep, LeaseStep, CleanupStep

\* What the removals of a clean-up have in common
LEMMA Removes ==
  ASSUME TypeInv, NEW p \in Procs,
         Unlock(p) \/ SkipUnlock(p) \/ RemoveTree(p) \/ RemoveEntry(p) \/ PruneEntry(p)
         \/ PruneTree(p) \/ RemoveStrays(p) \/ VerifyRemoval(p)
  PROVE  /\ lock = p /\ pc[p] \in Removing
         /\ pc' = [pc EXCEPT ![p] = pc'[p]] /\ pc'[p] \in Removing \cup {"conclude"}
         /\ UNCHANGED <<known, log, current, record, kills, errors, orphans>>
<1> USE DEF TypeInv, TypeOK, LockInv, Unlock, SkipUnlock, RemoveTree, RemoveEntry, PruneEntry,
    PruneTree, RemoveStrays, VerifyRemoval
<1>1. pc[p] \in Removing BY DEF At, Removing
<1>2. lock = p BY <1>1 DEF Removing
<1>3. \E l \in Removing \cup {"conclude"} : Goto(p, l) BY DEF RemovalOf, Removing
<1>4. pc' = [pc EXCEPT ![p] = pc'[p]] /\ pc'[p] \in Removing \cup {"conclude"} /\ known' = known BY <1>3 DEF Goto
<1>5. UNCHANGED <<log, current, record, kills, errors, orphans>> BY DEF logVars, storeVars, faultVars
<1> QED BY <1>1, <1>2, <1>4, <1>5

\* A step that does not bring a process into a preparation leaves it alone.
LEMMA StillAlone ==
  ASSUME MakingInv, UNCHANGED <<log, current, orphans>>,
         \A q \in Procs : pc'[q] \in Making \cup {"commit", "replace"} => pc'[q] = pc[q]
  PROVE  MakingInv'
BY DEF MakingInv, Advancing, Replacing, At, Last

\* A preparation stays alone until PUBLISHED is recorded.
LEMMA MakingStep == TypeInv /\ LogInv /\ FreshInv /\ MakingInv /\ [Next]_vars => MakingInv'
<1> SUFFICES ASSUME TypeInv, LogInv, FreshInv, MakingInv, [Next]_vars PROVE MakingInv' OBVIOUS
<1> USE SlotsAssumption, BoundsAssumption DEF vars, procVars, logVars, treeVars,
    storeVars, faultVars, TypeInv, TypeOK, LockInv, LogInv, FreshInv, MakingInv
<1>1. ASSUME NEW p \in Procs, StartMirror(p) \/ FetchMirror(p) \/ AddEntry(p) \/
         AddTree(p) \/ Capture(p) \/ Apply(p) \/ WriteEvidence(p) \/ PublishRecord(p) \/
         OpenStage(p) PROVE MakingInv'
  BY <1>1 DEF StartMirror, FetchMirror, AddEntry, AddTree, Capture, Apply, WriteEvidence, PublishRecord, OpenStage,
    At, Goto, Advancing, Replacing, Making, Tried, Progress, Last
<1>2. ASSUME NEW p \in Procs, Unlock(p) \/ SkipUnlock(p) \/ RemoveTree(p) \/
         RemoveEntry(p) \/ PruneEntry(p) \/ PruneTree(p) \/ RemoveStrays(p) \/
         VerifyRemoval(p) PROVE MakingInv'
 <2>1. UNCHANGED <<log, current, orphans>>
   BY <1>2 DEF Unlock, SkipUnlock, RemoveTree, RemoveEntry, PruneEntry, PruneTree, RemoveStrays, VerifyRemoval
 <2>2. pc' = [pc EXCEPT ![p] = pc'[p]] /\ pc'[p] \in Removing \cup {"conclude"}
   BY ZenonT(60), <1>2 DEF Unlock, SkipUnlock, RemoveTree, RemoveEntry, PruneEntry, PruneTree, RemoveStrays,
     VerifyRemoval, Goto, RemovalOf, Removing
 <2>3. \A q \in Procs : pc'[q] \in Making \cup {"commit", "replace"} => pc'[q] = pc[q]
   BY <2>2 DEF Making, Tried, Removing
 <2> QED BY <2>1, <2>3, StillAlone
<1>3. ASSUME NEW p \in Procs, LeaseRefused(p) \/ EndLease(p) \/ CleanupBusy(p) \/
         CheckRefused(p) \/ CleanupFails(p) \/ Finish(p) PROVE MakingInv'
 <2>1. UNCHANGED <<log, current, orphans>>
   BY <1>3 DEF LeaseRefused, EndLease, CleanupBusy, CheckRefused, CleanupFails, Finish
 <2>2. \A q \in Procs : pc'[q] \in Making \cup {"commit", "replace"} => pc'[q] = pc[q]
   BY <1>3 DEF LeaseRefused, EndLease, CleanupBusy, CheckRefused, CleanupFails, Finish, Return, Making, Tried
 <2> QED BY <2>1, <2>2, StillAlone
<1>4. ASSUME NEW p \in Procs, NEW forced \in BOOLEAN, Lease(p) \/ EnterCleanup(p) \/ Check(p)
           \/ Prepare(p) \/
         LoadForLease(p) \/ LoadForCleanup(p, forced) PROVE MakingInv'
 <2>1. UNCHANGED <<log, current, orphans>>
   BY <1>4 DEF Lease, EnterCleanup, Check, Prepare, LoadForLease, LoadForCleanup
 <2>2. \A q \in Procs : pc'[q] \in Making \cup {"commit", "replace"} => pc'[q] = pc[q]
   BY <1>4 DEF Lease, EnterCleanup, Check, Prepare, LoadForLease, LoadForCleanup, At, Making, Tried
 <2> QED BY <2>1, <2>2, StillAlone
<1>5. ASSUME NEW p \in Procs, Allocate(p) PROVE MakingInv'
  BY <1>5 DEF Allocate, At, Goto, Advancing, Replacing, Making, Tried, Progress, Last
<1>6. ASSUME NEW p \in Procs, Commit(p) PROVE MakingInv'
  BY <1>6 DEF Commit, At, Unregistered, Advancing, Replacing, Making, Tried, Progress, Last
<1>7. ASSUME NEW p \in Procs, RecordEvent(p) PROVE MakingInv'
 <2>1. [from |-> known[p].state, to |-> Target[pc[p]]] \in Events BY <1>7, Targets DEF RecordEvent, Events, Registries
 <2>2. Last'.to = Target[pc[p]] BY <1>7, <2>1, Appended DEF RecordEvent, Events
 <2>3. lock = p /\ pc' = [pc EXCEPT ![p] = "replace"] BY <1>7, Targets DEF RecordEvent, Goto
 <2> QED BY <1>7, <2>2, <2>3, Targets DEF RecordEvent, Advancing, Replacing, At, Making, Tried, Progress
<1>8. ASSUME NEW p \in Procs, ReplaceCurrent(p) PROVE MakingInv'
 <2>1. lock = p /\ pc' = [pc EXCEPT ![p] = After(Last.to)] BY <1>8 DEF ReplaceCurrent, At
 <2>2. current'.state = Last.to BY <1>8, UpdatedRegistry DEF ReplaceCurrent
 <2>3. ASSUME NEW q \in Procs, Advancing(q)' PROVE current'.state # "PUBLISHED" /\ orphans' = {}
  <3>1. q = p BY <2>1, <2>3 DEF Advancing, Replacing, At, Making, Tried
  <3>2. After(Last.to) \in Making BY <2>1, <2>3, <3>1 DEF Advancing, Replacing, At, After, Making, Tried
  <3>3. Last.to \in Progress /\ Last.to # "PUBLISHED" BY <3>2 DEF After, Making, Tried, Progress
  <3>4. orphans = {} BY <1>8, <3>3 DEF ReplaceCurrent, Advancing, Replacing
  <3> QED BY <1>8, <2>2, <3>3, <3>4 DEF ReplaceCurrent
 <2> QED BY <2>3
<1>9. ASSUME NEW p \in Procs, Kill(p) PROVE MakingInv'
 <2>1. ASSUME NEW q \in Procs, Advancing(q)' PROVE current'.state # "PUBLISHED" /\ orphans' = {}
  <3>1. q # p /\ pc[q] = pc'[q] BY <1>9, <2>1 DEF Kill, Return, Advancing, Replacing, At, Making, Tried
  <3>2. lock = q BY <2>1, <3>1 DEF Advancing, Replacing, At, Making, Tried
  <3>3. pc[p] \in {"lease", "enter"} BY <1>9, <3>1, <3>2 DEF Kill, At
  <3>4. log' = log /\ Child(p) = {} BY <1>9, <3>3 DEF Kill, Halfway, Child, At, Target
  <3> QED BY <1>9, <2>1, <3>1, <3>4 DEF Kill, Advancing, Replacing, At, Last
 <2> QED BY <2>1
<1>10. ASSUME NEW p \in Procs, Raise(p) PROVE MakingInv'
 <2>1. lock = p BY <1>10 DEF Raise, InTry, At, Tried, Removing
 <2>2. pc'[p] \in {"idle", "fail"} /\ \A q \in Procs : q # p => pc'[q] = pc[q] BY <1>10 DEF Raise, Goto, Return
 <2> QED BY <2>1, <2>2 DEF Advancing, Replacing, At, Making, Tried
<1>11. CASE OrphanAdds BY <1>11 DEF OrphanAdds, Advancing, Replacing, Making, Tried, Progress, Last, At
<1>12. CASE OrphanRemoves BY <1>12 DEF OrphanRemoves, Advancing, Replacing, Making, Tried, Progress, Last, At
<1>13. CASE Edit BY <1>13 DEF Edit, Advancing, Replacing, Making, Tried, Progress, Last, At
<1>14. CASE Sibling BY <1>14 DEF Sibling, Advancing, Replacing, Making, Tried, Progress, Last, At
<1>15. CASE UNCHANGED vars BY <1>15 DEF Advancing, Replacing, Making, Tried, Progress, Last, At
<1> QED BY <1>1, <1>2, <1>3, <1>4, <1>5, <1>6, <1>7, <1>8, <1>9, <1>10, <1>11, <1>12,
     <1>13, <1>14, <1>15 DEF Next, Work, PrepareStep, LeaseStep, CleanupStep

\* What a preparation has made stays while it goes on.
LEMMA MadeStep == TypeInv /\ LogInv /\ FreshInv /\ MakingInv /\ MadeInv /\ [Next]_vars => MadeInv'
<1> SUFFICES ASSUME TypeInv, LogInv, FreshInv, MakingInv, MadeInv, [Next]_vars PROVE MadeInv' OBVIOUS
<1> USE SlotsAssumption, BoundsAssumption DEF vars, procVars, logVars, treeVars,
    storeVars, faultVars, TypeInv, TypeOK, LockInv, LogInv, FreshInv, MakingInv, MadeInv
<1>1. ASSUME NEW p \in Procs, OpenStage(p) \/ StartMirror(p) \/ FetchMirror(p) PROVE
         MadeInv'
  BY <1>1 DEF OpenStage, StartMirror, FetchMirror, At, Goto, Replacing, Last, Added, Applied
<1>2. ASSUME NEW p \in Procs, Unlock(p) \/ SkipUnlock(p) \/ RemoveTree(p) \/
         RemoveEntry(p) \/ PruneEntry(p) \/ PruneTree(p) \/ RemoveStrays(p) \/
         VerifyRemoval(p) PROVE MadeInv'
 <2>1. /\ lock = p /\ pc' = [pc EXCEPT ![p] = pc'[p]]
       /\ pc'[p] \in Removing \cup {"conclude"}
   BY <1>2, Removes
 <2>2. \A q \in Procs : q # p => pc'[q] \in {"idle", "lease", "enter"} BY <2>1
 <2>3. \A q \in Procs : pc'[q] \notin Added \cup Applied \cup {"apply", "published", "replace"}
   BY <2>1, <2>2 DEF Added, Applied, Removing
 <2> QED BY <2>3 DEF Replacing, At
<1>3. ASSUME NEW p \in Procs, LeaseRefused(p) \/ EndLease(p) \/ CleanupBusy(p) \/
         CheckRefused(p) \/ CleanupFails(p) \/ Finish(p) PROVE MadeInv'
  BY <1>3 DEF LeaseRefused, EndLease, CleanupBusy, CheckRefused, CleanupFails, Finish, At, Return, Replacing, Last,
    Added, Applied
<1>4. ASSUME NEW p \in Procs, NEW forced \in BOOLEAN, Lease(p) \/ EnterCleanup(p) \/ Check(p)
           \/ Prepare(p) \/
         LoadForLease(p) \/ LoadForCleanup(p, forced) PROVE MadeInv'
  BY <1>4 DEF Lease, EnterCleanup, Check, Prepare, LoadForLease, LoadForCleanup, At, Replacing, Last, Added, Applied
<1>5. ASSUME NEW p \in Procs, Allocate(p) PROVE MadeInv'
  BY <1>5 DEF Allocate, At, Goto, Replacing, Last, Added, Applied
<1>6. ASSUME NEW p \in Procs, Commit(p) PROVE MadeInv'
  BY <1>6 DEF Commit, At, Unregistered, Replacing, Last, Added, Applied
<1>7. ASSUME NEW p \in Procs, AddEntry(p) PROVE MadeInv'
  BY <1>7 DEF AddEntry, At, Goto, Replacing, Last, Added, Applied
<1>8. ASSUME NEW p \in Procs, AddTree(p) PROVE MadeInv' BY <1>8 DEF AddTree, At, Goto, Replacing, Last, Added, Applied
<1>9. ASSUME NEW p \in Procs, Capture(p) PROVE MadeInv' BY <1>9 DEF Capture, At, Goto, Replacing, Last, Added, Applied
<1>10. ASSUME NEW p \in Procs, Apply(p) PROVE MadeInv' BY <1>10 DEF Apply, At, Goto, Replacing, Last, Added, Applied
<1>11. ASSUME NEW p \in Procs, WriteEvidence(p) PROVE MadeInv'
  BY <1>11 DEF WriteEvidence, At, Goto, Replacing, Last, Added, Applied
<1>12. ASSUME NEW p \in Procs, PublishRecord(p) PROVE MadeInv'
  BY <1>12 DEF PublishRecord, At, Goto, Replacing, Last, Added, Applied
<1>13. ASSUME NEW p \in Procs, RecordEvent(p) PROVE MadeInv'
 <2>1. [from |-> known[p].state, to |-> Target[pc[p]]] \in Events BY <1>13, Targets DEF RecordEvent, Events, Registries
 <2>2. Last'.to = Target[pc[p]] BY <1>13, <2>1, Appended DEF RecordEvent, Events
 <2>3. lock = p /\ pc' = [pc EXCEPT ![p] = "replace"] BY <1>13, Targets DEF RecordEvent, Goto
 <2>4. /\ Target[pc[p]] = "WORKTREE_CREATED" => pc[p] = "created"
       /\ Target[pc[p]] = "CANDIDATE_READY" => pc[p] = "candidate"
       /\ Target[pc[p]] = "PUBLISHED" => pc[p] = "published"
   BY <1>13, Targets DEF RecordEvent
 <2>5. \A q \in Procs : q # p => pc'[q] \in {"idle", "lease", "enter"} BY <2>3
 <2>6. UNCHANGED <<tree, admin, entries, record, known>> /\ pc[p] \in DOMAIN Target BY <1>13 DEF RecordEvent, Goto
 <2>7. pc'[p] = "replace" BY <2>3
 <2>8. \A q \in Procs : pc'[q] \notin Added \cup Applied \cup {"apply", "published"} BY <2>5, <2>7 DEF Added, Applied
 <2>9. \A q \in Procs : At(q, "replace")' => q = p BY <2>5 DEF At
 <2> QED BY <2>2, <2>4, <2>6, <2>8, <2>9 DEF Replacing, At, Added, Applied
<1>14. ASSUME NEW p \in Procs, ReplaceCurrent(p) PROVE MadeInv'
 <2>1. lock = p /\ pc' = [pc EXCEPT ![p] = After(Last.to)] BY <1>14 DEF ReplaceCurrent, At
 <2>2. known'[p].owned = (known[p].owned \/ Last.to = "WORKTREE_CREATED") BY <1>14 DEF ReplaceCurrent, Kept, Updated
 <2>3. After(Last.to) \in Added \cup {"apply"} => 
         \/ Last.to = "WORKTREE_CREATED" /\ After(Last.to) = "apply"
         \/ Last.to = "CANDIDATE_READY" /\ After(Last.to) = "publish"
   BY DEF After, Added
 <2>4. After(Last.to) # "replace" /\ After(Last.to) # "published" BY DEF After
 <2>5. \A q \in Procs : q # p => pc[q] \in {"idle", "lease", "enter"} BY <2>1
 <2> QED BY <1>14, <2>1, <2>2, <2>3, <2>4, <2>5 DEF ReplaceCurrent, Replacing, At, Added, Applied
<1>15. ASSUME NEW p \in Procs, Kill(p) PROVE MadeInv'
 <2>1. pc'[p] = "idle" /\ \A q \in Procs : q # p => pc'[q] = pc[q] /\ known'[q] = known[q] BY <1>15 DEF Kill, Return
 <2>2. ASSUME NEW q \in Procs, q # p, pc[q] \notin {"idle", "lease", "enter"}
       PROVE  log' = log /\ tree' = tree /\ admin' = admin
   BY <1>15, <2>2 DEF Kill, Halfway, At, Target
 <2> QED BY <1>15, <2>1, <2>2 DEF Kill, Replacing, At, Last, Added, Applied
<1>16. ASSUME NEW p \in Procs, Raise(p) PROVE MadeInv'
 <2>1. lock = p BY <1>16 DEF Raise, InTry, At, Tried, Removing
 <2>2. pc'[p] \in {"idle", "fail"} /\ \A q \in Procs : q # p => pc'[q] = pc[q] BY <1>16 DEF Raise, Goto, Return
 <2> QED BY <2>1, <2>2 DEF Replacing, At, Added, Applied
<1>17. CASE OrphanAdds
 <2>1. \A q \in Procs : ~Advancing(q) BY <1>17 DEF OrphanAdds
 <2> QED BY <1>17, <2>1 DEF OrphanAdds, Replacing, At, Last, Added, Applied, Advancing, Making, Tried, Progress
<1>18. CASE OrphanRemoves
 <2>1. \A q \in Procs : ~Advancing(q) BY <1>18 DEF OrphanRemoves
 <2> QED BY <1>18, <2>1 DEF OrphanRemoves, Replacing, At, Last, Added, Applied, Advancing, Making, Tried, Progress
<1>19. CASE Edit
 <2>1. \A q \in Procs : lock = q => pc[q] \in Removing \cup {"check", "announce", "conclude",
       "leased"}
   BY <1>19 DEF Edit, Exposed
 <2> QED BY <1>19, <2>1 DEF Edit, Replacing, At, Added, Applied, Removing
<1>20. CASE Sibling BY <1>20 DEF Sibling, Replacing, Last, Added, Applied, At
<1>21. CASE UNCHANGED vars BY <1>21 DEF Replacing, Last, Added, Applied, At
<1> QED BY <1>1, <1>2, <1>3, <1>4, <1>5, <1>6, <1>7, <1>8, <1>9, <1>10, <1>11, <1>12,
     <1>13, <1>14, <1>15, <1>16, <1>17, <1>18, <1>19, <1>20, <1>21 DEF Next, Work,
     PrepareStep, LeaseStep, CleanupStep

\* Nothing is removed before the clean-up is recorded.
LEMMA RemovingStep == TypeInv /\ LogInv /\ FreshInv /\ MakingInv /\ RemovingInv /\ [Next]_vars
    => RemovingInv'
<1> SUFFICES ASSUME TypeInv, LogInv, FreshInv, MakingInv, RemovingInv, [Next]_vars
           PROVE RemovingInv'
  OBVIOUS
<1> USE SlotsAssumption, BoundsAssumption DEF vars, procVars, logVars, treeVars,
    storeVars, faultVars, TypeInv, TypeOK, LockInv, LogInv, FreshInv, MakingInv,
    RemovingInv
<1>1. ASSUME NEW p \in Procs, StartMirror(p) \/ FetchMirror(p) \/ AddEntry(p) \/
         AddTree(p) \/ Capture(p) \/ Apply(p) \/ WriteEvidence(p) \/ PublishRecord(p) \/
         OpenStage(p) PROVE RemovingInv'
 <2>1. lock = p /\ pc' = [pc EXCEPT ![p] = pc'[p]] /\ pc'[p] \in Tried
   BY <1>1 DEF StartMirror, FetchMirror, AddEntry, AddTree, Capture, Apply, WriteEvidence, PublishRecord, OpenStage,
     At, Goto, Tried
 <2>2. \A q \in Procs : q # p => pc'[q] \in {"idle", "lease", "enter"} BY <2>1
 <2>3. current' = current /\ orphans' = orphans
   BY <1>1 DEF StartMirror, FetchMirror, AddEntry, AddTree, Capture, Apply, WriteEvidence, PublishRecord, OpenStage
 <2> QED BY <2>1, <2>2, <2>3 DEF Replacing, At, Removing, Tried
<1>2. ASSUME NEW p \in Procs, Unlock(p) \/ SkipUnlock(p) \/ RemoveTree(p) \/
         RemoveEntry(p) \/ PruneEntry(p) \/ PruneTree(p) \/ RemoveStrays(p) \/
         VerifyRemoval(p) PROVE RemovingInv'
 <2>1. lock = p /\ pc' = [pc EXCEPT ![p] = pc'[p]] /\ pc[p] \in Removing
   BY <1>2 DEF Unlock, SkipUnlock, RemoveTree, RemoveEntry, PruneEntry, PruneTree, RemoveStrays, VerifyRemoval, At,
     Goto, Removing
 <2>2. \A q \in Procs : q # p => pc'[q] \in {"idle", "lease", "enter"} BY <2>1
 <2>3. current' = current /\ orphans' = orphans
   BY <1>2 DEF Unlock, SkipUnlock, RemoveTree, RemoveEntry, PruneEntry, PruneTree, RemoveStrays, VerifyRemoval
 <2> QED BY <2>1, <2>2, <2>3 DEF Replacing, At, Removing
<1>3. ASSUME NEW p \in Procs, LeaseRefused(p) \/ EndLease(p) \/ CleanupBusy(p) \/
         CheckRefused(p) \/ CleanupFails(p) \/ Finish(p) PROVE RemovingInv'
  BY <1>3 DEF LeaseRefused, EndLease, CleanupBusy, CheckRefused, CleanupFails, Finish, Return, Replacing, At, Last,
    Removing
<1>4. ASSUME NEW p \in Procs, NEW forced \in BOOLEAN, Lease(p) \/ EnterCleanup(p) \/ Check(p)
           \/ Prepare(p) \/
         LoadForLease(p) \/ LoadForCleanup(p, forced) PROVE RemovingInv'
  BY <1>4 DEF Lease, EnterCleanup, Check, Prepare, LoadForLease, LoadForCleanup, Replacing, At, Last, Removing
<1>5. ASSUME NEW p \in Procs, Allocate(p) PROVE RemovingInv' BY <1>5 DEF Allocate, Goto, Replacing, At, Last, Removing
<1>6. ASSUME NEW p \in Procs, Commit(p) PROVE RemovingInv'
  BY <1>6 DEF Commit, Unregistered, Replacing, At, Last, Removing
<1>7. ASSUME NEW p \in Procs, RecordEvent(p) PROVE RemovingInv'
 <2>1. [from |-> known[p].state, to |-> Target[pc[p]]] \in Events BY <1>7, Targets DEF RecordEvent, Events, Registries
 <2>2. Last'.to = Target[pc[p]] BY <1>7, <2>1, Appended DEF RecordEvent, Events
 <2>3. lock = p /\ pc' = [pc EXCEPT ![p] = "replace"] BY <1>7, Targets DEF RecordEvent, Goto
 <2>4. Target[pc[p]] = "CLEANED" => pc[p] = "conclude" BY <1>7, Targets DEF RecordEvent
 <2>5. \A q \in Procs : q # p => pc'[q] \in {"idle", "lease", "enter"} BY <2>3
 <2>6. current' = current /\ orphans' = orphans BY <1>7 DEF RecordEvent
 <2> QED BY <2>2, <2>3, <2>4, <2>5, <2>6 DEF Replacing, At, Removing
<1>8. ASSUME NEW p \in Procs, ReplaceCurrent(p) PROVE RemovingInv'
 <2>1. lock = p /\ pc' = [pc EXCEPT ![p] = After(Last.to)] /\ orphans' = orphans BY <1>8 DEF ReplaceCurrent, At
 <2>2. current'.state = Last.to BY <1>8, UpdatedRegistry DEF ReplaceCurrent
 <2>3. After(Last.to) # "replace" /\ After(Last.to) # "conclude" BY DEF After
 <2>4. After(Last.to) \in Removing => Last.to = "CLEANUP_STARTED" BY DEF After, Removing
 <2>5. Last.to = "PUBLISHED" => orphans = {} BY <1>8 DEF ReplaceCurrent, Advancing, Replacing, Progress
 <2>6. \A q \in Procs : q # p => pc'[q] \in {"idle", "lease", "enter"} BY <2>1
 <2> QED BY <2>1, <2>2, <2>3, <2>4, <2>5, <2>6 DEF Replacing, At, Removing
<1>9. ASSUME NEW p \in Procs, Kill(p) PROVE RemovingInv'
 <2>1. current' = current /\ pc'[p] = "idle" /\ \A q \in Procs : q # p => pc'[q] = pc[q] BY <1>9 DEF Kill, Return
 <2>2. ASSUME NEW q \in Procs, q # p, pc[q] \notin {"idle", "lease", "enter"} PROVE log' = log
   BY <1>9, <2>2 DEF Kill, Halfway, At, Target
 <2>3. Child(p) # {} => current.state # "PUBLISHED" BY DEF Child, At, Advancing, Making, Tried, Removing
 <2>4. orphans' # {} => current.state # "PUBLISHED" BY <1>9, <2>3 DEF Kill
 <2> QED BY <2>1, <2>2, <2>4 DEF Replacing, At, Last, Removing
<1>10. ASSUME NEW p \in Procs, Raise(p) PROVE RemovingInv'
 <2>1. lock = p BY <1>10 DEF Raise, InTry, At, Tried, Removing
 <2>2. pc'[p] \in {"idle", "fail"} /\ \A q \in Procs : q # p => pc'[q] \in {"idle", "lease",
       "enter"}
   BY <1>10, <2>1 DEF Raise, Goto, Return
 <2>3. orphans' = orphans /\ (current' = current \/ (At(p, "replace") /\ current'.state = Last.to))
  <3>1. orphans' = orphans /\ (current' = current \/ (At(p, "replace") /\ current' = Updated(p))) BY <1>10 DEF Raise
  <3> QED BY <3>1, UpdatedRegistry
 <2>4. At(p, "replace") /\ Last.to = "PUBLISHED" => orphans = {} BY DEF Advancing, Replacing, Progress
 <2> QED BY <2>2, <2>3, <2>4 DEF Replacing, At, Removing
<1>11. CASE OrphanAdds BY <1>11 DEF OrphanAdds, Replacing, At, Last, Removing
<1>12. CASE OrphanRemoves BY <1>12 DEF OrphanRemoves, Replacing, At, Last, Removing
<1>13. CASE Edit BY <1>13 DEF Edit, Replacing, At, Last, Removing
<1>14. CASE Sibling BY <1>14 DEF Sibling, Replacing, At, Last, Removing
<1>15. CASE UNCHANGED vars BY <1>15 DEF Replacing, At, Last, Removing
<1> QED BY <1>1, <1>2, <1>3, <1>4, <1>5, <1>6, <1>7, <1>8, <1>9, <1>10, <1>11, <1>12,
     <1>13, <1>14, <1>15 DEF Next, Work, PrepareStep, LeaseStep, CleanupStep

\* What is published stays whole while current.json says PUBLISHED.
LEMMA PublishedStep == TypeInv /\ LogInv /\ MakingInv /\ MadeInv /\ RemovingInv
    /\ PublishedIsWhole /\ [Next]_vars => PublishedIsWhole'
<1> SUFFICES ASSUME TypeInv, LogInv, MakingInv, MadeInv, RemovingInv, PublishedIsWhole,
           [Next]_vars PROVE PublishedIsWhole'
  OBVIOUS
<1> USE SlotsAssumption, BoundsAssumption DEF vars, procVars, logVars, treeVars,
    storeVars, faultVars, TypeInv, TypeOK, LockInv, LogInv, MakingInv, MadeInv,
    RemovingInv, PublishedIsWhole
<1>1. ASSUME NEW p \in Procs, StartMirror(p) \/ FetchMirror(p) \/ AddEntry(p) \/
         AddTree(p) \/ Capture(p) \/ Apply(p) \/ WriteEvidence(p) \/ PublishRecord(p) \/
         OpenStage(p) PROVE PublishedIsWhole'
 <2>1. current' = current /\ current.state # "PUBLISHED"
   BY <1>1 DEF StartMirror, FetchMirror, AddEntry, AddTree, Capture, Apply, WriteEvidence, PublishRecord, OpenStage,
     At, Advancing, Making, Tried
 <2> QED BY <2>1
<1>2. ASSUME NEW p \in Procs, Unlock(p) \/ SkipUnlock(p) \/ RemoveTree(p) \/
         RemoveEntry(p) \/ PruneEntry(p) \/ PruneTree(p) \/ RemoveStrays(p) \/
         VerifyRemoval(p) PROVE PublishedIsWhole'
 <2>1. current' = current /\ current.state # "PUBLISHED"
   BY <1>2 DEF Unlock, SkipUnlock, RemoveTree, RemoveEntry, PruneEntry, PruneTree, RemoveStrays, VerifyRemoval, At,
     Removing
 <2> QED BY <2>1
<1>3. ASSUME NEW p \in Procs, LeaseRefused(p) \/ EndLease(p) \/ CleanupBusy(p) \/
         CheckRefused(p) \/ CleanupFails(p) \/ Finish(p) PROVE PublishedIsWhole'
  BY <1>3 DEF LeaseRefused, EndLease, CleanupBusy, CheckRefused, CleanupFails, Finish
<1>4. ASSUME NEW p \in Procs, NEW forced \in BOOLEAN, Lease(p) \/ EnterCleanup(p) \/ Check(p)
           \/ Prepare(p) \/
         LoadForLease(p) \/ LoadForCleanup(p, forced) PROVE PublishedIsWhole'
  BY <1>4 DEF Lease, EnterCleanup, Check, Prepare, LoadForLease, LoadForCleanup
<1>5. ASSUME NEW p \in Procs, Allocate(p) PROVE PublishedIsWhole' BY <1>5 DEF Allocate
<1>6. ASSUME NEW p \in Procs, Commit(p) PROVE PublishedIsWhole' BY <1>6 DEF Commit, Unregistered
<1>7. ASSUME NEW p \in Procs, RecordEvent(p) PROVE PublishedIsWhole' BY <1>7 DEF RecordEvent
<1>8. ASSUME NEW p \in Procs, ReplaceCurrent(p) PROVE PublishedIsWhole'
 <2>1. current' = Updated(p) /\ UNCHANGED <<tree, admin, entries, record, edits>> BY <1>8 DEF ReplaceCurrent
 <2>2. Last.to = "PUBLISHED" =>
         tree = "candidate" /\ admin = "locked" /\ entries /\ known[p].owned /\ record
   BY <1>8 DEF ReplaceCurrent, Replacing
 <2>3. /\ current'.state = Last.to /\ current'.bound = (known[p].bound \/ Last.to = "PUBLISHED")
       /\ current'.owned = (known[p].owned \/ Last.to = "WORKTREE_CREATED")
   BY <2>1 DEF Updated
 <2> QED BY <2>1, <2>2, <2>3
<1>9. ASSUME NEW p \in Procs, Kill(p) PROVE PublishedIsWhole'
 <2>1. pc[p] \in {"remove", "rmtree", "removing", "prune"} => current.state # "PUBLISHED" BY DEF Removing
 <2>2. UNCHANGED <<current, entries, record, edits>> BY <1>9 DEF Kill
 <2>3. CASE pc[p] \in {"remove", "rmtree", "removing", "prune"} BY <2>1, <2>2, <2>3
 <2>4. CASE pc[p] \notin {"remove", "rmtree", "removing", "prune"}
  <3>1. tree' = tree /\ admin' = admin BY <1>9, <2>4 DEF Kill, Halfway
  <3> QED BY <2>2, <3>1
 <2> QED BY <2>3, <2>4
<1>10. ASSUME NEW p \in Procs, Raise(p) PROVE PublishedIsWhole'
 <2>1. /\ pc[p] \in {"remove", "rmtree", "removing", "prune", "adding"}
             => current.state # "PUBLISHED"
   BY DEF Removing, Advancing, Making, Tried
 <2>2. UNCHANGED <<entries, record, edits>> BY <1>10 DEF Raise
 <2>3. CASE pc[p] \in {"remove", "rmtree", "removing", "prune", "adding"}
  <3>1. current' = current BY <1>10, <2>3 DEF Raise, At
  <3> QED BY <2>1, <2>3, <3>1
 <2>4. CASE pc[p] \notin {"remove", "rmtree", "removing", "prune", "adding"}
  <3>1. tree' = tree /\ admin' = admin BY <1>10, <2>4 DEF Raise, Halfway, At
  <3>2. current' = current \/ (At(p, "replace") /\ current' = Updated(p)) BY <1>10 DEF Raise
  <3>3. At(p, "replace") /\ Last.to = "PUBLISHED" =>
          tree = "candidate" /\ admin = "locked" /\ entries /\ known[p].owned /\ record
    BY DEF Replacing
  <3>4. /\ Updated(p).state = Last.to
        /\ Updated(p).bound = (known[p].bound \/ Last.to = "PUBLISHED")
        /\ Updated(p).owned = (known[p].owned \/ Last.to = "WORKTREE_CREATED")
    BY DEF Updated
  <3> QED BY <2>2, <3>1, <3>2, <3>3, <3>4
 <2> QED BY <2>3, <2>4
<1>11. CASE OrphanAdds BY <1>11 DEF OrphanAdds
<1>12. CASE OrphanRemoves BY <1>12 DEF OrphanRemoves
<1>13. CASE Edit BY <1>13 DEF Edit
<1>14. CASE Sibling BY <1>14 DEF Sibling
<1>15. CASE UNCHANGED vars BY <1>15
<1> QED BY <1>1, <1>2, <1>3, <1>4, <1>5, <1>6, <1>7, <1>8, <1>9, <1>10, <1>11, <1>12,
     <1>13, <1>14, <1>15 DEF Next, Work, PrepareStep, LeaseStep, CleanupStep

\* A step that leaves the preparation alone, and lets nobody begin a lease, keeps
\* those that are held.
LEMMA StillLeased ==
  ASSUME LeaseIsUndisturbed, UNCHANGED <<log, current, record, tree, admin, edits>>,
         \A q \in Procs : pc'[q] = "leased" => pc[q] = "leased"
  PROVE  LeaseIsUndisturbed'
BY DEF LeaseIsUndisturbed, At, Loadable, Chained, Last

\* A lease that is held is not disturbed.
LEMMA LeasesStep == TypeInv /\ LogInv /\ RemovingInv /\ LeaseIsUndisturbed /\ [Next]_vars
    => LeaseIsUndisturbed'
<1> SUFFICES ASSUME TypeInv, LogInv, RemovingInv, LeaseIsUndisturbed, [Next]_vars
           PROVE LeaseIsUndisturbed'
  OBVIOUS
<1> USE SlotsAssumption, BoundsAssumption DEF vars, procVars, logVars, treeVars,
    storeVars, faultVars, TypeInv, TypeOK, LockInv, LogInv, RemovingInv,
    LeaseIsUndisturbed
<1>1. ASSUME NEW p \in Procs, StartMirror(p) \/ FetchMirror(p) \/ AddEntry(p) \/
         AddTree(p) \/ Capture(p) \/ Apply(p) \/ WriteEvidence(p) \/ PublishRecord(p) \/
         OpenStage(p) \/ Allocate(p) \/ Commit(p) PROVE LeaseIsUndisturbed'
 <2>1. lock = p /\ pc' = [pc EXCEPT ![p] = pc'[p]] /\ pc'[p] # "leased"
   BY <1>1 DEF StartMirror, FetchMirror, AddEntry, AddTree, Capture, Apply, WriteEvidence, PublishRecord, OpenStage,
     Allocate, Commit, At, Goto, RemovalOf
 <2> QED BY <2>1 DEF At
<1>2. ASSUME NEW p \in Procs, Unlock(p) \/ SkipUnlock(p) \/ RemoveTree(p) \/
         RemoveEntry(p) \/ PruneEntry(p) \/ PruneTree(p) \/ RemoveStrays(p) \/
         VerifyRemoval(p) PROVE LeaseIsUndisturbed'
 <2>1. lock = p /\ pc' = [pc EXCEPT ![p] = pc'[p]] /\ pc'[p] # "leased"
   BY <1>2 DEF Unlock, SkipUnlock, RemoveTree, RemoveEntry, PruneEntry, PruneTree, RemoveStrays, VerifyRemoval, At,
     Goto, RemovalOf
 <2> QED BY <2>1 DEF At
<1>3. ASSUME NEW p \in Procs, LeaseRefused(p) \/ EndLease(p) \/ CleanupBusy(p) \/
         CheckRefused(p) \/ CleanupFails(p) \/ Finish(p) PROVE LeaseIsUndisturbed'
 <2>1. UNCHANGED <<log, current, record, tree, admin, edits>>
   BY <1>3 DEF LeaseRefused, EndLease, CleanupBusy, CheckRefused, CleanupFails, Finish
 <2>2. \A q \in Procs : pc'[q] = "leased" => pc[q] = "leased"
   BY <1>3 DEF LeaseRefused, EndLease, CleanupBusy, CheckRefused, CleanupFails, Finish, Return
 <2> QED BY <2>1, <2>2, StillLeased
<1>4. ASSUME NEW p \in Procs, NEW forced \in BOOLEAN, EnterCleanup(p) \/ Check(p) \/ Prepare(p) \/
         LoadForLease(p) \/ LoadForCleanup(p, forced) PROVE LeaseIsUndisturbed'
 <2>1. UNCHANGED <<log, current, record, tree, admin, edits>>
   BY <1>4 DEF EnterCleanup, Check, Prepare, LoadForLease, LoadForCleanup
 <2>2. \A q \in Procs : pc'[q] = "leased" => pc[q] = "leased"
   BY <1>4 DEF EnterCleanup, Check, Prepare, LoadForLease, LoadForCleanup, At
 <2> QED BY <2>1, <2>2, StillLeased
<1>5. ASSUME NEW p \in Procs, Lease(p) PROVE LeaseIsUndisturbed'
 <2>1. current.state = "PUBLISHED" /\ Loadable /\ record /\ tree = "candidate" /\ admin = "locked"
   BY <1>5 DEF Lease, Leasable, LeasedRegistry, Unregistered
 <2>2. UNCHANGED <<log, current, record, tree, admin, edits>> BY <1>5 DEF Lease
 <2>3. Loadable' BY <2>1, <2>2 DEF Loadable, Chained, Last
 <2> QED BY <2>1, <2>2, <2>3
<1>6. ASSUME NEW p \in Procs, RecordEvent(p) PROVE LeaseIsUndisturbed'
 <2>1. lock = p /\ pc' = [pc EXCEPT ![p] = "replace"] BY <1>6, Targets DEF RecordEvent, Goto
 <2> QED BY <2>1 DEF At
<1>7. ASSUME NEW p \in Procs, ReplaceCurrent(p) PROVE LeaseIsUndisturbed'
 <2>1. lock = p /\ pc' = [pc EXCEPT ![p] = After(Last.to)] /\ After(Last.to) # "leased"
   BY <1>7 DEF ReplaceCurrent, At, After
 <2> QED BY <2>1 DEF At
<1>8. ASSUME NEW p \in Procs, Kill(p) PROVE LeaseIsUndisturbed'
 <2>1. pc'[p] = "idle" /\ \A q \in Procs : q # p => pc'[q] = pc[q] BY <1>8 DEF Kill, Return
 <2>2. CASE lock = p BY <2>1, <2>2 DEF At
 <2>3. CASE lock # p
  <3>1. pc[p] \in {"lease", "enter"} BY <1>8, <2>3 DEF Kill, At
  <3>2. UNCHANGED <<log, current, record, tree, admin, edits>> BY <1>8, <3>1 DEF Kill, Halfway, At, Target
  <3> QED BY <2>1, <3>2, StillLeased
 <2> QED BY <2>2, <2>3
<1>9. ASSUME NEW p \in Procs, Raise(p) PROVE LeaseIsUndisturbed'
 <2>1. lock = p BY <1>9 DEF Raise, InTry, At, Tried, Removing
 <2>2. pc'[p] \in {"idle", "fail"} /\ \A q \in Procs : q # p => pc'[q] = pc[q] BY <1>9 DEF Raise, Goto, Return
 <2> QED BY <2>1, <2>2 DEF At
<1>10. CASE OrphanAdds BY <1>10 DEF OrphanAdds, At
<1>11. CASE OrphanRemoves BY <1>11 DEF OrphanRemoves, At
<1>12. CASE Edit
 <2>1. UNCHANGED <<log, current, record, pc>> /\ edits' # 0 BY <1>12 DEF Edit
 <2> QED BY <2>1 DEF At, Loadable, Chained, Last
<1>13. CASE Sibling BY <1>13 DEF Sibling, At
<1>14. CASE UNCHANGED vars BY <1>14, StillLeased
<1> QED BY <1>1, <1>2, <1>3, <1>4, <1>5, <1>6, <1>7, <1>8, <1>9, <1>10, <1>11, <1>12,
     <1>13, <1>14 DEF Next, Work, PrepareStep, LeaseStep, CleanupStep

\* What a longer log says: what it said, and its last event.
LEMMA Grown ==
  ASSUME log \in Seq(Events), NEW e \in Events, log' = Append(log, e)
  PROVE  /\ Len(log') = Len(log) + 1 /\ Len(log) \in Nat
         /\ \A i \in 1 .. Len(log) : log'[i] = log[i]
         /\ log'[Len(log) + 1] = e
OBVIOUS

\* It has PUBLISHED in it if it had, or if that is the last event; it is a chain only
\* if it was one that the last event goes on from.
LEMMA ChainGrows ==
  ASSUME log \in Seq(Events), NEW e \in Events, log' = Append(log, e)
  PROVE  /\ WasPublished' <=> WasPublished \/ e.to = "PUBLISHED"
         /\ Chained' /\ log # << >> => Chained /\ e.from = Last.to
         /\ Chained' => e.to # "torn"
<1>1. /\ Len(log') = Len(log) + 1 /\ Len(log) \in Nat
      /\ \A i \in 1 .. Len(log) : log'[i] = log[i]
      /\ log'[Len(log) + 1] = e
  BY Grown
<1>2. WasPublished' <=> WasPublished \/ e.to = "PUBLISHED"
 <2>1. ASSUME NEW i \in 1 .. Len(log'), log'[i].to = "PUBLISHED"
       PROVE  WasPublished \/ e.to = "PUBLISHED"
   BY <1>1, <2>1 DEF WasPublished
 <2>2. ASSUME NEW i \in 1 .. Len(log), log[i].to = "PUBLISHED" PROVE WasPublished' BY <1>1, <2>2 DEF WasPublished
 <2>3. ASSUME e.to = "PUBLISHED" PROVE WasPublished' BY <1>1, <2>3 DEF WasPublished
 <2> QED BY <2>1, <2>2, <2>3 DEF WasPublished
<1>3. ASSUME Chained' PROVE e.to # "torn" /\ (log # << >> => Chained /\ e.from = Last.to)
 <2>1. \A i \in 1 .. Len(log') :
         log'[i].to # "torn" /\ log'[i].from = IF i = 1 THEN "none" ELSE log'[i - 1].to
   BY <1>3 DEF Chained
 <2>2. e.to # "torn" BY <1>1, <2>1
 <2>3. ASSUME log # << >> PROVE e.from = Last.to
  <3>1. Len(log) # 0 BY <2>3
  <3> QED BY <1>1, <2>1, <3>1 DEF Last
 <2>4. ASSUME log # << >> PROVE Chained
  <3>1. ASSUME NEW i \in 1 .. Len(log)
        PROVE  log[i].to # "torn" /\ log[i].from = IF i = 1 THEN "none" ELSE log[i - 1].to
   <4>1. i \in 1 .. Len(log') /\ (i # 1 => i - 1 \in 1 .. Len(log)) BY <1>1
   <4> QED BY <1>1, <2>1, <4>1
  <3> QED BY <2>4, <3>1 DEF Chained
 <2> QED BY <2>2, <2>3, <2>4
<1> QED BY <1>2, <1>3

\* A fault leaves the log as it was, or one that is no chain any more, and only where
\* an event was being written.
LEMMA LogAfterFault ==
  ASSUME TypeOK, NEW p \in Procs, Halfway(p)
  PROVE  /\ WasPublished' <=> WasPublished
         /\ Chained' => log' = log
         /\ pc[p] \notin DOMAIN Target \cup {"allocate"} => log' = log
<1> DEFINE e == [from |-> known[p].state, to |-> "torn"]
<1>1. e \in Events /\ log \in Seq(Events) /\ e.to = "torn" BY DEF TypeOK, Events, Registries
<1>2. log' = log \/ log' = Append(log, e) BY DEF Halfway
<1>3. pc[p] \notin DOMAIN Target \cup {"allocate"} => log' = log BY DEF Halfway
<1> HIDE DEF e
<1>4. CASE log' = log BY <1>4 DEF WasPublished, Chained
<1>5. CASE log' = Append(log, e)
 <2>1. (WasPublished' <=> WasPublished \/ e.to = "PUBLISHED") /\ (Chained' => e.to # "torn") BY <1>1, <1>5, ChainGrows
 <2> QED BY <1>1, <1>3, <2>1
<1> QED BY <1>2, <1>3, <1>4, <1>5

\* A step that leaves the log leaves all that is said of it.
LEMMA SameLog ==
  ASSUME log' = log
  PROVE  (WasPublished' <=> WasPublished) /\ (Chained' <=> Chained) /\ Last' = Last
BY DEF WasPublished, Chained, Last

\* Without a fault the log, current.json and what is in memory agree.
LEMMA HistoryStep == TypeInv /\ LogInv /\ FreshInv /\ HistoryInv /\ [Next]_vars => HistoryInv'
<1> SUFFICES ASSUME TypeInv, LogInv, FreshInv, HistoryInv, [Next]_vars PROVE HistoryInv' OBVIOUS
<1> USE SlotsAssumption, BoundsAssumption DEF vars, procVars, logVars, treeVars,
    storeVars, faultVars, TypeInv, TypeOK, LockInv, LogInv, FreshInv, HistoryInv
<1>1. ASSUME NEW p \in Procs, StartMirror(p) \/ FetchMirror(p) \/ AddEntry(p) \/
         AddTree(p) \/ Capture(p) \/ Apply(p) \/ WriteEvidence(p) \/ PublishRecord(p) \/
         OpenStage(p) PROVE HistoryInv'
 <2>1. /\ lock = p /\ pc' = [pc EXCEPT ![p] = pc'[p]] /\ pc[p] \in Making \cup Removing
       /\ pc'[p] \in Making \cup Removing \cup {"conclude"}
   BY <1>1 DEF StartMirror, FetchMirror, AddEntry, AddTree, Capture, Apply, WriteEvidence, PublishRecord, OpenStage,
     At, Goto, RemovalOf, Making, Tried, Removing
 <2>2. UNCHANGED <<log, current, known, kills, errors>>
   BY <1>1 DEF StartMirror, FetchMirror, AddEntry, AddTree, Capture, Apply, WriteEvidence, PublishRecord, OpenStage,
     Goto
 <2> QED BY <2>1, <2>2, SameLog DEF At, Making, Tried, Removing
<1>2. ASSUME NEW p \in Procs, Unlock(p) \/ SkipUnlock(p) \/ RemoveTree(p) \/
         RemoveEntry(p) \/ PruneEntry(p) \/ PruneTree(p) \/ RemoveStrays(p) \/
         VerifyRemoval(p) PROVE HistoryInv'
 <2>1. /\ lock = p /\ pc' = [pc EXCEPT ![p] = pc'[p]] /\ pc[p] \in Removing
       /\ pc'[p] \in Removing \cup {"conclude"}
       /\ UNCHANGED <<log, current, known, kills, errors>>
   BY <1>2, Removes
 <2> QED BY <2>1, SameLog DEF At, Making, Tried, Removing
<1>3. ASSUME NEW p \in Procs, LeaseRefused(p) \/ EndLease(p) \/ CleanupBusy(p) \/
         CheckRefused(p) \/ CleanupFails(p) \/ Finish(p) PROVE HistoryInv'
 <2>1. /\ UNCHANGED <<log, current, kills, errors>> /\ \A q \in Procs : q # p
             => known'[q] = known[q]
       /\ pc[p] \notin {"commit", "replace"} /\ pc' = [pc EXCEPT ![p] = pc'[p]]
       /\ pc'[p] \notin Making \cup Removing \cup {"commit", "replace", "fail", "conclude"}
   BY <1>3 DEF LeaseRefused, EndLease, CleanupBusy, CheckRefused, CleanupFails, Finish, Return, At, Making, Tried,
     Removing
 <2> QED BY <2>1, SameLog DEF At
<1>4. ASSUME NEW p \in Procs, NEW forced \in BOOLEAN, Lease(p) \/ EnterCleanup(p) \/ Check(p)
           \/ Prepare(p) \/
         LoadForLease(p) \/ LoadForCleanup(p, forced) PROVE HistoryInv'
 <2>1. /\ UNCHANGED <<log, current, kills, errors>> /\ \A q \in Procs : q # p
             => known'[q] = known[q]
       /\ pc[p] \notin {"commit", "replace"} /\ pc' = [pc EXCEPT ![p] = pc'[p]]
       /\ pc'[p] \notin Making \cup Removing \cup {"commit", "replace", "fail", "conclude"}
   BY <1>4 DEF Lease, EnterCleanup, Check, Prepare, LoadForLease, LoadForCleanup, At, Making, Tried, Removing
 <2> QED BY <2>1, SameLog DEF At
<1>5. ASSUME NEW p \in Procs, Allocate(p) PROVE HistoryInv'
 <2>1. Last'.to = "ALLOCATED" /\ lock = p /\ pc' = [pc EXCEPT ![p] = "commit"] BY <1>5 DEF Allocate, At, Goto, Last
 <2> QED BY <2>1 DEF At, Making, Tried, Removing
<1>6. ASSUME NEW p \in Procs, Commit(p) PROVE HistoryInv'
 <2>1. /\ lock = p /\ pc' = [pc EXCEPT ![p] = "stage"] /\ UNCHANGED <<log, kills, errors>>
       /\ current'.state = "ALLOCATED" /\ known'[p].state = "ALLOCATED" /\ At(p, "commit")
   BY <1>6 DEF Commit, At, Unregistered
 <2> QED BY SMTT(40), <2>1, SameLog DEF At, Making, Tried, Removing
<1>7. ASSUME NEW p \in Procs, RecordEvent(p) PROVE HistoryInv'
 <2>1. lock = p /\ pc' = [pc EXCEPT ![p] = "replace"] BY <1>7, Targets DEF RecordEvent, Goto
 <2> QED BY <2>1 DEF At, Making, Tried, Removing
<1>8. ASSUME NEW p \in Procs, ReplaceCurrent(p) PROVE HistoryInv'
 <2>1. /\ lock = p /\ pc' = [pc EXCEPT ![p] = After(Last.to)] /\ UNCHANGED <<log, kills, errors>>
       /\ current' = Updated(p) /\ known'[p] = Updated(p)
   BY <1>8 DEF ReplaceCurrent, At, Kept
 <2>2. Updated(p).state = Last.to BY DEF Updated
 <2>3. After(Last.to) \notin {"commit", "replace", "fail"} BY DEF After
 <2> QED BY SMTT(40), <2>1, <2>2, <2>3, SameLog DEF At, Making, Tried, Removing
<1>9. ASSUME NEW p \in Procs, Kill(p) PROVE HistoryInv'
 <2>1. kills' + errors' # 0 BY <1>9 DEF Kill
 <2> QED BY <2>1
<1>10. ASSUME NEW p \in Procs, Raise(p) PROVE HistoryInv'
 <2>1. kills' + errors' # 0 BY <1>10 DEF Raise
 <2> QED BY <2>1
<1>11. CASE OrphanAdds BY <1>11, SameLog DEF OrphanAdds, At
<1>12. CASE OrphanRemoves BY <1>12, SameLog DEF OrphanRemoves, At
<1>13. CASE Edit BY <1>13, SameLog DEF Edit, At
<1>14. CASE Sibling BY <1>14, SameLog DEF Sibling, At
<1>15. CASE UNCHANGED vars BY <1>15, SameLog DEF At
<1> QED BY <1>1, <1>2, <1>3, <1>4, <1>5, <1>6, <1>7, <1>8, <1>9, <1>10, <1>11, <1>12,
     <1>13, <1>14, <1>15 DEF Next, Work, PrepareStep, LeaseStep, CleanupStep

\* The log breaks only where a stale clean-up or a fault breaks it.
LEMMA BreaksStep == TypeInv /\ LogInv /\ FreshInv /\ HistoryInv /\ LogBreaksAreKnown
    /\ [Next]_vars => LogBreaksAreKnown'
<1> SUFFICES ASSUME TypeInv, LogInv, FreshInv, HistoryInv, LogBreaksAreKnown, [Next]_vars
           PROVE LogBreaksAreKnown'
  OBVIOUS
<1> USE SlotsAssumption, BoundsAssumption DEF vars, procVars, logVars, treeVars,
    storeVars, faultVars, TypeInv, TypeOK, LockInv, LogInv, FreshInv, HistoryInv,
    LogBreaksAreKnown
<1>1. ASSUME NEW p \in Procs, StartMirror(p) \/ FetchMirror(p) \/ AddEntry(p) \/
         AddTree(p) \/ Capture(p) \/ Apply(p) \/ WriteEvidence(p) \/ PublishRecord(p) \/
         OpenStage(p) PROVE LogBreaksAreKnown'
 <2>1. UNCHANGED <<log, current, kills, errors>> /\ (lock' = Nobody => lock = Nobody)
   BY <1>1 DEF StartMirror, FetchMirror, AddEntry, AddTree, Capture, Apply, WriteEvidence, PublishRecord, OpenStage,
     At, Goto
 <2> QED BY <2>1, SameLog
<1>2. ASSUME NEW p \in Procs, Unlock(p) \/ SkipUnlock(p) \/ RemoveTree(p) \/
         RemoveEntry(p) \/ PruneEntry(p) \/ PruneTree(p) \/ RemoveStrays(p) \/
         VerifyRemoval(p) PROVE LogBreaksAreKnown'
 <2>1. UNCHANGED <<log, current, kills, errors>> /\ (lock' = Nobody => lock = Nobody)
   BY <1>2 DEF Unlock, SkipUnlock, RemoveTree, RemoveEntry, PruneEntry, PruneTree, RemoveStrays, VerifyRemoval, At,
     Goto
 <2> QED BY <2>1, SameLog
<1>3. ASSUME NEW p \in Procs, LeaseRefused(p) \/ EndLease(p) \/ CleanupBusy(p) \/
         CheckRefused(p) \/ CleanupFails(p) \/ Finish(p) PROVE LogBreaksAreKnown'
 <2>1. /\ UNCHANGED <<log, current, kills, errors>>
       /\ lock' = Nobody /\ lock # Nobody => lock = p /\ pc[p] \notin {"commit", "replace"}
   BY <1>3 DEF LeaseRefused, EndLease, CleanupBusy, CheckRefused, CleanupFails, Finish, At, Return, Removing
 <2>2. lock = p => \A q \in Procs : q # p => pc[q] \in {"idle", "lease", "enter"} OBVIOUS
 <2> QED BY <2>1, <2>2, SameLog
<1>4. ASSUME NEW p \in Procs, NEW forced \in BOOLEAN, Lease(p) \/ EnterCleanup(p) \/ Check(p)
           \/ Prepare(p) \/
         LoadForLease(p) \/ LoadForCleanup(p, forced) PROVE LogBreaksAreKnown'
 <2>1. UNCHANGED <<log, current, kills, errors>> /\ (lock' = Nobody => lock = Nobody)
   BY <1>4 DEF Lease, EnterCleanup, Check, Prepare, LoadForLease, LoadForCleanup, At, Goto
 <2> QED BY <2>1, SameLog
<1>5. ASSUME NEW p \in Procs, Allocate(p) PROVE LogBreaksAreKnown'
 <2>1. lock' = p BY <1>5 DEF Allocate, At, Goto
 <2>2. lock' # Nobody BY <2>1
 <2>3. Len(log') = 1 BY <1>5 DEF Allocate
 <2> QED BY <2>2, <2>3
<1>6. ASSUME NEW p \in Procs, Commit(p) PROVE LogBreaksAreKnown'
 <2>1. lock' = p BY <1>6 DEF Commit, At, Goto
 <2>2. lock' # Nobody BY <2>1
 <2>3. UNCHANGED <<log, kills, errors>> BY <1>6 DEF Commit
 <2> QED BY <2>2, <2>3
<1>7. ASSUME NEW p \in Procs, RecordEvent(p) PROVE LogBreaksAreKnown'
 <2>1. lock' = p BY <1>7, Targets DEF RecordEvent, At, Goto
 <2>2. lock' # Nobody BY <2>1
 <2> DEFINE e == [from |-> known[p].state, to |-> Target[pc[p]]]
 <2>3. e \in Events /\ log \in Seq(Events) /\ log' = Append(log, e)
   BY <1>7, Targets DEF RecordEvent, Events, Registries
 <2>4. UNCHANGED <<kills, errors>> /\ log # << >> BY <1>7, Targets DEF RecordEvent
 <2>5. e.from # Last.to => e.to = "CLEANUP_STARTED" \/ kills + errors # 0
  <3>1. pc[p] \in DOMAIN Target /\ e.from = known[p].state /\ e.to = Target[pc[p]] BY <1>7 DEF RecordEvent
  <3>2. CASE pc[p] = "announce" BY <3>1, <3>2, Targets
  <3>3. CASE pc[p] = "fail" BY <3>3 DEF At
  <3>4. CASE pc[p] \notin {"announce", "fail"} BY <3>1, <3>4, Targets DEF Making, Tried
  <3> QED BY <3>2, <3>3, <3>4
 <2> HIDE DEF e
 <2>6. /\ Len(log') = Len(log) + 1 /\ Len(log) \in Nat
       /\ \A i \in 1 .. Len(log) : log'[i] = log[i]
       /\ log'[Len(log) + 1] = e
   BY <2>3, Grown
 <2>7. ASSUME NEW i \in 2 .. Len(log'), log'[i].from # log'[i - 1].to
       PROVE  log'[i].to = "CLEANUP_STARTED" \/ kills' + errors' > 0
  <3>1. CASE i \in 2 .. Len(log)
   <4>1. i \in 1 .. Len(log) /\ i - 1 \in 1 .. Len(log) BY <2>6, <3>1
   <4>2. log'[i] = log[i] /\ log'[i - 1] = log[i - 1] BY <2>6, <4>1
   <4> QED BY <2>4, <2>7, <3>1, <4>2
  <3>2. CASE i = Len(log) + 1
   <4>1. i - 1 = Len(log) /\ i - 1 \in 1 .. Len(log) BY <2>6, <3>2
   <4>2. log'[i] = e /\ log'[i - 1] = Last BY <2>6, <3>2, <4>1 DEF Last
   <4> QED BY <2>4, <2>5, <2>7, <4>2
  <3> QED BY <2>6, <3>1, <3>2
 <2> QED BY <2>2, <2>7
<1>8. ASSUME NEW p \in Procs, ReplaceCurrent(p) PROVE LogBreaksAreKnown'
 <2>1. lock' = p BY <1>8 DEF ReplaceCurrent, At, Goto
 <2>2. lock' # Nobody BY <2>1
 <2>3. UNCHANGED <<log, kills, errors>> BY <1>8 DEF ReplaceCurrent
 <2> QED BY <2>2, <2>3
<1>9. ASSUME NEW p \in Procs, Kill(p) PROVE LogBreaksAreKnown'
 <2>1. kills' + errors' > 0 BY <1>9 DEF Kill
 <2> QED BY <2>1
<1>10. ASSUME NEW p \in Procs, Raise(p) PROVE LogBreaksAreKnown'
 <2>1. kills' + errors' > 0 BY <1>10 DEF Raise
 <2> QED BY <2>1
<1>11. CASE OrphanAdds BY <1>11, SameLog DEF OrphanAdds
<1>12. CASE OrphanRemoves BY <1>12, SameLog DEF OrphanRemoves
<1>13. CASE Edit BY <1>13, SameLog DEF Edit
<1>14. CASE Sibling BY <1>14, SameLog DEF Sibling
<1>15. CASE UNCHANGED vars BY <1>15, SameLog
<1> QED BY <1>1, <1>2, <1>3, <1>4, <1>5, <1>6, <1>7, <1>8, <1>9, <1>10, <1>11, <1>12,
     <1>13, <1>14, <1>15 DEF Next, Work, PrepareStep, LeaseStep, CleanupStep

\* A step that brings nobody into a preparation or a clean-up changes nothing of
\* what can have been read of one.
LEMMA StillEarly ==
  ASSUME EarlyInv, UNCHANGED <<log, current>>,
         \A q \in Procs : pc'[q] \in Making \cup {"commit", "replace", "enter"} =>
           pc'[q] = pc[q] /\ known'[q] = known[q]
  PROVE  EarlyInv'
<1>1. (WasPublished' <=> WasPublished) /\ Last' = Last BY SameLog
<1>2. SUFFICES ASSUME NEW p \in Procs, Advancing(p)'
      PROVE  /\ current'.state \in Early \cup {"none"}
             /\ pc'[p] # "commit" => known'[p].state \in Early
             /\ \A q \in Procs : At(q, "enter")' => known'[q].state \in Early
             /\ WasPublished' => Replacing(p, "PUBLISHED")'
  BY DEF EarlyInv
<1>3. Advancing(p) /\ pc'[p] = pc[p] /\ known'[p] = known[p] BY <1>1, <1>2 DEF Advancing, Replacing, At
<1> QED BY <1>1, <1>3 DEF EarlyInv, Replacing, At

\* What can have been read of a preparation that goes well is what it recorded.
LEMMA EarlyStep == TypeInv /\ LogInv /\ FreshInv /\ EarlyInv /\ [Next]_vars => EarlyInv'
<1> SUFFICES ASSUME TypeInv, LogInv, FreshInv, EarlyInv, [Next]_vars PROVE EarlyInv' OBVIOUS
<1> USE SlotsAssumption, BoundsAssumption DEF vars, procVars, logVars, treeVars,
    storeVars, faultVars, TypeInv, TypeOK, LockInv, LogInv, FreshInv, EarlyInv
<1>1. ASSUME NEW p \in Procs, StartMirror(p) \/ FetchMirror(p) \/ AddEntry(p) \/
         AddTree(p) \/ Capture(p) \/ Apply(p) \/ WriteEvidence(p) \/ PublishRecord(p) \/
         OpenStage(p) PROVE EarlyInv'
 <2>1. /\ lock = p /\ pc[p] \in Making /\ pc' = [pc EXCEPT ![p] = pc'[p]]
       /\ pc'[p] \in Making
   BY <1>1 DEF StartMirror, FetchMirror, AddEntry, AddTree, Capture, Apply, WriteEvidence, PublishRecord, OpenStage,
     At, Goto, Making, Tried
 <2>2. UNCHANGED <<log, current, known>>
   BY <1>1 DEF StartMirror, FetchMirror, AddEntry, AddTree, Capture, Apply, WriteEvidence, PublishRecord, OpenStage,
     Goto
 <2>3. Advancing(p) /\ ~Replacing(p, "PUBLISHED") /\ pc[p] # "commit"
   BY <2>1 DEF Advancing, Replacing, At, Making, Tried
 <2>4. /\ current.state \in Early \cup {"none"} /\ known[p].state \in Early
       /\ \A q \in Procs : At(q, "enter") => known[q].state \in Early
       /\ ~WasPublished
   BY <2>3
 <2>5. \A q \in Procs : Advancing(q)' => q = p BY <2>1 DEF Advancing, Replacing, At, Making, Tried
 <2>6. \A q \in Procs : At(q, "enter")' => At(q, "enter") BY <2>1 DEF At, Making, Tried
 <2> QED BY <2>2, <2>4, <2>5, <2>6, SameLog
<1>2. ASSUME NEW p \in Procs, Unlock(p) \/ SkipUnlock(p) \/ RemoveTree(p) \/
         RemoveEntry(p) \/ PruneEntry(p) \/ PruneTree(p) \/ RemoveStrays(p) \/
         VerifyRemoval(p) PROVE EarlyInv'
 <2>1. UNCHANGED <<log, current, known>>
   BY <1>2 DEF Unlock, SkipUnlock, RemoveTree, RemoveEntry, PruneEntry, PruneTree, RemoveStrays, VerifyRemoval, Goto
 <2>2. pc' = [pc EXCEPT ![p] = pc'[p]] /\ pc'[p] \in Removing \cup {"conclude"}
   BY ZenonT(60), <1>2 DEF Unlock, SkipUnlock, RemoveTree, RemoveEntry, PruneEntry, PruneTree, RemoveStrays,
     VerifyRemoval, Goto, RemovalOf, Removing
 <2>3. \A q \in Procs : pc'[q] \in Making \cup {"commit", "replace", "enter"} =>
         pc'[q] = pc[q] /\ known'[q] = known[q]
   BY <2>1, <2>2 DEF Making, Tried, Removing
 <2> QED BY <2>1, <2>3, StillEarly
<1>3. ASSUME NEW p \in Procs, LeaseRefused(p) \/ EndLease(p) \/ CleanupBusy(p) \/
         CheckRefused(p) \/ CleanupFails(p) \/ Finish(p) PROVE EarlyInv'
 <2>1. UNCHANGED <<log, current>> BY <1>3 DEF LeaseRefused, EndLease, CleanupBusy, CheckRefused, CleanupFails, Finish
 <2>2. \A q \in Procs : pc'[q] \in Making \cup {"commit", "replace", "enter"} =>
         pc'[q] = pc[q] /\ known'[q] = known[q]
   BY <1>3 DEF LeaseRefused, EndLease, CleanupBusy, CheckRefused, CleanupFails, Finish, Return, At, Making, Tried
 <2> QED BY <2>1, <2>2, StillEarly
<1>4. ASSUME NEW p \in Procs, Lease(p) \/ EnterCleanup(p) \/ Check(p) \/ Prepare(p) \/
         LoadForLease(p) PROVE EarlyInv'
 <2>1. UNCHANGED <<log, current>> BY <1>4 DEF Lease, EnterCleanup, Check, Prepare, LoadForLease
 <2>2. \A q \in Procs : pc'[q] \in Making \cup {"commit", "replace", "enter"} =>
         pc'[q] = pc[q] /\ known'[q] = known[q]
   BY <1>4 DEF Lease, EnterCleanup, Check, Prepare, LoadForLease, At, Making, Tried
 <2> QED BY <2>1, <2>2, StillEarly
<1>5. ASSUME NEW p \in Procs, Allocate(p) PROVE EarlyInv'
 <2>1. lock = p /\ pc' = [pc EXCEPT ![p] = "commit"] /\ At(p, "allocate") BY <1>5 DEF Allocate, At, Goto
 <2>2. log = << >> /\ current.state = "none" /\ current' = current BY <1>5, <2>1 DEF Allocate
 <2>3. \A q \in Procs : ~At(q, "enter")' BY <2>1, <2>2 DEF At
 <2>4. \A q \in Procs : Advancing(q)' => q = p BY <2>1 DEF Advancing, Replacing, At, Making, Tried
 <2>5. ~WasPublished' BY <1>5 DEF Allocate, WasPublished
 <2> QED BY <2>1, <2>2, <2>3, <2>4, <2>5
<1>6. ASSUME NEW p \in Procs, Commit(p) PROVE EarlyInv'
 <2>1. lock = p /\ pc' = [pc EXCEPT ![p] = "stage"] /\ At(p, "commit") /\ log' = log BY <1>6 DEF Commit, At
 <2>2. current'.state = "ALLOCATED" /\ known' = [known EXCEPT ![p] = current'] BY <1>6 DEF Commit, Unregistered
 <2>3. Advancing(p) /\ ~Replacing(p, "PUBLISHED") BY <2>1 DEF Advancing, Replacing, At
 <2>4. ~WasPublished' /\ \A q \in Procs : At(q, "enter") => known[q].state \in Early BY <2>1, <2>3, SameLog
 <2>5. \A q \in Procs : Advancing(q)' => q = p BY <2>1 DEF Advancing, Replacing, At, Making, Tried
 <2>6. \A q \in Procs : At(q, "enter")' => At(q, "enter") /\ q # p BY <2>1 DEF At
 <2> QED BY <2>1, <2>2, <2>4, <2>5, <2>6 DEF Early
<1>7. ASSUME NEW p \in Procs, NEW forced \in BOOLEAN, LoadForCleanup(p, forced) PROVE
         EarlyInv'
 <2>1. /\ UNCHANGED <<log, current>> /\ known' = [known EXCEPT ![p] = current]
       /\ pc' = [pc EXCEPT ![p] = "enter"] /\ Loadable
   BY <1>7 DEF LoadForCleanup
 <2>2. current.state # "none"
  <3>1. log # << >> /\ current.state = Last.to BY <2>1 DEF Loadable, Chained
  <3>2. Last \in Events BY <3>1, LastEvent DEF Events
  <3> QED BY <3>1, <3>2 DEF Events
 <2>3. ASSUME NEW q \in Procs, Advancing(q)'
       PROVE  q # p /\ Advancing(q) /\ known'[q] = known[q] /\ (Replacing(q, "PUBLISHED")
             => Replacing(q, "PUBLISHED")') /\ pc'[q] = pc[q]
   BY <2>1, <2>3, SameLog DEF Advancing, Replacing, At, Making, Tried
 <2> QED BY <2>1, <2>2, <2>3, SameLog DEF At
<1>8. ASSUME NEW p \in Procs, RecordEvent(p) PROVE EarlyInv'
 <2>1. [from |-> known[p].state, to |-> Target[pc[p]]] \in Events BY <1>8, Targets DEF RecordEvent, Events, Registries
 <2>2. Last'.to = Target[pc[p]] BY <1>8, <2>1, Appended DEF RecordEvent, Events
 <2>3. lock = p /\ pc' = [pc EXCEPT ![p] = "replace"] BY <1>8, Targets DEF RecordEvent, Goto
 <2>4. ASSUME NEW q \in Procs, Advancing(q)'
       PROVE  q = p /\ Target[pc[p]] \in Progress
   BY <2>2, <2>3, <2>4 DEF Advancing, Replacing, At, Making, Tried
 <2>5. Target[pc[p]] \in Progress => Advancing(p) /\ ~Replacing(p, "PUBLISHED") /\ pc[p] # "commit"
   BY <1>8, Targets DEF RecordEvent, Progress, Advancing, Replacing, At, Making, Tried
 <2>6. WasPublished' <=> WasPublished \/ Target[pc[p]] = "PUBLISHED" BY <1>8, <2>1, ChainGrows DEF RecordEvent, Events
 <2>7. UNCHANGED <<known, current>> /\ \A q \in Procs : At(q, "enter")' => At(q, "enter")
   BY <1>8, <2>3 DEF RecordEvent, Goto, At
 <2> QED BY <2>2, <2>3, <2>4, <2>5, <2>6, <2>7 DEF Replacing, At
<1>9. ASSUME NEW p \in Procs, ReplaceCurrent(p) PROVE EarlyInv'
 <2>1. /\ lock = p /\ At(p, "replace") /\ pc' = [pc EXCEPT ![p] = After(Last.to)]
       /\ log' = log /\ current' = Updated(p) /\ known' = [known EXCEPT ![p] = Updated(p)]
   BY <1>9 DEF ReplaceCurrent, At, Kept
 <2>2. ASSUME NEW q \in Procs, Advancing(q)'
       PROVE  q = p /\ After(Last.to) \in Making
   BY SMTT(40), <2>1, <2>2 DEF Advancing, Replacing, At, Making, Tried, After
 <2>3. After(Last.to) \in Making =>
         Last.to \in {"MIRROR_READY", "WORKTREE_CREATED", "CANDIDATE_READY"}
   BY DEF After, Making, Tried
 <2>4. Last.to \in {"MIRROR_READY", "WORKTREE_CREATED", "CANDIDATE_READY"} =>
         Advancing(p) /\ ~Replacing(p, "PUBLISHED")
   BY <2>1 DEF Advancing, Replacing, Progress
 <2>5. Updated(p).state = Last.to BY DEF Updated
 <2>6. \A q \in Procs : At(q, "enter")' => At(q, "enter") /\ q # p BY <2>1 DEF At, After
 <2> QED BY <2>1, <2>2, <2>3, <2>4, <2>5, <2>6, SameLog DEF Early
<1>10. ASSUME NEW p \in Procs, Kill(p) PROVE EarlyInv'
 <2>1. /\ pc' = [pc EXCEPT ![p] = "idle"] /\ known' = [known EXCEPT ![p] = Unregistered]
       /\ current' = current /\ Halfway(p)
   BY <1>10 DEF Kill, Return
 <2>2. CASE pc[p] \in {"lease", "enter"}
  <3>1. log' = log BY <2>1, <2>2, LogAfterFault, Targets
  <3> QED BY <2>1, <3>1, StillEarly DEF Making, Tried
 <2>3. CASE pc[p] \notin {"lease", "enter"}
  <3>1. lock = p BY <1>10, <2>3 DEF Kill, At
  <3> QED BY <2>1, <3>1 DEF Advancing, Replacing, At, Making, Tried
 <2> QED BY <2>2, <2>3
<1>11. ASSUME NEW p \in Procs, Raise(p) PROVE EarlyInv'
 <2>1. lock = p BY <1>11 DEF Raise, InTry, At, Tried, Removing
 <2>2. pc'[p] \in {"idle", "fail"} /\ \A q \in Procs : q # p => pc'[q] = pc[q] BY <1>11 DEF Raise, Goto, Return
 <2> QED BY <2>1, <2>2 DEF Advancing, Replacing, At, Making, Tried
<1>12. CASE OrphanAdds
 <2>1. \A q \in Procs : pc'[q] = pc[q] /\ known'[q] = known[q] BY <1>12 DEF OrphanAdds
 <2>2. UNCHANGED <<log, current>> BY <1>12 DEF OrphanAdds
 <2> QED BY <2>1, <2>2, StillEarly
<1>13. CASE OrphanRemoves
 <2>1. \A q \in Procs : pc'[q] = pc[q] /\ known'[q] = known[q] BY <1>13 DEF OrphanRemoves
 <2>2. UNCHANGED <<log, current>> BY <1>13 DEF OrphanRemoves
 <2> QED BY <2>1, <2>2, StillEarly
<1>14. CASE Edit
 <2>1. \A q \in Procs : pc'[q] = pc[q] /\ known'[q] = known[q] BY <1>14 DEF Edit
 <2>2. UNCHANGED <<log, current>> BY <1>14 DEF Edit
 <2> QED BY <2>1, <2>2, StillEarly
<1>15. CASE Sibling
 <2>1. \A q \in Procs : pc'[q] = pc[q] /\ known'[q] = known[q] BY <1>15 DEF Sibling
 <2>2. UNCHANGED <<log, current>> BY <1>15 DEF Sibling
 <2> QED BY <2>1, <2>2, StillEarly
<1>16. CASE UNCHANGED vars BY <1>16, StillEarly
<1> QED BY <1>1, <1>2, <1>3, <1>4, <1>5, <1>6, <1>7, <1>8, <1>9, <1>10, <1>11, <1>12,
     <1>13, <1>14, <1>15, <1>16 DEF Next, Work, PrepareStep, LeaseStep, CleanupStep

\* A failure after PUBLISHED is recorded from a state before it.
LEMMA FailedStep == TypeInv /\ LogInv /\ EarlyInv /\ FailedInv /\ [Next]_vars => FailedInv'
<1> SUFFICES ASSUME TypeInv, LogInv, EarlyInv, FailedInv, [Next]_vars PROVE FailedInv' OBVIOUS
<1> USE SlotsAssumption, BoundsAssumption DEF vars, procVars, logVars, treeVars,
    storeVars, faultVars, TypeInv, TypeOK, LockInv, LogInv, EarlyInv, FailedInv
<1>1. ASSUME NEW p \in Procs, StartMirror(p) \/ FetchMirror(p) \/ AddEntry(p) \/
         AddTree(p) \/ Capture(p) \/ Apply(p) \/ WriteEvidence(p) \/ PublishRecord(p) \/
         OpenStage(p) \/ Allocate(p) \/ Commit(p) PROVE FailedInv'
 <2>1. lock = p /\ pc' = [pc EXCEPT ![p] = pc'[p]] /\ pc'[p] # "fail"
   BY SMTT(40), <1>1 DEF StartMirror, FetchMirror, AddEntry, AddTree, Capture, Apply, WriteEvidence, PublishRecord,
     OpenStage, Allocate, Commit, At, Goto, RemovalOf
 <2> QED BY <2>1 DEF At
<1>2. ASSUME NEW p \in Procs, Unlock(p) \/ SkipUnlock(p) \/ RemoveTree(p) \/
         RemoveEntry(p) \/ PruneEntry(p) \/ PruneTree(p) \/ RemoveStrays(p) \/
         VerifyRemoval(p) PROVE FailedInv'
 <2>1. lock = p /\ pc' = [pc EXCEPT ![p] = pc'[p]] /\ pc'[p] # "fail"
   BY <1>2 DEF Unlock, SkipUnlock, RemoveTree, RemoveEntry, PruneEntry, PruneTree, RemoveStrays, VerifyRemoval, At,
     Goto, RemovalOf
 <2> QED BY <2>1 DEF At
<1>3. ASSUME NEW p \in Procs, LeaseRefused(p) \/ EndLease(p) \/ CleanupBusy(p) \/
         CheckRefused(p) \/ CleanupFails(p) \/ Finish(p) PROVE FailedInv'
 <2>1. log' = log /\ pc' = [pc EXCEPT ![p] = pc'[p]] /\ pc'[p] # "fail"
   BY <1>3 DEF LeaseRefused, EndLease, CleanupBusy, CheckRefused, CleanupFails, Finish, Return, At
 <2>2. \A q \in Procs : q # p => known'[q] = known[q]
   BY <1>3 DEF LeaseRefused, EndLease, CleanupBusy, CheckRefused, CleanupFails, Finish, Return, At
 <2> QED BY <2>1, <2>2, SameLog DEF At
<1>4. ASSUME NEW p \in Procs, NEW forced \in BOOLEAN, Lease(p) \/ EnterCleanup(p) \/ Check(p)
           \/ Prepare(p) \/
         LoadForLease(p) \/ LoadForCleanup(p, forced) PROVE FailedInv'
 <2>1. log' = log /\ pc' = [pc EXCEPT ![p] = pc'[p]] /\ pc'[p] # "fail"
   BY <1>4 DEF Lease, EnterCleanup, Check, Prepare, LoadForLease, LoadForCleanup, At
 <2>2. \A q \in Procs : q # p => known'[q] = known[q]
   BY <1>4 DEF Lease, EnterCleanup, Check, Prepare, LoadForLease, LoadForCleanup, At
 <2> QED BY <2>1, <2>2, SameLog DEF At
<1>5. ASSUME NEW p \in Procs, RecordEvent(p) PROVE FailedInv'
 <2>1. lock = p /\ pc' = [pc EXCEPT ![p] = "replace"] BY <1>5, Targets DEF RecordEvent, Goto
 <2> QED BY <2>1 DEF At
<1>6. ASSUME NEW p \in Procs, ReplaceCurrent(p) PROVE FailedInv'
 <2>1. lock = p /\ pc' = [pc EXCEPT ![p] = After(Last.to)] /\ After(Last.to) # "fail"
   BY <1>6 DEF ReplaceCurrent, At, After
 <2> QED BY <2>1 DEF At
<1>7. ASSUME NEW p \in Procs, Kill(p) PROVE FailedInv'
 <2>1. /\ pc' = [pc EXCEPT ![p] = "idle"] /\ known' = [known EXCEPT ![p] = Unregistered]
       /\ Halfway(p)
   BY <1>7 DEF Kill, Return
 <2>2. CASE pc[p] \in {"lease", "enter"}
  <3>1. log' = log BY <2>1, <2>2, LogAfterFault, Targets
  <3> QED BY <2>1, <3>1, SameLog DEF At
 <2>3. CASE pc[p] \notin {"lease", "enter"}
  <3>1. lock = p BY <1>7, <2>3 DEF Kill, At
  <3> QED BY <2>1, <3>1 DEF At
 <2> QED BY <2>2, <2>3
<1>8. ASSUME NEW p \in Procs, Raise(p) PROVE FailedInv'
 <2>1. lock = p BY <1>8 DEF Raise, InTry, At, Tried, Removing
 <2>2. pc'[p] \in {"idle", "fail"} /\ \A q \in Procs : q # p => pc'[q] = pc[q] BY <1>8 DEF Raise, Goto, Return
 <2>3. CASE pc'[p] = "idle" BY <2>1, <2>2, <2>3 DEF At
 <2>4. CASE pc'[p] = "fail"
  <3>1. InTry(p) /\ known' = known BY <1>8, <2>4 DEF Raise, Goto, Return
  <3>2. Advancing(p) /\ pc[p] # "commit" BY <3>1 DEF InTry, Advancing, Replacing, At, Making, Tried, Progress
  <3>3. known[p].state \in Early /\ (WasPublished => Replacing(p, "PUBLISHED")) BY <3>2
  <3>4. (WasPublished' <=> WasPublished) /\ (pc[p] \notin DOMAIN Target \cup {"allocate"}
        => log' = log)
   <4>1. CASE At(p, "adding")
    <5>1. log' = log BY <1>8, <4>1 DEF Raise
    <5> QED BY <5>1, SameLog
   <4>2. CASE ~At(p, "adding")
    <5>1. Halfway(p) BY <1>8, <4>2 DEF Raise
    <5> QED BY <5>1, LogAfterFault
   <4> QED BY <4>1, <4>2
  <3>5. Replacing(p, "PUBLISHED") => log' = log BY <3>4, Targets DEF Replacing, At
  <3> QED BY <2>1, <2>2, <3>1, <3>3, <3>4, <3>5, SameLog DEF Replacing, At
 <2> QED BY <2>2, <2>3, <2>4
<1>9. CASE OrphanAdds BY <1>9, SameLog DEF OrphanAdds, At
<1>10. CASE OrphanRemoves BY <1>10, SameLog DEF OrphanRemoves, At
<1>11. CASE Edit BY <1>11, SameLog DEF Edit, At
<1>12. CASE Sibling BY <1>12, SameLog DEF Sibling, At
<1>13. CASE UNCHANGED vars BY <1>13, SameLog DEF At
<1> QED BY <1>1, <1>2, <1>3, <1>4, <1>5, <1>6, <1>7, <1>8, <1>9, <1>10, <1>11, <1>12,
     <1>13 DEF Next, Work, PrepareStep, LeaseStep, CleanupStep

\* A step that brings nobody into a clean-up or a transition, and goes on with the
\* log or breaks it, leaves the digest with those who know of PUBLISHED.
LEMMA StillBound ==
  ASSUME BoundInv, current' = current, record => record',
         WasPublished' => WasPublished, Chained' => log' = log,
         \A q \in Procs :
           /\ pc'[q] \in Cleaning => pc[q] \in Cleaning /\ known'[q] = known[q]
           /\ pc'[q] = "replace" => pc[q] = "replace" /\ known'[q] = known[q]
  PROVE  BoundInv'
<1>1. WasPublished' => record' BY DEF BoundInv
<1>2. SUFFICES ASSUME WasPublished', Chained'
      PROVE  /\ Last'.to \in Late
             /\ current'.state \in Late => current'.bound /\ current'.owned
             /\ \A q \in Procs :
                  /\ pc'[q] \in Cleaning =>
                       (known'[q].bound /\ known'[q].owned) \/ known'[q].state \in Early
                  /\ At(q, "replace")' /\ Last'.to \in Late =>
                       known'[q].owned /\ (known'[q].bound \/ Last'.to = "PUBLISHED")
  BY <1>1 DEF BoundInv
<1>3. WasPublished /\ Chained /\ Last' = Last BY <1>2, SameLog
<1> QED BY <1>3 DEF BoundInv, At

\* The digest stays with the registry once PUBLISHED is recorded.
LEMMA BoundStep == TypeInv /\ LogInv /\ FreshInv /\ MadeInv /\ EarlyInv /\ FailedInv /\ BoundInv
    /\ [Next]_vars => BoundInv'
<1> SUFFICES ASSUME TypeInv, LogInv, FreshInv, MadeInv, EarlyInv, FailedInv, BoundInv, [Next]_vars
           PROVE BoundInv'
  OBVIOUS
<1> USE SlotsAssumption, BoundsAssumption DEF vars, procVars, logVars, treeVars,
    storeVars, faultVars, TypeInv, TypeOK, LockInv, LogInv
<1>1. ASSUME NEW p \in Procs, StartMirror(p) \/ FetchMirror(p) \/ AddEntry(p) \/
         AddTree(p) \/ Capture(p) \/ Apply(p) \/ WriteEvidence(p) \/ PublishRecord(p) \/
         OpenStage(p) PROVE BoundInv'
 <2>1. log' = log /\ current' = current /\ (record => record')
   BY <1>1 DEF StartMirror, FetchMirror, AddEntry, AddTree, Capture, Apply, WriteEvidence, PublishRecord, OpenStage
 <2>2. \A q \in Procs :
         /\ pc'[q] \in Cleaning => pc[q] \in Cleaning /\ known'[q] = known[q]
         /\ pc'[q] = "replace" => pc[q] = "replace" /\ known'[q] = known[q]
   BY <1>1 DEF StartMirror, FetchMirror, AddEntry, AddTree, Capture, Apply, WriteEvidence, PublishRecord, OpenStage,
     At, Goto, Removing, Cleaning
 <2> QED BY <2>1, <2>2, SameLog, StillBound
<1>2. ASSUME NEW p \in Procs, Unlock(p) \/ SkipUnlock(p) \/ RemoveTree(p) \/
         RemoveEntry(p) \/ PruneEntry(p) \/ PruneTree(p) \/ RemoveStrays(p) \/
         VerifyRemoval(p) PROVE BoundInv'
 <2>1. /\ UNCHANGED <<log, current, record, known>> /\ pc[p] \in Removing
       /\ pc' = [pc EXCEPT ![p] = pc'[p]] /\ pc'[p] \in Removing \cup {"conclude"}
   BY <1>2, Removes
 <2>2. pc[p] \in Cleaning /\ pc'[p] # "replace" BY <2>1 DEF Cleaning, Removing
 <2> QED BY <2>1, <2>2, SameLog, StillBound
<1>3. ASSUME NEW p \in Procs, LeaseRefused(p) \/ EndLease(p) \/ CleanupBusy(p) \/
         CheckRefused(p) \/ CleanupFails(p) \/ Finish(p) PROVE BoundInv'
 <2>1. log' = log /\ current' = current /\ (record => record')
   BY <1>3 DEF LeaseRefused, EndLease, CleanupBusy, CheckRefused, CleanupFails, Finish
 <2>2. /\ pc'[p] \in Cleaning => pc[p] \in Cleaning /\ known'[p] = known[p]
       /\ pc'[p] # "replace"
       /\ \A q \in Procs : q # p => pc'[q] = pc[q] /\ known'[q] = known[q]
   BY <1>3 DEF LeaseRefused, EndLease, CleanupBusy, CheckRefused, CleanupFails, Finish, Return, Cleaning, Removing
 <2>3. \A q \in Procs :
         /\ pc'[q] \in Cleaning => pc[q] \in Cleaning /\ known'[q] = known[q]
         /\ pc'[q] = "replace" => pc[q] = "replace" /\ known'[q] = known[q]
   BY <2>2
 <2> QED BY <2>1, <2>3, SameLog, StillBound
<1>4. ASSUME NEW p \in Procs, Lease(p) \/ EnterCleanup(p) \/ Check(p) \/ Prepare(p) \/
         LoadForLease(p) PROVE BoundInv'
 <2>1. log' = log /\ current' = current /\ (record => record')
   BY <1>4 DEF Lease, EnterCleanup, Check, Prepare, LoadForLease
 <2>2. /\ pc'[p] \in Cleaning => pc[p] \in Cleaning /\ known'[p] = known[p]
       /\ pc'[p] # "replace"
       /\ \A q \in Procs : q # p => pc'[q] = pc[q] /\ known'[q] = known[q]
   BY <1>4 DEF Lease, EnterCleanup, Check, Prepare, LoadForLease, At, Cleaning, Removing
 <2>3. \A q \in Procs :
         /\ pc'[q] \in Cleaning => pc[q] \in Cleaning /\ known'[q] = known[q]
         /\ pc'[q] = "replace" => pc[q] = "replace" /\ known'[q] = known[q]
   BY <2>2
 <2> QED BY <2>1, <2>3, SameLog, StillBound
<1>5. ASSUME NEW p \in Procs, Allocate(p) PROVE BoundInv'
 <2>1. ~WasPublished' BY <1>5 DEF Allocate, WasPublished
 <2> QED BY <2>1 DEF BoundInv
<1>6. ASSUME NEW p \in Procs, Commit(p) PROVE BoundInv'
 <2>1. /\ lock = p /\ pc' = [pc EXCEPT ![p] = "stage"] /\ log' = log /\ record' = record
       /\ current'.state = "ALLOCATED" /\ \A q \in Procs : q # p => known'[q] = known[q]
   BY <1>6 DEF Commit, At, Unregistered
 <2> QED BY <2>1, SameLog DEF BoundInv, At, Late, Cleaning, Removing
<1>7. ASSUME NEW p \in Procs, NEW forced \in BOOLEAN, LoadForCleanup(p, forced) PROVE
         BoundInv'
 <2>1. /\ UNCHANGED <<log, current, record>> /\ known' = [known EXCEPT ![p] = current]
       /\ pc' = [pc EXCEPT ![p] = "enter"] /\ Loadable
   BY <1>7 DEF LoadForCleanup
 <2>2. WasPublished => current.bound /\ current.owned BY <2>1 DEF BoundInv, Loadable
 <2> QED BY <2>1, <2>2, SameLog DEF BoundInv, At
<1>8. ASSUME NEW p \in Procs, RecordEvent(p) PROVE BoundInv'
 <2> DEFINE e == [from |-> known[p].state, to |-> Target[pc[p]]]
 <2>1. e \in Events /\ e.from = known[p].state /\ e.to = Target[pc[p]] /\ pc[p] \in DOMAIN Target
   BY <1>8, Targets DEF RecordEvent, Events, Registries
 <2>2. lock = p /\ pc' = [pc EXCEPT ![p] = "replace"] /\ UNCHANGED <<known, current, record>>
   BY <1>8, Targets DEF RecordEvent, Goto
 <2>3. log \in Seq(Events) /\ log # << >> /\ log' = Append(log, e) BY <1>8, <2>1, Targets DEF RecordEvent, Events, At
 <2> HIDE DEF e
 <2>4. /\ WasPublished' <=> WasPublished \/ e.to = "PUBLISHED"
       /\ Chained' => Chained /\ known[p].state = Last.to
       /\ Last'.to = Target[pc[p]]
   BY <2>1, <2>3, ChainGrows, Appended
 <2>5. \A q \in Procs : q # p => pc[q] \in {"idle", "lease", "enter"} /\ pc'[q] = pc[q] BY <2>2
 <2>6. pc'[p] = "replace" BY <2>2
 <2>7. CASE pc[p] \in {"ready", "created", "candidate", "published"}
  <3>1. Advancing(p) /\ ~Replacing(p, "PUBLISHED") BY <2>7 DEF Advancing, Replacing, Making, Tried, At
  <3>2. /\ ~WasPublished /\ current.state \in Early \cup {"none"}
        /\ \A q \in Procs : At(q, "enter") => known[q].state \in Early
    BY <3>1 DEF EarlyInv
  <3>3. WasPublished' => At(p, "published") /\ Target[pc[p]] = "PUBLISHED" BY <2>1, <2>4, <2>7, <3>2, Targets DEF At
  <3>4. At(p, "published") => record /\ known[p].owned BY DEF MadeInv, Applied, At
  <3> QED BY <2>2, <2>4, <2>5, <2>6, <3>2, <3>3, <3>4 DEF BoundInv, At, Late, Early, Cleaning, Removing
 <2>8. CASE pc[p] = "fail"
  <3>1. WasPublished' <=> WasPublished BY <2>1, <2>4, <2>8, Targets
  <3>2. known[p].state \in Early /\ (WasPublished => Last.to = "PUBLISHED") BY <2>8 DEF FailedInv, At
  <3>3. ~(WasPublished' /\ Chained') BY <2>4, <3>1, <3>2 DEF Early
  <3> QED BY <2>2, <3>1, <3>3 DEF BoundInv
 <2>9. CASE pc[p] \in {"announce", "conclude"}
  <3>1. (WasPublished' <=> WasPublished) /\ Target[pc[p]] \in Late BY <2>1, <2>4, <2>9, Targets DEF Late
  <3>2. pc[p] \in Cleaning BY <2>9 DEF Cleaning
  <3>3. WasPublished /\ Chained' => known[p].bound /\ known[p].owned BY <2>4, <3>2 DEF BoundInv, Late, Early
  <3> QED BY <2>2, <2>4, <2>5, <2>6, <3>1, <3>3 DEF BoundInv, At, Cleaning, Removing
 <2> QED BY <2>1, <2>7, <2>8, <2>9, Targets
<1>9. ASSUME NEW p \in Procs, ReplaceCurrent(p) PROVE BoundInv'
 <2>1. /\ lock = p /\ At(p, "replace") /\ pc' = [pc EXCEPT ![p] = After(Last.to)]
       /\ UNCHANGED <<log, record>> /\ current' = Updated(p)
       /\ known' = [known EXCEPT ![p] = Updated(p)]
   BY <1>9 DEF ReplaceCurrent, At, Kept
 <2>2. /\ Updated(p).state = Last.to
       /\ Updated(p).owned <=> known[p].owned \/ Last.to = "WORKTREE_CREATED"
       /\ Updated(p).bound <=> known[p].bound \/ Last.to = "PUBLISHED"
   BY DEF Updated
 <2>3. After(Last.to) # "replace" /\ (After(Last.to) \in Cleaning => Last.to = "CLEANUP_STARTED")
   BY DEF After, Cleaning, Removing
 <2>4. WasPublished /\ Chained /\ Last.to \in Late => Updated(p).bound /\ Updated(p).owned BY <2>1, <2>2 DEF BoundInv
 <2> QED BY <2>1, <2>2, <2>3, <2>4, SameLog DEF BoundInv, At, Late
<1>10. ASSUME NEW p \in Procs, Kill(p) PROVE BoundInv'
 <2>1. /\ pc' = [pc EXCEPT ![p] = "idle"] /\ known' = [known EXCEPT ![p] = Unregistered]
       /\ UNCHANGED <<current, record>> /\ Halfway(p)
   BY <1>10 DEF Kill, Return
 <2>2. (WasPublished' <=> WasPublished) /\ (Chained' => log' = log) BY <2>1, LogAfterFault
 <2>3. \A q \in Procs :
         /\ pc'[q] \in Cleaning => pc[q] \in Cleaning /\ known'[q] = known[q]
         /\ pc'[q] = "replace" => pc[q] = "replace" /\ known'[q] = known[q]
   BY <2>1 DEF Cleaning, Removing
 <2> QED BY <2>1, <2>2, <2>3, StillBound
<1>11. ASSUME NEW p \in Procs, Raise(p) PROVE BoundInv'
 <2>1. /\ pc'[p] \in {"idle", "fail"} /\ record' = record
       /\ \A q \in Procs : q # p => pc'[q] = pc[q] /\ known'[q] = known[q]
   BY <1>11 DEF Raise, Goto, Return
 <2>2. (WasPublished' <=> WasPublished) /\ (Chained' => log' = log)
  <3>1. CASE At(p, "adding")
   <4>1. log' = log BY <1>11, <3>1 DEF Raise
   <4> QED BY <4>1, SameLog
  <3>2. CASE ~At(p, "adding")
   <4>1. Halfway(p) BY <1>11, <3>2 DEF Raise
   <4> QED BY <4>1, LogAfterFault
  <3> QED BY <3>1, <3>2
 <2>3. \A q \in Procs :
         /\ pc'[q] \in Cleaning => pc[q] \in Cleaning /\ known'[q] = known[q]
         /\ pc'[q] = "replace" => pc[q] = "replace" /\ known'[q] = known[q]
   BY <2>1 DEF Cleaning, Removing
 <2>4. CASE current' = current BY <2>1, <2>2, <2>3, <2>4, StillBound
 <2>5. CASE At(p, "replace") /\ current' = Updated(p)
  <3>1. /\ Updated(p).state = Last.to
        /\ Updated(p).owned <=> known[p].owned \/ Last.to = "WORKTREE_CREATED"
        /\ Updated(p).bound <=> known[p].bound \/ Last.to = "PUBLISHED"
    BY DEF Updated
  <3>2. WasPublished /\ Chained /\ Last.to \in Late => Updated(p).bound /\ Updated(p).owned BY <2>5, <3>1 DEF BoundInv
  <3>3. WasPublished' => record' BY <2>1, <2>2 DEF BoundInv
  <3>4. ASSUME WasPublished', Chained' PROVE log' = log /\ WasPublished /\ Chained /\ Last' = Last
    BY <2>2, <3>4, SameLog
  <3> QED BY <2>1, <2>3, <2>5, <3>1, <3>2, <3>3, <3>4 DEF BoundInv, At
 <2> QED BY <1>11, <2>4, <2>5 DEF Raise
<1>12. CASE OrphanAdds
 <2>1. log' = log /\ current' = current /\ (record => record') /\ pc' = pc /\ known' = known BY <1>12 DEF OrphanAdds
 <2> QED BY <2>1, SameLog, StillBound
<1>13. CASE OrphanRemoves
 <2>1. log' = log /\ current' = current /\ (record => record') /\ pc' = pc /\ known' = known BY <1>13 DEF OrphanRemoves
 <2> QED BY <2>1, SameLog, StillBound
<1>14. CASE Edit
 <2>1. log' = log /\ current' = current /\ (record => record') /\ pc' = pc /\ known' = known BY <1>14 DEF Edit
 <2> QED BY <2>1, SameLog, StillBound
<1>15. CASE Sibling
 <2>1. log' = log /\ current' = current /\ (record => record') /\ pc' = pc /\ known' = known BY <1>15 DEF Sibling
 <2> QED BY <2>1, SameLog, StillBound
<1>16. CASE UNCHANGED vars BY <1>16, SameLog, StillBound
<1> QED BY <1>1, <1>2, <1>3, <1>4, <1>5, <1>6, <1>7, <1>8, <1>9, <1>10, <1>11, <1>12,
     <1>13, <1>14, <1>15, <1>16 DEF Next, Work, PrepareStep, LeaseStep, CleanupStep

\* A step that binds no ownership, whatever is read, leaves it as it was.
LEMMA StillOwned ==
  ASSUME OwnerInv, log' = log, current' = current, kills > 0 => kills' > 0,
         "add" \in orphans' => "add" \in orphans,
         \A q \in Procs :
           /\ known'[q] = known[q] \/ known'[q] = current \/ ~known'[q].owned
           /\ pc'[q] \in Unowned => pc[q] \in Unowned
           /\ pc'[q] = "replace" => pc[q] = "replace"
           /\ pc'[q] \in {"idle", "allocate"} =>
                ~known'[q].owned \/ (pc[q] \in {"idle", "allocate"} /\ known'[q] = known[q])
  PROVE  OwnerInv'
<1>1. Last' = Last BY SameLog
<1>2. ASSUME ~current.owned, \A q \in Procs : ~known[q].owned
      PROVE  ~current'.owned /\ \A q \in Procs : ~known'[q].owned
  BY <1>2
<1>3. ASSUME NEW q \in Procs, known'[q].owned
      PROVE  known'[q].state \notin {"none", "ALLOCATED", "MIRROR_READY"}
  BY <1>3 DEF OwnerInv
<1>4. ASSUME NEW p \in Procs,
             (pc[p] \in Unowned \/ Replacing(p, "MIRROR_READY") \/ Replacing(p,
                   "WORKTREE_CREATED"))'
      PROVE  pc[p] \in Unowned \/ Replacing(p, "MIRROR_READY") \/ Replacing(p, "WORKTREE_CREATED")
  BY <1>1, <1>4 DEF Replacing, At, Unowned
<1>5. \A q \in Procs : pc'[q] \in {"idle", "allocate"} => ~known'[q].owned BY DEF OwnerInv
<1> QED BY <1>2, <1>3, <1>4, <1>5 DEF OwnerInv

\* What a transition binds
LEMMA UpdatedOwner ==
  ASSUME TypeInv, LogInv, MakingInv, OwnerInv, NEW p \in Procs, At(p, "replace")
  PROVE  /\ Updated(p).state = Last.to /\ Last.to \notin {"none", "ALLOCATED"}
         /\ Updated(p).owned <=> known[p].owned \/ Last.to = "WORKTREE_CREATED"
         /\ "add" \in orphans \/ Last.to = "MIRROR_READY" => ~Updated(p).owned
<1>1. Updated(p).state = Last.to /\ (Updated(p).owned <=> known[p].owned
      \/ Last.to = "WORKTREE_CREATED")
  BY DEF Updated
<1>2. Last.to \notin {"none", "ALLOCATED"} BY Targets DEF LogInv
<1>3. Last.to = "MIRROR_READY" => ~known[p].owned BY DEF OwnerInv, Replacing
<1>4. "add" \in orphans => ~known[p].owned /\ Last.to # "WORKTREE_CREATED"
  BY DEF OwnerInv, MakingInv, Advancing, Replacing, Progress
<1> QED BY <1>1, <1>2, <1>3, <1>4

\* Ownership is bound with WORKTREE_CREATED.
LEMMA OwnerStep == TypeInv /\ LogInv /\ FreshInv /\ MakingInv /\ OwnerInv /\ [Next]_vars
    => OwnerInv'
<1> SUFFICES ASSUME TypeInv, LogInv, FreshInv, MakingInv, OwnerInv, [Next]_vars PROVE OwnerInv' OBVIOUS
<1> USE SlotsAssumption, BoundsAssumption DEF vars, procVars, logVars, treeVars,
    storeVars, faultVars, TypeInv, TypeOK, LockInv, LogInv
<1>1. ASSUME NEW p \in Procs, StartMirror(p) \/ FetchMirror(p) \/ AddEntry(p) \/
         AddTree(p) \/ Capture(p) \/ Apply(p) \/ WriteEvidence(p) \/ PublishRecord(p) \/
         OpenStage(p) PROVE OwnerInv'
 <2>1. UNCHANGED <<log, current, kills, orphans>>
   BY <1>1 DEF StartMirror, FetchMirror, AddEntry, AddTree, Capture, Apply, WriteEvidence, PublishRecord, OpenStage
 <2>2. /\ known'[p] = known[p] \/ known'[p] = current \/ ~known'[p].owned
       /\ pc'[p] \in Unowned => pc[p] \in Unowned
       /\ pc'[p] # "replace"
       /\ pc'[p] \in {"idle", "allocate"} =>
            ~known'[p].owned \/ (pc[p] \in {"idle", "allocate"} /\ known'[p] = known[p])
       /\ \A q \in Procs : q # p => pc'[q] = pc[q] /\ known'[q] = known[q]
   BY <1>1 DEF StartMirror, FetchMirror, AddEntry, AddTree, Capture, Apply, WriteEvidence, PublishRecord, OpenStage,
     At, Goto, Unowned
 <2> QED BY <2>1, <2>2, StillOwned
<1>2. ASSUME NEW p \in Procs, Unlock(p) \/ SkipUnlock(p) \/ RemoveTree(p) \/
         RemoveEntry(p) \/ PruneEntry(p) \/ PruneTree(p) \/ RemoveStrays(p) \/
         VerifyRemoval(p) PROVE OwnerInv'
 <2>1. /\ UNCHANGED <<log, current, kills, orphans, known>>
       /\ pc' = [pc EXCEPT ![p] = pc'[p]] /\ pc'[p] \in Removing \cup {"conclude"}
   BY <1>2, Removes
 <2>2. pc'[p] \notin Unowned \cup {"replace", "idle", "allocate"} BY <2>1 DEF Removing, Unowned
 <2> QED BY <2>1, <2>2, StillOwned
<1>3. ASSUME NEW p \in Procs, LeaseRefused(p) \/ EndLease(p) \/ CleanupBusy(p) \/
         CheckRefused(p) \/ CleanupFails(p) \/ Finish(p) PROVE OwnerInv'
 <2>1. UNCHANGED <<log, current, kills, orphans>>
   BY <1>3 DEF LeaseRefused, EndLease, CleanupBusy, CheckRefused, CleanupFails, Finish
 <2>2. /\ known'[p] = known[p] \/ known'[p] = current \/ ~known'[p].owned
       /\ pc'[p] \in Unowned => pc[p] \in Unowned
       /\ pc'[p] # "replace"
       /\ pc'[p] \in {"idle", "allocate"} =>
            ~known'[p].owned \/ (pc[p] \in {"idle", "allocate"} /\ known'[p] = known[p])
       /\ \A q \in Procs : q # p => pc'[q] = pc[q] /\ known'[q] = known[q]
   BY <1>3 DEF LeaseRefused, EndLease, CleanupBusy, CheckRefused, CleanupFails, Finish, Return, Unregistered, Unowned
 <2> QED BY <2>1, <2>2, StillOwned
<1>4. ASSUME NEW p \in Procs, NEW forced \in BOOLEAN, Lease(p) \/ EnterCleanup(p) \/ Check(p)
           \/ LoadForLease(p)
         \/ LoadForCleanup(p, forced) \/ Prepare(p) PROVE OwnerInv'
 <2>1. UNCHANGED <<log, current, kills, orphans>>
   BY <1>4 DEF Lease, EnterCleanup, Check, LoadForLease, LoadForCleanup, Prepare
 <2>2. /\ known'[p] = known[p] \/ known'[p] = current \/ ~known'[p].owned
       /\ pc'[p] \in Unowned => pc[p] \in Unowned
       /\ pc'[p] # "replace"
       /\ pc'[p] \in {"idle", "allocate"} =>
            ~known'[p].owned \/ (pc[p] \in {"idle", "allocate"} /\ known'[p] = known[p])
       /\ \A q \in Procs : q # p => pc'[q] = pc[q] /\ known'[q] = known[q]
   BY <1>4 DEF Lease, EnterCleanup, Check, LoadForLease, LoadForCleanup, Prepare, At, Unowned
 <2> QED BY <2>1, <2>2, StillOwned
<1>5. ASSUME NEW p \in Procs, Allocate(p) PROVE OwnerInv'
 <2>1. /\ lock = p /\ pc' = [pc EXCEPT ![p] = "commit"] /\ At(p, "allocate")
       /\ UNCHANGED <<known, current, orphans>>
   BY <1>5 DEF Allocate, At, Goto
 <2>2. log = << >> /\ ~current.owned /\ orphans = {} BY <2>1 DEF FreshInv, OwnerInv
 <2>3. \A q \in Procs : q # p => pc'[q] = pc[q] /\ pc[q] \in {"idle", "lease", "enter"} BY <2>1
 <2>4. \A q \in Procs : ~known[q].owned
  <3>1. \A q \in Procs : pc[q] \in {"idle", "allocate"} BY <2>1, <2>2, <2>3 DEF At
  <3> QED BY <3>1 DEF OwnerInv
 <2> QED BY <2>1, <2>2, <2>4 DEF OwnerInv
<1>6. ASSUME NEW p \in Procs, Commit(p) PROVE OwnerInv'
 <2>1. /\ lock = p /\ pc' = [pc EXCEPT ![p] = "stage"] /\ At(p, "commit")
       /\ ~current'.owned /\ known' = [known EXCEPT ![p] = current'] /\ UNCHANGED <<orphans,
             kills>>
   BY <1>6 DEF Commit, At, Unregistered
 <2>2. \A q \in Procs : ~known[q].owned BY <2>1 DEF OwnerInv, Unowned, At
 <2>3. \A q \in Procs : ~known'[q].owned BY <2>1, <2>2
 <2> QED BY <2>1, <2>3 DEF OwnerInv
<1>7. ASSUME NEW p \in Procs, RecordEvent(p) PROVE OwnerInv'
 <2>1. /\ lock = p /\ pc' = [pc EXCEPT ![p] = "replace"]
       /\ UNCHANGED <<known, current, orphans, kills>>
   BY <1>7, Targets DEF RecordEvent, Goto
 <2>2. [from |-> known[p].state, to |-> Target[pc[p]]] \in Events BY <1>7, Targets DEF RecordEvent, Events, Registries
 <2>3. Last'.to = Target[pc[p]] BY <1>7, <2>2, Appended DEF RecordEvent, Events
 <2>4. \A q \in Procs : q # p => pc'[q] = pc[q] /\ pc[q] \in {"idle", "lease", "enter"} BY <2>1
 <2>5. /\ pc[p] \in DOMAIN Target
       /\ Target[pc[p]] \in {"MIRROR_READY", "WORKTREE_CREATED"} => pc[p] \in Unowned
   BY <1>7, Targets DEF RecordEvent, Unowned
 <2>6. ASSUME NEW q \in Procs,
              (pc[q] \in Unowned \/ Replacing(q, "MIRROR_READY") \/ Replacing(q,
                    "WORKTREE_CREATED"))'
       PROVE  q = p /\ pc[p] \in Unowned
   BY <2>1, <2>3, <2>4, <2>5, <2>6 DEF Replacing, At, Unowned
 <2>7. pc'[p] \notin {"idle", "allocate"} BY <2>1
 <2> QED BY <2>1, <2>4, <2>6, <2>7 DEF OwnerInv
<1>8. ASSUME NEW p \in Procs, ReplaceCurrent(p) PROVE OwnerInv'
 <2>1. /\ lock = p /\ At(p, "replace") /\ pc' = [pc EXCEPT ![p] = After(Last.to)]
       /\ current' = Updated(p) /\ known' = [known EXCEPT ![p] = Updated(p)]
       /\ UNCHANGED <<log, orphans, kills>>
   BY <1>8 DEF ReplaceCurrent, At, Kept
 <2>2. \A q \in Procs : q # p => pc'[q] = pc[q] /\ pc[q] \in {"idle", "lease", "enter"} BY <2>1
 <2>3. /\ After(Last.to) \notin {"replace", "idle", "allocate"}
       /\ After(Last.to) \in Unowned => Last.to = "MIRROR_READY"
   BY DEF After, Unowned
 <2>4. /\ Updated(p).owned => Updated(p).state \notin {"none", "ALLOCATED", "MIRROR_READY"}
       /\ "add" \in orphans \/ Last.to = "MIRROR_READY" => ~Updated(p).owned
   BY <2>1, UpdatedOwner
 <2>5. \A q \in Procs :
         (pc[q] \in Unowned \/ Replacing(q, "MIRROR_READY") \/ Replacing(q,
               "WORKTREE_CREATED"))' =>
           q = p /\ Replacing(p, "MIRROR_READY")
   BY <2>1, <2>2, <2>3 DEF Replacing, At, Unowned
 <2>6. /\ current' = Updated(p) /\ known'[p] = Updated(p)
       /\ \A q \in Procs : q # p => known'[q] = known[q]
   BY <2>1
 <2>7. ASSUME ~Updated(p).owned, \A q \in Procs : ~known[q].owned
       PROVE  ~current'.owned /\ \A q \in Procs : ~known'[q].owned
   BY <2>6, <2>7
 <2>8. (\E q \in Procs : (pc[q] \in Unowned \/ Replacing(q, "MIRROR_READY")
                         \/ Replacing(q, "WORKTREE_CREATED"))') \/ "add" \in orphans =>
         ~Updated(p).owned /\ \A q \in Procs : ~known[q].owned
   BY <2>4, <2>5 DEF OwnerInv, Replacing
 <2>9. \A q \in Procs : pc'[q] \in {"idle", "allocate"} => q # p /\ pc[q] = pc'[q] BY <2>1, <2>2, <2>3
 <2> QED BY <2>1, <2>4, <2>6, <2>7, <2>8, <2>9 DEF OwnerInv
<1>9. ASSUME NEW p \in Procs, Kill(p) PROVE OwnerInv'
 <2>1. /\ pc' = [pc EXCEPT ![p] = "idle"] /\ known' = [known EXCEPT ![p] = Unregistered]
       /\ current' = current /\ Halfway(p) /\ kills' > 0 /\ ~At(p, "idle")
       /\ orphans' \in {orphans, orphans \cup Child(p)}
   BY <1>9 DEF Kill, Return
 <2>2. ~known'[p].owned /\ \A q \in Procs : q # p => known'[q] = known[q] /\ pc'[q] = pc[q] BY <2>1 DEF Unregistered
 <2>3. "add" \in orphans' => "add" \in orphans \/ pc[p] \in Unowned BY <2>1 DEF Child, At, Unowned
 <2>4. "add" \in orphans' => ~current.owned /\ \A q \in Procs : ~known[q].owned BY <2>3 DEF OwnerInv
 <2>5. ASSUME NEW q \in Procs,
              (pc[q] \in Unowned \/ Replacing(q, "MIRROR_READY") \/ Replacing(q,
                    "WORKTREE_CREATED"))'
       PROVE  pc[q] \in Unowned \/ Replacing(q, "MIRROR_READY") \/ Replacing(q, "WORKTREE_CREATED")
  <3>1. q # p /\ pc[q] = pc'[q] BY <2>1, <2>5 DEF Replacing, At, Unowned
  <3>2. pc[p] \in {"lease", "enter"} BY <2>1, <2>5, <3>1 DEF Replacing, At, Unowned
  <3>3. log' = log BY <2>1, <3>2, LogAfterFault, Targets
  <3> QED BY <2>5, <3>1, <3>3, SameLog DEF Replacing, At
 <2>6. pc'[p] = "idle" BY <2>1
 <2> QED BY <2>1, <2>2, <2>4, <2>5, <2>6 DEF OwnerInv
<1>10. ASSUME NEW p \in Procs, Raise(p) PROVE OwnerInv'
 <2>1. lock = p BY <1>10 DEF Raise, InTry, At, Tried, Removing
 <2>2. /\ (pc'[p] = "idle" /\ ~known'[p].owned) \/ (pc'[p] = "fail" /\ known'[p] = known[p])
       /\ \A q \in Procs : q # p => pc'[q] = pc[q] /\ known'[q] = known[q]
       /\ UNCHANGED <<orphans, kills>>
   BY <1>10 DEF Raise, Goto, Return, Unregistered
 <2>3. \A q \in Procs :
         ~(pc[q] \in Unowned \/ Replacing(q, "MIRROR_READY") \/ Replacing(q, "WORKTREE_CREATED"))'
   BY <2>1, <2>2 DEF Replacing, At, Unowned
 <2>4. current' = current \/ (At(p, "replace") /\ current' = Updated(p)) BY <1>10 DEF Raise
 <2>5. At(p, "replace") =>
         /\ Updated(p).owned => Updated(p).state \notin {"none", "ALLOCATED", "MIRROR_READY"}
         /\ "add" \in orphans => ~Updated(p).owned
   BY UpdatedOwner
 <2>6. /\ current'.owned => current'.state \notin {"none", "ALLOCATED", "MIRROR_READY"}
       /\ "add" \in orphans => ~current'.owned
   BY <2>4, <2>5 DEF OwnerInv
 <2>7. \A q \in Procs : known'[q] = known[q] \/ ~known'[q].owned BY <2>2
 <2> QED BY <2>2, <2>3, <2>6, <2>7 DEF OwnerInv
<1>11. CASE OrphanAdds
 <2>1. /\ UNCHANGED <<log, current, kills, pc, known>>
       /\ "add" \in orphans' => "add" \in orphans
   BY <1>11 DEF OrphanAdds
 <2> QED BY <2>1, StillOwned
<1>12. CASE OrphanRemoves
 <2>1. /\ UNCHANGED <<log, current, kills, pc, known>>
       /\ "add" \in orphans' => "add" \in orphans
   BY <1>12 DEF OrphanRemoves
 <2> QED BY <2>1, StillOwned
<1>13. CASE Edit
 <2>1. /\ UNCHANGED <<log, current, kills, pc, known>>
       /\ "add" \in orphans' => "add" \in orphans
   BY <1>13 DEF Edit
 <2> QED BY <2>1, StillOwned
<1>14. CASE Sibling
 <2>1. /\ UNCHANGED <<log, current, kills, pc, known>>
       /\ "add" \in orphans' => "add" \in orphans
   BY <1>14 DEF Sibling
 <2> QED BY <2>1, StillOwned
<1>15. CASE UNCHANGED vars BY <1>15, StillOwned
<1> QED BY <1>1, <1>2, <1>3, <1>4, <1>5, <1>6, <1>7, <1>8, <1>9, <1>10, <1>11, <1>12,
     <1>13, <1>14, <1>15 DEF Next, Work, PrepareStep, LeaseStep, CleanupStep

\* A step that brings nobody to the end of a clean-up, and makes nothing, leaves gone
\* what was gone.
LEMMA StillGone ==
  ASSUME GoneInv, UNCHANGED <<log, stage, incoming>>, kills' = 0 => kills = 0,
         tree = "absent" => tree' = "absent", admin = "absent" => admin' = "absent",
         \A q \in Procs : pc'[q] \in {"verify", "conclude", "replace"} =>
           pc'[q] = pc[q] /\ known'[q] = known[q]
  PROVE  GoneInv'
<1>1. Last' = Last BY SameLog
<1> QED BY <1>1 DEF GoneInv, Replacing, At

\* What a clean-up has verified to be gone stays gone until it is recorded.
LEMMA GoneStep == TypeInv /\ LogInv /\ OwnerInv /\ GoneInv /\ [Next]_vars => GoneInv'
<1> SUFFICES ASSUME TypeInv, LogInv, OwnerInv, GoneInv, [Next]_vars PROVE GoneInv' OBVIOUS
<1> USE SlotsAssumption, BoundsAssumption DEF vars, procVars, logVars, treeVars,
    storeVars, faultVars, TypeInv, TypeOK, LockInv, LogInv
<1>1. ASSUME NEW p \in Procs, StartMirror(p) \/ FetchMirror(p) \/ AddEntry(p) \/
         AddTree(p) \/ Capture(p) \/ Apply(p) \/ WriteEvidence(p) \/ PublishRecord(p) \/
         OpenStage(p) \/ Allocate(p) \/ Commit(p) PROVE GoneInv'
 <2>1. lock = p /\ pc' = [pc EXCEPT ![p] = pc'[p]] /\ pc'[p] \notin {"verify", "conclude",
       "replace"}
   BY <1>1 DEF StartMirror, FetchMirror, AddEntry, AddTree, Capture, Apply, WriteEvidence, PublishRecord, OpenStage,
     Allocate, Commit, At, Goto, RemovalOf, Removing
 <2> QED BY SMTT(40), <2>1 DEF GoneInv, Replacing, At
<1>2. ASSUME NEW p \in Procs, Unlock(p) \/ SkipUnlock(p) \/ RemoveTree(p) \/
         RemoveEntry(p) \/ PruneEntry(p) \/ PruneTree(p) PROVE GoneInv'
 <2>1. lock = p /\ pc' = [pc EXCEPT ![p] = pc'[p]] /\ pc'[p] \notin {"verify", "conclude",
       "replace"}
   BY <1>2 DEF Unlock, SkipUnlock, RemoveTree, RemoveEntry, PruneEntry, PruneTree, At, Goto, RemovalOf, Removing
 <2> QED BY <2>1 DEF GoneInv, Replacing, At
<1>3. ASSUME NEW p \in Procs, LeaseRefused(p) \/ EndLease(p) \/ CleanupBusy(p) \/
         CheckRefused(p) \/ CleanupFails(p) \/ Finish(p) PROVE GoneInv'
 <2>1. UNCHANGED <<log, stage, incoming, kills, tree, admin>>
   BY <1>3 DEF LeaseRefused, EndLease, CleanupBusy, CheckRefused, CleanupFails, Finish
 <2>2. /\ pc'[p] \notin {"verify", "conclude", "replace"}
       /\ \A q \in Procs : q # p => pc'[q] = pc[q] /\ known'[q] = known[q]
   BY <1>3 DEF LeaseRefused, EndLease, CleanupBusy, CheckRefused, CleanupFails, Finish, Return, At
 <2> QED BY <2>1, <2>2, StillGone
<1>4. ASSUME NEW p \in Procs, NEW forced \in BOOLEAN, Lease(p) \/ EnterCleanup(p) \/ Check(p)
           \/ LoadForLease(p)
         \/ LoadForCleanup(p, forced) \/ Prepare(p) PROVE GoneInv'
 <2>1. UNCHANGED <<log, stage, incoming, kills, tree, admin>>
   BY <1>4 DEF Lease, EnterCleanup, Check, LoadForLease, LoadForCleanup, Prepare
 <2>2. /\ pc'[p] \notin {"verify", "conclude", "replace"}
       /\ \A q \in Procs : q # p => pc'[q] = pc[q] /\ known'[q] = known[q]
   BY <1>4 DEF Lease, EnterCleanup, Check, LoadForLease, LoadForCleanup, Prepare, At
 <2> QED BY <2>1, <2>2, StillGone
<1>5. ASSUME NEW p \in Procs, RemoveStrays(p) PROVE GoneInv'
 <2>1. /\ lock = p /\ pc' = [pc EXCEPT ![p] = "verify"] /\ stage' = "absent" /\ incoming' = FALSE
   BY <1>5 DEF RemoveStrays, At, Goto, Strays
 <2> QED BY <2>1 DEF GoneInv, Replacing, At
<1>6. ASSUME NEW p \in Procs, VerifyRemoval(p) PROVE GoneInv'
 <2>1. /\ lock = p /\ pc' = [pc EXCEPT ![p] = "conclude"] /\ At(p, "verify") /\ BothSidesGone(p)
       /\ UNCHANGED <<stage, incoming, tree, admin, known>>
   BY <1>6 DEF VerifyRemoval, At, Goto
 <2> QED BY <2>1 DEF GoneInv, Replacing, At, BothSidesGone
<1>7. ASSUME NEW p \in Procs, RecordEvent(p) PROVE GoneInv'
 <2>1. /\ lock = p /\ pc' = [pc EXCEPT ![p] = "replace"]
       /\ UNCHANGED <<known, stage, incoming, tree, admin, kills>>
   BY <1>7, Targets DEF RecordEvent, Goto
 <2>2. [from |-> known[p].state, to |-> Target[pc[p]]] \in Events BY <1>7, Targets DEF RecordEvent, Events, Registries
 <2>3. Last'.to = Target[pc[p]] BY <1>7, <2>2, Appended DEF RecordEvent, Events
 <2>4. Target[pc[p]] = "CLEANED" => At(p, "conclude") BY <1>7, Targets DEF RecordEvent, At
 <2> QED BY <2>1, <2>3, <2>4 DEF GoneInv, Replacing, At
<1>8. ASSUME NEW p \in Procs, ReplaceCurrent(p) PROVE GoneInv'
 <2>1. /\ lock = p /\ pc' = [pc EXCEPT ![p] = After(Last.to)]
       /\ After(Last.to) \notin {"verify", "conclude", "replace"}
   BY <1>8 DEF ReplaceCurrent, At, After
 <2> QED BY <2>1 DEF GoneInv, Replacing, At
<1>9. ASSUME NEW p \in Procs, Kill(p) PROVE GoneInv'
 <2>1. /\ pc' = [pc EXCEPT ![p] = "idle"] /\ known' = [known EXCEPT ![p] = Unregistered]
       /\ UNCHANGED <<stage, incoming>> /\ Halfway(p) /\ kills' # 0
   BY <1>9 DEF Kill, Return
 <2>2. CASE pc[p] \in {"lease", "enter"}
  <3>1. log' = log BY <2>1, <2>2, LogAfterFault, Targets
  <3>2. UNCHANGED <<tree, admin>> BY <2>1, <2>2 DEF Halfway
  <3> QED BY <2>1, <3>1, <3>2, StillGone
 <2>3. CASE pc[p] \notin {"lease", "enter"}
  <3>1. lock = p BY <1>9, <2>3 DEF Kill, At
  <3> QED BY <2>1, <3>1 DEF GoneInv, Replacing, At
 <2> QED BY <2>2, <2>3
<1>10. ASSUME NEW p \in Procs, Raise(p) PROVE GoneInv'
 <2>1. lock = p BY <1>10 DEF Raise, InTry, At, Tried, Removing
 <2>2. pc'[p] \in {"idle", "fail"} /\ \A q \in Procs : q # p => pc'[q] = pc[q] BY <1>10 DEF Raise, Goto, Return
 <2> QED BY <2>1, <2>2 DEF GoneInv, Replacing, At
<1>11. CASE OrphanAdds
 <2>1. UNCHANGED <<log, pc, known, stage, incoming, kills, admin>> BY <1>11 DEF OrphanAdds
 <2>2. kills # 0 /\ \A q \in Procs : ~known[q].owned BY <1>11 DEF OrphanAdds, OwnerInv
 <2> QED BY <2>1, <2>2, SameLog DEF GoneInv, Replacing, At
<1>12. CASE OrphanRemoves
 <2>1. /\ UNCHANGED <<log, pc, known, stage, incoming, kills>>
       /\ tree = "absent" => tree' = "absent"
       /\ admin = "absent" => admin' = "absent"
   BY <1>12 DEF OrphanRemoves
 <2> QED BY <2>1, StillGone
<1>13. CASE Edit
 <2>1. /\ UNCHANGED <<log, pc, known, stage, incoming, kills>>
       /\ tree = "absent" => tree' = "absent"
       /\ admin = "absent" => admin' = "absent"
   BY <1>13 DEF Edit
 <2> QED BY <2>1, StillGone
<1>14. CASE Sibling
 <2>1. /\ UNCHANGED <<log, pc, known, stage, incoming, kills>>
       /\ tree = "absent" => tree' = "absent"
       /\ admin = "absent" => admin' = "absent"
   BY <1>14 DEF Sibling
 <2> QED BY <2>1, StillGone
<1>15. CASE UNCHANGED vars BY <1>15, StillGone
<1> QED BY <1>1, <1>2, <1>3, <1>4, <1>5, <1>6, <1>7, <1>8, <1>9, <1>10, <1>11, <1>12,
     <1>13, <1>14, <1>15 DEF Next, Work, PrepareStep, LeaseStep, CleanupStep

\* A step that makes nothing, and no new projection, leaves a clean preparation clean.
LEMMA StillCleaned ==
  ASSUME CleanedIsGone, UNCHANGED <<current, stage>>, incoming' => incoming,
         kills' = 0 => kills = 0,
         tree = "absent" => tree' = "absent", admin = "absent" => admin' = "absent"
  PROVE  CleanedIsGone'
BY DEF CleanedIsGone

\* Nothing comes back once current.json says CLEANED.
LEMMA CleanedStep == TypeInv /\ LogInv /\ EarlyInv /\ RemovingInv /\ OwnerInv /\ GoneInv
    /\ CleanedIsGone /\ [Next]_vars => CleanedIsGone'
<1> SUFFICES ASSUME TypeInv, LogInv, EarlyInv, RemovingInv, OwnerInv, GoneInv, CleanedIsGone,
           [Next]_vars PROVE CleanedIsGone'
  OBVIOUS
<1> USE SlotsAssumption, BoundsAssumption DEF vars, procVars, logVars, treeVars,
    storeVars, faultVars, TypeInv, TypeOK, LockInv, LogInv
<1>1. ASSUME NEW p \in Procs, StartMirror(p) \/ FetchMirror(p) \/ AddEntry(p) \/
         AddTree(p) \/ Capture(p) \/ Apply(p) \/ WriteEvidence(p) \/ PublishRecord(p) \/
         OpenStage(p) PROVE CleanedIsGone'
 <2>1. pc[p] \in Making /\ current' = current
   BY <1>1 DEF StartMirror, FetchMirror, AddEntry, AddTree, Capture, Apply, WriteEvidence, PublishRecord, OpenStage,
     At, Making, Tried
 <2>2. current.state \in Early \cup {"none"} BY <2>1 DEF EarlyInv, Advancing
 <2> QED BY <2>1, <2>2 DEF CleanedIsGone, Early
<1>2. ASSUME NEW p \in Procs, Unlock(p) \/ SkipUnlock(p) \/ RemoveTree(p) \/
         RemoveEntry(p) \/ PruneEntry(p) \/ PruneTree(p) \/ RemoveStrays(p) \/
         VerifyRemoval(p) PROVE CleanedIsGone'
 <2>1. pc[p] \in Removing /\ current' = current
   BY <1>2 DEF Unlock, SkipUnlock, RemoveTree, RemoveEntry, PruneEntry, PruneTree, RemoveStrays, VerifyRemoval, At,
     Removing
 <2>2. current.state = "CLEANUP_STARTED" BY <2>1 DEF RemovingInv
 <2> QED BY <2>1, <2>2 DEF CleanedIsGone
<1>3. ASSUME NEW p \in Procs, LeaseRefused(p) \/ EndLease(p) \/ CleanupBusy(p) \/
         CheckRefused(p) \/ CleanupFails(p) \/ Finish(p) PROVE CleanedIsGone'
 <2>1. /\ UNCHANGED <<current, stage, kills>> /\ (incoming' => incoming)
       /\ tree = "absent" => tree' = "absent"
       /\ admin = "absent" => admin' = "absent"
   BY <1>3 DEF LeaseRefused, EndLease, CleanupBusy, CheckRefused, CleanupFails, Finish
 <2> QED BY <2>1, StillCleaned
<1>4. ASSUME NEW p \in Procs, NEW forced \in BOOLEAN, Lease(p) \/ EnterCleanup(p) \/ Check(p)
           \/ LoadForLease(p)
         \/ LoadForCleanup(p, forced) \/ Prepare(p) PROVE CleanedIsGone'
 <2>1. /\ UNCHANGED <<current, stage, kills>> /\ (incoming' => incoming)
       /\ tree = "absent" => tree' = "absent"
       /\ admin = "absent" => admin' = "absent"
   BY <1>4 DEF Lease, EnterCleanup, Check, LoadForLease, LoadForCleanup, Prepare
 <2> QED BY <2>1, StillCleaned
<1>5. ASSUME NEW p \in Procs, Allocate(p) PROVE CleanedIsGone'
 <2>1. /\ UNCHANGED <<current, stage, kills>> /\ (incoming' => incoming)
       /\ tree = "absent" => tree' = "absent"
       /\ admin = "absent" => admin' = "absent"
   BY <1>5 DEF Allocate
 <2> QED BY <2>1, StillCleaned
<1>6. ASSUME NEW p \in Procs, Commit(p) PROVE CleanedIsGone'
 <2>1. current'.state = "ALLOCATED" BY <1>6 DEF Commit, Unregistered
 <2> QED BY <2>1 DEF CleanedIsGone
<1>7. ASSUME NEW p \in Procs, RecordEvent(p) PROVE CleanedIsGone'
 <2>1. /\ UNCHANGED <<current, stage, kills>> /\ (incoming' => incoming)
       /\ tree = "absent" => tree' = "absent"
       /\ admin = "absent" => admin' = "absent"
   BY <1>7 DEF RecordEvent
 <2> QED BY <2>1, StillCleaned
<1>8. ASSUME NEW p \in Procs, ReplaceCurrent(p) PROVE CleanedIsGone'
 <2>1. At(p, "replace") /\ current' = Updated(p) /\ UNCHANGED <<stage, incoming, tree, admin,
       kills>>
   BY <1>8 DEF ReplaceCurrent
 <2>2. Updated(p).state = Last.to /\ (Last.to = "CLEANED" => (Updated(p).owned <=> known[p].owned)) BY DEF Updated
 <2> QED BY <2>1, <2>2 DEF CleanedIsGone, GoneInv, Replacing
<1>9. ASSUME NEW p \in Procs, Kill(p) PROVE CleanedIsGone'
 <2>1. UNCHANGED <<current, stage, incoming>> /\ kills' # 0 /\ Halfway(p) BY <1>9 DEF Kill
 <2>2. /\ tree = "absent" => tree' = "absent"
       /\ admin = "absent" => admin' = "absent"
   BY <2>1 DEF Halfway
 <2> QED BY <2>1, <2>2, StillCleaned
<1>10. ASSUME NEW p \in Procs, Raise(p) PROVE CleanedIsGone'
 <2>1. /\ UNCHANGED <<stage, kills>> /\ (incoming' => incoming)
       /\ Halfway(p) \/ (At(p, "adding") /\ admin' = "absent" /\ tree' = tree)
   BY <1>10 DEF Raise
 <2>2. /\ tree = "absent" => tree' = "absent"
       /\ admin = "absent" => admin' = "absent"
   BY <2>1 DEF Halfway
 <2>3. CASE current' = current BY <2>1, <2>2, <2>3, StillCleaned
 <2>4. CASE At(p, "replace") /\ current' = Updated(p)
  <3>1. Updated(p).state = Last.to /\ (Last.to = "CLEANED"
        => (Updated(p).owned <=> known[p].owned))
    BY DEF Updated
  <3> QED BY <2>1, <2>2, <2>4, <3>1 DEF CleanedIsGone, GoneInv, Replacing
 <2> QED BY <1>10, <2>3, <2>4 DEF Raise
<1>11. CASE OrphanAdds
 <2>1. UNCHANGED <<current, stage, incoming, kills, admin>> BY <1>11 DEF OrphanAdds
 <2>2. kills # 0 /\ ~current.owned BY <1>11 DEF OrphanAdds, OwnerInv
 <2> QED BY <2>1, <2>2 DEF CleanedIsGone
<1>12. CASE OrphanRemoves
 <2>1. /\ UNCHANGED <<current, stage, kills>> /\ (incoming' => incoming)
       /\ tree = "absent" => tree' = "absent"
       /\ admin = "absent" => admin' = "absent"
   BY <1>12 DEF OrphanRemoves
 <2> QED BY <2>1, StillCleaned
<1>13. CASE Edit
 <2>1. /\ UNCHANGED <<current, stage, kills>> /\ (incoming' => incoming)
       /\ tree = "absent" => tree' = "absent"
       /\ admin = "absent" => admin' = "absent"
   BY <1>13 DEF Edit
 <2> QED BY <2>1, StillCleaned
<1>14. CASE Sibling
 <2>1. /\ UNCHANGED <<current, stage, kills>> /\ (incoming' => incoming)
       /\ tree = "absent" => tree' = "absent"
       /\ admin = "absent" => admin' = "absent"
   BY <1>14 DEF Sibling
 <2> QED BY <2>1, StillCleaned
<1>15. CASE UNCHANGED vars BY <1>15, StillCleaned
<1> QED BY <1>1, <1>2, <1>3, <1>4, <1>5, <1>6, <1>7, <1>8, <1>9, <1>10, <1>11, <1>12,
     <1>13, <1>14, <1>15 DEF Next, Work, PrepareStep, LeaseStep, CleanupStep

\* A step that neither publishes a record nor reads a registry for a clean-up leaves
\* what was read as it was.
LEMMA StillRead ==
  ASSUME EvidenceInv, record' = record,
         \A q \in Procs : pc'[q] \in {"enter", "check"} =>
           /\ pc[q] \in {"enter", "check"}
           /\ known'[q] = known[q] /\ evidence'[q] = evidence[q]
  PROVE  EvidenceInv'
BY DEF EvidenceInv

\* Without evidence a clean-up goes on from a registry read before PUBLISHED.
LEMMA EvidenceStep == TypeInv /\ LogInv /\ EarlyInv /\ OwnerInv /\ EvidenceInv /\ [Next]_vars
    => EvidenceInv'
<1> SUFFICES ASSUME TypeInv, LogInv, EarlyInv, OwnerInv, EvidenceInv, [Next]_vars PROVE EvidenceInv' OBVIOUS
<1> USE SlotsAssumption, BoundsAssumption DEF vars, procVars, logVars, treeVars,
    storeVars, faultVars, TypeInv, TypeOK, LockInv, LogInv
<1>1. ASSUME NEW p \in Procs, StartMirror(p) \/ FetchMirror(p) \/ AddEntry(p) \/
         AddTree(p) \/ Capture(p) \/ Apply(p) \/ WriteEvidence(p) \/ OpenStage(p) \/
         Allocate(p) \/ Commit(p) PROVE EvidenceInv'
 <2>1. record' = record /\ pc'[p] \notin {"enter", "check"}
   BY <1>1 DEF StartMirror, FetchMirror, AddEntry, AddTree, Capture, Apply, WriteEvidence, OpenStage, Allocate,
     Commit, At, Goto, Return
 <2>2. \A q \in Procs : q # p => pc'[q] = pc[q] /\ known'[q] = known[q]
       /\ evidence'[q] = evidence[q]
   BY <1>1 DEF StartMirror, FetchMirror, AddEntry, AddTree, Capture, Apply, WriteEvidence, OpenStage, Allocate,
     Commit, Goto, Return
 <2> QED BY <2>1, <2>2, StillRead
<1>2. ASSUME NEW p \in Procs, Unlock(p) \/ SkipUnlock(p) \/ RemoveTree(p) \/
         RemoveEntry(p) \/ PruneEntry(p) \/ PruneTree(p) \/ RemoveStrays(p) \/
         VerifyRemoval(p) PROVE EvidenceInv'
 <2>1. record' = record /\ pc'[p] \notin {"enter", "check"}
   BY <1>2 DEF Unlock, SkipUnlock, RemoveTree, RemoveEntry, PruneEntry, PruneTree, RemoveStrays, VerifyRemoval,
     RemovalOf, At, Goto, Return
 <2>2. \A q \in Procs : q # p => pc'[q] = pc[q] /\ known'[q] = known[q]
       /\ evidence'[q] = evidence[q]
   BY <1>2 DEF Unlock, SkipUnlock, RemoveTree, RemoveEntry, PruneEntry, PruneTree, RemoveStrays, VerifyRemoval, Goto,
     Return
 <2> QED BY <2>1, <2>2, StillRead
<1>3. ASSUME NEW p \in Procs, LeaseRefused(p) \/ EndLease(p) \/ CleanupBusy(p) \/
         CheckRefused(p) \/ CleanupFails(p) \/ Finish(p) PROVE EvidenceInv'
 <2>1. record' = record /\ pc'[p] \notin {"enter", "check"}
   BY <1>3 DEF LeaseRefused, EndLease, CleanupBusy, CheckRefused, CleanupFails, Finish, At, Goto, Return
 <2>2. \A q \in Procs : q # p => pc'[q] = pc[q] /\ known'[q] = known[q]
       /\ evidence'[q] = evidence[q]
   BY <1>3 DEF LeaseRefused, EndLease, CleanupBusy, CheckRefused, CleanupFails, Finish, Goto, Return
 <2> QED BY <2>1, <2>2, StillRead
<1>4. ASSUME NEW p \in Procs, Lease(p) \/ Check(p) \/ LoadForLease(p) \/ Prepare(p)
         PROVE EvidenceInv'
 <2>1. record' = record /\ pc'[p] \notin {"enter", "check"}
   BY <1>4 DEF Lease, Check, LoadForLease, Prepare, At, Goto, Return
 <2>2. \A q \in Procs : q # p => pc'[q] = pc[q] /\ known'[q] = known[q]
       /\ evidence'[q] = evidence[q]
   BY <1>4 DEF Lease, Check, LoadForLease, Prepare, Goto, Return
 <2> QED BY <2>1, <2>2, StillRead
<1>5. ASSUME NEW p \in Procs, PublishRecord(p) PROVE EvidenceInv'
 <2>1. /\ At(p, "publish") /\ lock = p /\ pc' = [pc EXCEPT ![p] = "published"]
       /\ UNCHANGED <<known, evidence>>
   BY <1>5 DEF PublishRecord, At, Goto
 <2>2. \A q \in Procs : At(q, "enter") => known[q].state \in Early BY <2>1 DEF EarlyInv, Advancing, Making, Tried, At
 <2>3. \A q \in Procs : pc'[q] \in {"enter", "check"} => At(q, "enter") BY <2>1 DEF At
 <2> QED BY <2>1, <2>2, <2>3 DEF EvidenceInv, OwnerInv, Early
<1>6. ASSUME NEW p \in Procs, NEW forced \in BOOLEAN, LoadForCleanup(p, forced) PROVE
         EvidenceInv'
 <2>1. /\ pc' = [pc EXCEPT ![p] = "enter"] /\ known' = [known EXCEPT ![p] = current]
       /\ evidence' = [evidence EXCEPT ![p] = record] /\ record' = record
   BY <1>6 DEF LoadForCleanup
 <2> QED BY <2>1 DEF EvidenceInv
<1>7. ASSUME NEW p \in Procs, EnterCleanup(p) PROVE EvidenceInv'
 <2>1. /\ At(p, "enter") /\ pc' = [pc EXCEPT ![p] = "check"] /\ UNCHANGED <<known, evidence,
             record>>
   BY <1>7 DEF EnterCleanup
 <2> QED BY <2>1, StillRead DEF At
<1>8. ASSUME NEW p \in Procs, RecordEvent(p) PROVE EvidenceInv'
 <2>1. record' = record /\ pc'[p] \notin {"enter", "check"} BY <1>8 DEF RecordEvent, At, Goto, Return
 <2>2. \A q \in Procs : q # p => pc'[q] = pc[q] /\ known'[q] = known[q]
       /\ evidence'[q] = evidence[q]
   BY <1>8 DEF RecordEvent, Goto, Return
 <2> QED BY <2>1, <2>2, StillRead
<1>9. ASSUME NEW p \in Procs, ReplaceCurrent(p) PROVE EvidenceInv'
 <2>1. record' = record /\ pc'[p] \notin {"enter", "check"} BY <1>9 DEF ReplaceCurrent, After, At, Goto, Return
 <2>2. \A q \in Procs : q # p => pc'[q] = pc[q] /\ known'[q] = known[q]
       /\ evidence'[q] = evidence[q]
   BY <1>9 DEF ReplaceCurrent, Goto, Return
 <2> QED BY <2>1, <2>2, StillRead
<1>10. ASSUME NEW p \in Procs, Kill(p) PROVE EvidenceInv'
 <2>1. record' = record /\ pc'[p] \notin {"enter", "check"} BY <1>10 DEF Kill, At, Goto, Return
 <2>2. \A q \in Procs : q # p => pc'[q] = pc[q] /\ known'[q] = known[q]
       /\ evidence'[q] = evidence[q]
   BY <1>10 DEF Kill, Goto, Return
 <2> QED BY <2>1, <2>2, StillRead
<1>11. ASSUME NEW p \in Procs, Raise(p) PROVE EvidenceInv'
 <2>1. record' = record /\ pc'[p] \notin {"enter", "check"} BY <1>11 DEF Raise, At, Goto, Return
 <2>2. \A q \in Procs : q # p => pc'[q] = pc[q] /\ known'[q] = known[q]
       /\ evidence'[q] = evidence[q]
   BY <1>11 DEF Raise, Goto, Return
 <2> QED BY <2>1, <2>2, StillRead
<1>12. CASE OrphanAdds
 <2>1. UNCHANGED <<pc, known, evidence, record>> BY <1>12 DEF OrphanAdds
 <2> QED BY <2>1, StillRead
<1>13. CASE OrphanRemoves
 <2>1. UNCHANGED <<pc, known, evidence, record>> BY <1>13 DEF OrphanRemoves
 <2> QED BY <2>1, StillRead
<1>14. CASE Edit
 <2>1. UNCHANGED <<pc, known, evidence, record>> BY <1>14 DEF Edit
 <2> QED BY <2>1, StillRead
<1>15. CASE Sibling
 <2>1. UNCHANGED <<pc, known, evidence, record>> BY <1>15 DEF Sibling
 <2> QED BY <2>1, StillRead
<1>16. CASE UNCHANGED vars BY <1>16, StillRead
<1> QED BY <1>1, <1>2, <1>3, <1>4, <1>5, <1>6, <1>7, <1>8, <1>9, <1>10, <1>11, <1>12,
     <1>13, <1>14, <1>15, <1>16 DEF Next, Work, PrepareStep, LeaseStep, CleanupStep

\* What ChangesAreKept says of a step
ChangeIsKept ==
  \A p \in Procs :
    At(p, "check") /\ pc'[p] = "announce" /\ ~force[p]
    /\ tree = "changed" /\ admin # "absent" /\ record
      => known[p].state \in {"WORKTREE_CREATED", "CANDIDATE_READY"}

\* Only Check brings a process from "check" to "announce".
LEMMA StillUnannounced ==
  ASSUME \A q \in Procs : pc[q] = "check" => pc'[q] # "announce"
  PROVE  ChangeIsKept
BY DEF ChangeIsKept, At

\* A clean-up that is not forced keeps a change it can see.
LEMMA ChangesStep == TypeInv /\ LogInv /\ EvidenceInv /\ [Next]_vars => ChangeIsKept
<1> SUFFICES ASSUME TypeInv, LogInv, EvidenceInv, [Next]_vars PROVE ChangeIsKept OBVIOUS
<1> USE SlotsAssumption, BoundsAssumption DEF vars, procVars, logVars, treeVars,
    storeVars, faultVars, TypeInv, TypeOK, LockInv, LogInv
<1>1. ASSUME NEW p \in Procs, StartMirror(p) \/ FetchMirror(p) \/ AddEntry(p) \/
         AddTree(p) \/ Capture(p) \/ Apply(p) \/ WriteEvidence(p) \/ PublishRecord(p) \/
         OpenStage(p) \/ Allocate(p) \/ Commit(p) PROVE ChangeIsKept
 <2>1. \A q \in Procs : pc[q] = "check" => pc'[q] # "announce"
   BY <1>1 DEF StartMirror, FetchMirror, AddEntry, AddTree, Capture, Apply, WriteEvidence, PublishRecord, OpenStage,
     Allocate, Commit, At, Goto, Return
 <2> QED BY <2>1, StillUnannounced
<1>2. ASSUME NEW p \in Procs, Unlock(p) \/ SkipUnlock(p) \/ RemoveTree(p) \/
         RemoveEntry(p) \/ PruneEntry(p) \/ PruneTree(p) \/ RemoveStrays(p) \/
         VerifyRemoval(p) PROVE ChangeIsKept
 <2>1. \A q \in Procs : pc[q] = "check" => pc'[q] # "announce"
   BY <1>2 DEF Unlock, SkipUnlock, RemoveTree, RemoveEntry, PruneEntry, PruneTree, RemoveStrays, VerifyRemoval,
     RemovalOf, At, Goto, Return
 <2> QED BY <2>1, StillUnannounced
<1>3. ASSUME NEW p \in Procs, LeaseRefused(p) \/ EndLease(p) \/ CleanupBusy(p) \/
         CheckRefused(p) \/ CleanupFails(p) \/ Finish(p) PROVE ChangeIsKept
 <2>1. \A q \in Procs : pc[q] = "check" => pc'[q] # "announce"
   BY <1>3 DEF LeaseRefused, EndLease, CleanupBusy, CheckRefused, CleanupFails, Finish, At, Goto, Return
 <2> QED BY <2>1, StillUnannounced
<1>4. ASSUME NEW p \in Procs, NEW forced \in BOOLEAN, Lease(p) \/ EnterCleanup(p)
           \/ LoadForLease(p) \/
         LoadForCleanup(p, forced) \/ Prepare(p) PROVE ChangeIsKept
 <2>1. \A q \in Procs : pc[q] = "check" => pc'[q] # "announce"
   BY <1>4 DEF Lease, EnterCleanup, LoadForLease, LoadForCleanup, Prepare, At, Goto, Return
 <2> QED BY <2>1, StillUnannounced
<1>5. ASSUME NEW p \in Procs, Check(p) PROVE ChangeIsKept
 <2>1. /\ MayClean(known[p], evidence[p], force[p]) /\ At(p, "check")
       /\ \A q \in Procs : q # p => pc'[q] = pc[q]
   BY <1>5 DEF Check
 <2>2. ~force[p] /\ tree = "changed" /\ admin # "absent" => known[p].owned /\ ~evidence[p]
   BY <2>1 DEF MayClean, CandidateHolds
 <2> QED BY <2>1, <2>2 DEF ChangeIsKept, EvidenceInv, At
<1>6. ASSUME NEW p \in Procs, RecordEvent(p) PROVE ChangeIsKept
 <2>1. \A q \in Procs : pc[q] = "check" => pc'[q] # "announce" BY <1>6 DEF RecordEvent, At, Goto, Return
 <2> QED BY <2>1, StillUnannounced
<1>7. ASSUME NEW p \in Procs, ReplaceCurrent(p) PROVE ChangeIsKept
 <2>1. \A q \in Procs : pc[q] = "check" => pc'[q] # "announce" BY <1>7 DEF ReplaceCurrent, After, At, Goto, Return
 <2> QED BY <2>1, StillUnannounced
<1>8. ASSUME NEW p \in Procs, Kill(p) PROVE ChangeIsKept
 <2>1. \A q \in Procs : pc[q] = "check" => pc'[q] # "announce" BY <1>8 DEF Kill, At, Goto, Return
 <2> QED BY <2>1, StillUnannounced
<1>9. ASSUME NEW p \in Procs, Raise(p) PROVE ChangeIsKept
 <2>1. \A q \in Procs : pc[q] = "check" => pc'[q] # "announce" BY <1>9 DEF Raise, At, Goto, Return
 <2> QED BY <2>1, StillUnannounced
<1>10. CASE OrphanAdds
 <2>1. \A q \in Procs : pc[q] = "check" => pc'[q] # "announce" BY <1>10 DEF OrphanAdds, At, Goto, Return
 <2> QED BY <2>1, StillUnannounced
<1>11. CASE OrphanRemoves
 <2>1. \A q \in Procs : pc[q] = "check" => pc'[q] # "announce" BY <1>11 DEF OrphanRemoves, At, Goto, Return
 <2> QED BY <2>1, StillUnannounced
<1>12. CASE Edit
 <2>1. \A q \in Procs : pc[q] = "check" => pc'[q] # "announce" BY <1>12 DEF Edit, At, Goto, Return
 <2> QED BY <2>1, StillUnannounced
<1>13. CASE Sibling
 <2>1. \A q \in Procs : pc[q] = "check" => pc'[q] # "announce" BY <1>13 DEF Sibling, At, Goto, Return
 <2> QED BY <2>1, StillUnannounced
<1>14. CASE UNCHANGED vars BY <1>14, StillUnannounced
<1> QED BY <1>1, <1>2, <1>3, <1>4, <1>5, <1>6, <1>7, <1>8, <1>9, <1>10, <1>11, <1>12,
     <1>13, <1>14 DEF Next, Work, PrepareStep, LeaseStep, CleanupStep

----------------------------------------
\* The initial states satisfy the invariant.
LEMMA Initially == Init => IInv
<1> SUFFICES ASSUME Init PROVE IInv OBVIOUS
<1> USE SlotsAssumption, BoundsAssumption DEF Init
<1>1. TypeInv
 <2>1. ProcTypes BY DEF ProcTypes, Labels, Unregistered, Nothing, Registries, States, Entries
 <2>2. log \in Seq(Events) OBVIOUS
 <2>3. LockInv BY DEF LockInv
 <2>4. current \in Registries /\ stage \in {"absent", "open", "evidence"} BY DEF Unregistered, Registries, States
 <2>5. entries \in BOOLEAN /\ mirror \in BOOLEAN /\ incoming \in BOOLEAN /\ record \in BOOLEAN BY Zenon
 <2>6. /\ tree \in {"absent", "base", "candidate", "changed", "torn"} /\ admin \in Entries
       /\ orphans \subseteq {"add", "remove"}
   BY DEF Entries
 <2>7. kills \in 0 .. MaxKills /\ errors \in 0 .. MaxErrors /\ edits \in 0 .. MaxEdits OBVIOUS
 <2> QED BY <2>1, <2>2, <2>3, <2>4, <2>5, <2>6, <2>7 DEF TypeInv, TypeOK, ProcTypes, Events
<1>2. LogInv /\ FreshInv BY DEF LogInv, FreshInv, At, Unregistered
<1>3. MakingInv /\ MadeInv BY DEF MakingInv, MadeInv, Advancing, Replacing, At, Making, Tried, Added, Applied
<1>4. RemovingInv /\ PublishedIsWhole /\ LeaseIsUndisturbed
  BY DEF RemovingInv, PublishedIsWhole, LeaseIsUndisturbed, Replacing, At, Removing, Unregistered
<1>5. HistoryInv /\ LogBreaksAreKnown BY DEF HistoryInv, LogBreaksAreKnown, At, Making, Tried, Removing
<1>6. EarlyInv /\ FailedInv /\ BoundInv
  BY DEF EarlyInv, FailedInv, BoundInv, WasPublished, Advancing, Replacing, At, Making, Tried
<1>7. OwnerInv /\ GoneInv BY DEF OwnerInv, GoneInv, Replacing, At, Unowned, Unregistered
<1>8. CleanedIsGone /\ EvidenceInv BY DEF CleanedIsGone, EvidenceInv, Unregistered
<1> QED BY <1>1, <1>2, <1>3, <1>4, <1>5, <1>6, <1>7, <1>8 DEF IInv

\* IInv holds in every reachable state: whatever is killed or raises, whoever edits
\* or cleans up with a registry read before the lock.
THEOREM Invariance == Spec => []IInv
<1>1. IInv /\ [Next]_vars => IInv'
 <2> SUFFICES ASSUME IInv, [Next]_vars PROVE IInv' OBVIOUS
 <2> USE DEF IInv
 <2>1. TypeInv' BY TypesStep, LockStep DEF TypeInv
 <2>2. LogInv' /\ FreshInv' BY LogStep, FreshStep
 <2>3. MakingInv' /\ MadeInv' BY MakingStep, MadeStep
 <2>4. RemovingInv' /\ PublishedIsWhole' BY RemovingStep, PublishedStep
 <2>5. LeaseIsUndisturbed' BY LeasesStep
 <2>6. HistoryInv' /\ LogBreaksAreKnown' BY HistoryStep, BreaksStep
 <2>7. EarlyInv' /\ FailedInv' /\ BoundInv' BY EarlyStep, FailedStep, BoundStep
 <2>8. OwnerInv' /\ GoneInv' BY OwnerStep, GoneStep
 <2>9. CleanedIsGone' /\ EvidenceInv' BY CleanedStep, EvidenceStep
 <2> QED BY <2>1, <2>2, <2>3, <2>4, <2>5, <2>6, <2>7, <2>8, <2>9
<1> QED BY Initially, <1>1, PTL DEF Spec

\* Every variable of SourcePreparation keeps its type.
THEOREM TypeCorrect == Spec => []TypeOK
<1>1. IInv => TypeOK BY DEF IInv, TypeInv
<1> QED BY <1>1, Invariance, PTL

\* As long as current.json says PUBLISHED everything published is there
\* (prepare_source, cleanup_source).
THEOREM WholeWhenPublished == Spec => []PublishedIsWhole
<1>1. IInv => PublishedIsWhole BY DEF IInv
<1> QED BY <1>1, Invariance, PTL

\* While lease_source yields, the preparation stays the published candidate.
THEOREM LeaseSafety == Spec => []LeaseIsUndisturbed
<1>1. IInv => LeaseIsUndisturbed BY DEF IInv
<1> QED BY <1>1, Invariance, PTL

\* CLEANED means gone (cleanup_source, _verify_cleanup_complete).
THEOREM CleanedSafety == Spec => []CleanedIsGone
<1>1. IInv => CleanedIsGone BY DEF IInv
<1> QED BY <1>1, Invariance, PTL

\* A registry that loads, and was published once, still has its record and its digest
\* (cleanup_source, _load_registry).
THEOREM DigestSafety == Spec => []EvidenceIsBound
<1>1. ASSUME IInv PROVE EvidenceIsBound
 <2>1. SUFFICES ASSUME Loadable, WasPublished PROVE record /\ current.bound /\ current.owned
   BY DEF EvidenceIsBound, WasPublished
 <2> QED BY <1>1, <2>1 DEF IInv, BoundInv, Loadable
<1> QED BY <1>1, Invariance, PTL

\* Why a log may be broken (_transition, cleanup_source).
THEOREM BreaksSafety == Spec => []LogBreaksAreKnown
<1>1. IInv => LogBreaksAreKnown BY DEF IInv
<1> QED BY <1>1, Invariance, PTL

\* A clean-up that is not forced does not start on a worktree that is changed
\* (cleanup_source, _verify_candidate_for_cleanup).
THEOREM ChangesSafety == Spec => ChangesAreKept
<1>1. IInv /\ [Next]_vars => [ChangeIsKept]_vars BY ChangesStep DEF IInv
<1> QED BY <1>1, Invariance, PTL DEF Spec, ChangesAreKept, ChangeIsKept

\* A preparation and its leases are sound, whoever prepares, leases and cleans up
\* beside them (prepare_source, lease_source, cleanup_source).
THEOREM PreparationSound == Spec => []PreparationIsSound
<1>1. TypeOK /\ LeaseIsUndisturbed /\ PublishedIsWhole /\ EvidenceIsBound => PreparationIsSound
  BY DEF PreparationIsSound
<1> QED BY <1>1, TypeCorrect, LeaseSafety, WholeWhenPublished, DigestSafety, PTL

\* What a clean-up or a fault leaves behind is known: nothing after CLEANED, and a
\* broken log only for one of the known reasons.
THEOREM LeftoversKnown == Spec => []LeftoversAreKnown
<1>1. CleanedIsGone /\ LogBreaksAreKnown => LeftoversAreKnown BY DEF LeftoversAreKnown
<1> QED BY <1>1, CleanedSafety, BreaksSafety, PTL

=============================================================================

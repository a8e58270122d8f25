------------------------- MODULE SourcePreparation -------------------------
(***************************************************************************)
(* One preparation of sources/: its registry (the event log and            *)
(* current.json), the worktree with git's administrative entry in the      *)
(* mirror, stage and record, and the processes that prepare, lease and     *)
(* clean up, as sources.py performs them under the source lock, which no   *)
(* process waits for.                                                      *)
(*                                                                         *)
(* An action is one durable effect, or the checks between two.  A git      *)
(* command runs in a session of its own and may outlive a killed parent.   *)
(* Left out: private scratch directories, and the quarantine refs of a     *)
(* fetch, which are deleted on the way out and never read.                 *)
(***************************************************************************)
EXTENDS Naturals, Sequences

CONSTANTS Procs,        \* process slots; a killed one is used again
          Nobody,       \* the holder of a free lock
          MaxKills,     \* bound: killed processes
          MaxErrors,    \* bound: calls that raise for a reason of their own
          MaxEdits,     \* bound: what the user does to the worktree
          MaxFaults,    \* bound: all of these together
          MaxEvents     \* bound: events in the log when a clean-up is begun

ASSUME SlotsAssumption == Nobody \notin Procs
ASSUME BoundsAssumption ==
  /\ MaxKills \in Nat /\ MaxErrors \in Nat /\ MaxEdits \in Nat
  /\ MaxFaults \in Nat /\ MaxEvents \in Nat

\* RegistryState; "none" where nothing is registered
States == {"none", "ALLOCATED", "MIRROR_READY", "WORKTREE_CREATED", "CANDIDATE_READY",
           "PUBLISHED", "FAILED", "CLEANUP_STARTED", "CLEANED"}

VARIABLES
  lock,       \* the source lock: a process, or Nobody
  pc,         \* where each process is; "idle" outside every operation
  known,      \* the registry each process has in memory
  evidence,   \* whether a clean-up read evidence with it
  force,      \* --force-changed
  seen,       \* what a clean-up found before it removes anything
  log,        \* events/: the transitions, "torn" for a file cut short
  current,    \* current.json: state, ownership bound, evidence_sha256 bound
  mirror,     \* the mirror of the source is there
  incoming,   \* its temporary directory is there
  tree,       \* the worktree; "torn" without its .git file
  admin,      \* worktrees/<id> of the mirror; "torn" without its metadata
  entries,    \* worktrees/ of the mirror, which git removes when it is empty
  stage,      \* the stage: absent, open, or with evidence
  record,     \* the stage has been renamed to the record
  orphans,    \* git commands that go on though their parent was killed
  kills, errors, edits

procVars  == <<lock, pc, known, evidence, force, seen>>
logVars   == <<log, current>>
treeVars  == <<tree, admin, entries>>
storeVars == <<mirror, incoming, stage, record>>
faultVars == <<orphans, kills, errors, edits>>
vars      == <<procVars, logVars, treeVars, storeVars, faultVars>>

Unregistered == [state |-> "none", owned |-> FALSE, bound |-> FALSE]

Nothing == [tree |-> FALSE, admin |-> "absent"]

\* The mirror may be there, with entries, from other preparations of the source.
Init ==
  /\ lock = Nobody
  /\ pc = [p \in Procs |-> "idle"]
  /\ known = [p \in Procs |-> Unregistered]
  /\ evidence = [p \in Procs |-> FALSE]
  /\ force = [p \in Procs |-> FALSE]
  /\ seen = [p \in Procs |-> Nothing]
  /\ log = << >> /\ current = Unregistered
  /\ mirror \in BOOLEAN /\ incoming = FALSE
  /\ tree = "absent" /\ admin = "absent" /\ entries \in {FALSE, mirror}
  /\ stage = "absent" /\ record = FALSE
  /\ orphans = {}
  /\ kills = 0 /\ errors = 0 /\ edits = 0

-----------------------------------------------------------------------------
(* Processes *)

At(p, l) == pc[p] = l

Goto(p, l) ==
  /\ pc' = [pc EXCEPT ![p] = l]
  /\ UNCHANGED <<lock, known, evidence, force, seen>>

\* The operation is over, returned, raised or killed.  What the process had in
\* memory is gone.
Return(p) ==
  /\ pc' = [pc EXCEPT ![p] = "idle"]
  /\ lock' = IF lock = p THEN Nobody ELSE lock
  /\ known' = [known EXCEPT ![p] = Unregistered]
  /\ evidence' = [evidence EXCEPT ![p] = FALSE]
  /\ force' = [force EXCEPT ![p] = FALSE]
  /\ seen' = [seen EXCEPT ![p] = Nothing]

-----------------------------------------------------------------------------
(* The registry *)

Last == log[Len(log)]

\* _verify_event_log: events chain up, none is torn, and the last one is what
\* current.json says.
Chained ==
  /\ log # << >>
  /\ \A i \in 1 .. Len(log) :
       log[i].to # "torn" /\ log[i].from = IF i = 1 THEN "none" ELSE log[i - 1].to

Loadable == Chained /\ current.state = Last.to

\* Mutant of Target: a clean-up ends as if nothing had ever been registered.
TargetForgets ==
  [l \in {"ready", "created", "candidate", "published", "fail", "announce", "conclude"} |->
     CASE l = "ready"     -> "MIRROR_READY"
       [] l = "created"   -> "WORKTREE_CREATED"
       [] l = "candidate" -> "CANDIDATE_READY"
       [] l = "published" -> "PUBLISHED"
       [] l = "fail"      -> "FAILED"
       [] l = "announce"  -> "CLEANUP_STARTED"
       [] l = "conclude"  -> "none"]

\* What the transition that a process is about to record leads to
Target ==
  [l \in {"ready", "created", "candidate", "published", "fail", "announce", "conclude"} |->
     CASE l = "ready"     -> "MIRROR_READY"
       [] l = "created"   -> "WORKTREE_CREATED"
       [] l = "candidate" -> "CANDIDATE_READY"
       [] l = "published" -> "PUBLISHED"
       [] l = "fail"      -> "FAILED"
       [] l = "announce"  -> "CLEANUP_STARTED"
       [] l = "conclude"  -> "CLEANED"]

\* Mutant of After: PUBLISHED is recorded before the stage is renamed.
PublishedFirst(s) ==
  CASE s = "MIRROR_READY"     -> "add"
    [] s = "WORKTREE_CREATED" -> "apply"
    [] s = "CANDIDATE_READY"  -> "published"
    [] s = "CLEANUP_STARTED"  -> "unlock"
    [] OTHER                  -> "return"

\* Where a process goes on after a transition
After(s) ==
  CASE s = "MIRROR_READY"     -> "add"
    [] s = "WORKTREE_CREATED" -> "apply"
    [] s = "CANDIDATE_READY"  -> "publish"
    [] s = "CLEANUP_STARTED"  -> "unlock"
    [] OTHER                  -> "return"

\* _transition, first half: the event.  It goes from the state the process has
\* in memory, not from what the log ends with.
RecordEvent(p) ==
  /\ pc[p] \in DOMAIN Target
  /\ log' = Append(log, [from |-> known[p].state, to |-> Target[pc[p]]])
  /\ Goto(p, "replace")
  /\ UNCHANGED <<current, treeVars, storeVars, faultVars>>

\* Mutant of Updated: a clean-up does not carry the digest forward.
UpdatedUnbound(p) ==
  [state |-> Last.to,
   owned |-> known[p].owned \/ Last.to = "WORKTREE_CREATED",
   bound |-> Last.to = "PUBLISHED"]

\* The registry a transition writes: a copy of the one in memory.
Updated(p) ==
  [state |-> Last.to,
   owned |-> known[p].owned \/ Last.to = "WORKTREE_CREATED",
   bound |-> known[p].bound \/ Last.to = "PUBLISHED"]

\* Mutant of Kept: the caller goes on with the registry it had.
KeptOld(p) == known[p]

\* The registry in memory after a transition
Kept(p) == Updated(p)

\* _transition, second half: current.json is replaced.
ReplaceCurrent(p) ==
  /\ At(p, "replace")
  /\ current' = Updated(p)
  /\ known' = [known EXCEPT ![p] = Kept(p)]
  /\ pc' = [pc EXCEPT ![p] = After(Last.to)]
  /\ UNCHANGED <<lock, evidence, force, seen, log, treeVars, storeVars, faultVars>>

\* The operation has come to its end.
Finish(p) ==
  /\ At(p, "return")
  /\ Return(p)
  /\ UNCHANGED <<logVars, treeVars, storeVars, faultVars>>

-----------------------------------------------------------------------------
(* prepare_source *)

\* The lock is free and the preparation ID drawn is unused.
Prepare(p) ==
  /\ At(p, "idle") /\ lock = Nobody /\ log = << >>
  /\ lock' = p
  /\ pc' = [pc EXCEPT ![p] = "allocate"]
  /\ UNCHANGED <<known, evidence, force, seen, logVars, treeVars, storeVars, faultVars>>

\* Registry directory, first event and request.json
Allocate(p) ==
  /\ At(p, "allocate")
  /\ log' = <<[from |-> "none", to |-> "ALLOCATED"]>>
  /\ Goto(p, "commit")
  /\ UNCHANGED <<current, treeVars, storeVars, faultVars>>

Commit(p) ==
  /\ At(p, "commit")
  /\ current' = [Unregistered EXCEPT !.state = "ALLOCATED"]
  /\ known' = [known EXCEPT ![p] = current']
  /\ pc' = [pc EXCEPT ![p] = "stage"]
  /\ UNCHANGED <<lock, evidence, force, seen, log, treeVars, storeVars, faultVars>>

OpenStage(p) ==
  /\ At(p, "stage")
  /\ stage' = "open"
  /\ Goto(p, "mirror")
  /\ UNCHANGED <<logVars, treeVars, mirror, incoming, record, faultVars>>

\* A mirror that is there is used, else one is made beside its place.
StartMirror(p) ==
  /\ At(p, "mirror")
  /\ incoming' = ~mirror
  /\ Goto(p, "fetch")
  /\ UNCHANGED <<logVars, treeVars, mirror, stage, record, faultVars>>

\* The pinned commit has been fetched and verified; a new mirror is renamed.
FetchMirror(p) ==
  /\ At(p, "fetch")
  /\ mirror' = TRUE /\ incoming' = FALSE
  /\ Goto(p, "ready")
  /\ UNCHANGED <<logVars, treeVars, stage, record, faultVars>>

\* git worktree add --lock: the administrative entry, then the worktree
AddEntry(p) ==
  /\ At(p, "add")
  /\ admin' = "locked" /\ entries' = TRUE
  /\ Goto(p, "adding")
  /\ UNCHANGED <<logVars, tree, storeVars, faultVars>>

AddTree(p) ==
  /\ At(p, "adding")
  /\ tree' = "base"
  /\ Goto(p, "capture")
  /\ UNCHANGED <<logVars, admin, entries, storeVars, faultVars>>

\* _capture_ownership and owner.json, which is read once ownership is bound
Capture(p) ==
  /\ At(p, "capture")
  /\ Goto(p, "created")
  /\ UNCHANGED <<logVars, treeVars, storeVars, faultVars>>

\* Submodules and patches; the candidate is validated and written as a tree.
Apply(p) ==
  /\ At(p, "apply")
  /\ tree' = "candidate"
  /\ Goto(p, "evidence")
  /\ UNCHANGED <<logVars, admin, entries, storeVars, faultVars>>

WriteEvidence(p) ==
  /\ At(p, "evidence")
  /\ stage' = "evidence"
  /\ Goto(p, "candidate")
  /\ UNCHANGED <<logVars, treeVars, mirror, incoming, record, faultVars>>

PublishRecord(p) ==
  /\ At(p, "publish")
  /\ stage' = "absent" /\ record' = TRUE
  /\ Goto(p, "published")
  /\ UNCHANGED <<logVars, treeVars, mirror, incoming, faultVars>>

-----------------------------------------------------------------------------
(* lease_source *)

\* The registry is loaded for the name of its lock.
LoadForLease(p) ==
  /\ At(p, "idle") /\ Loadable
  /\ known' = [known EXCEPT ![p] = current]
  /\ pc' = [pc EXCEPT ![p] = "lease"]
  /\ UNCHANGED <<lock, evidence, force, seen, logVars, treeVars, storeVars, faultVars>>

\* Mutant of LeasedRegistry: the one loaded before the lock will do.
LoadedRegistry(p) == known[p]

\* Under the lock it is loaded again.
LeasedRegistry(p) == IF Loadable THEN current ELSE Unregistered

\* What the lease is of: a published candidate, owned, locked and unchanged
Leasable(p) ==
  /\ LeasedRegistry(p).state = "PUBLISHED" /\ LeasedRegistry(p).owned
  /\ record
  /\ tree = "candidate" /\ admin = "locked" /\ entries

Lease(p) ==
  /\ At(p, "lease") /\ lock = Nobody
  /\ Leasable(p)
  /\ lock' = p
  /\ pc' = [pc EXCEPT ![p] = "leased"]
  /\ UNCHANGED <<known, evidence, force, seen, logVars, treeVars, storeVars, faultVars>>

\* The lock is held, or what it protects is no published candidate.
LeaseRefused(p) ==
  /\ At(p, "lease")
  /\ lock # Nobody \/ ~Leasable(p)
  /\ Return(p)
  /\ UNCHANGED <<logVars, treeVars, storeVars, faultVars>>

EndLease(p) ==
  /\ At(p, "leased")
  /\ Return(p)
  /\ UNCHANGED <<logVars, treeVars, storeVars, faultVars>>

-----------------------------------------------------------------------------
(* cleanup_source *)

\* Registry and evidence are read before the lock is taken, and not again.
LoadForCleanup(p, forced) ==
  /\ At(p, "idle") /\ Loadable /\ current.state # "CLEANED" /\ Len(log) < MaxEvents
  /\ known' = [known EXCEPT ![p] = current]
  /\ evidence' = [evidence EXCEPT ![p] = record]
  /\ force' = [force EXCEPT ![p] = forced]
  /\ pc' = [pc EXCEPT ![p] = "enter"]
  /\ UNCHANGED <<lock, seen, logVars, treeVars, storeVars, faultVars>>

EnterCleanup(p) ==
  /\ At(p, "enter") /\ lock = Nobody
  /\ lock' = p
  /\ pc' = [pc EXCEPT ![p] = "check"]
  /\ UNCHANGED <<known, evidence, force, seen, logVars, treeVars, storeVars, faultVars>>

CleanupBusy(p) ==
  /\ At(p, "enter") /\ lock # Nobody
  /\ Return(p)
  /\ UNCHANGED <<logVars, treeVars, storeVars, faultVars>>

\* Mutant of EntryHolds: the lock must be there in every state.
EntryLocked(r) == admin \in {"absent", "locked"}

\* _admin_entry_state: the lock of the entry may be missing where a clean-up
\* has removed it.
EntryHolds(r) == admin \in {"absent", "locked"} \/ (admin = "unlocked" /\ r.state = "CLEANUP_STARTED")

\* Mutant of CandidateHolds: differences are observed, never refused.
CandidateObserved(forced) == tree # "torn"

\* _verify_candidate_for_cleanup; git fails in a tree without .git.
CandidateHolds(forced) == tree = "candidate" \/ (forced /\ tree # "torn")

\* What a clean-up demands before it starts, of what registry r owns
MayClean(r, read, forced) ==
  IF r.owned
    THEN /\ entries /\ EntryHolds(r)
         /\ tree # "absent" /\ admin # "absent" /\ read => CandidateHolds(forced)
    ELSE tree = "absent"

Check(p) ==
  /\ At(p, "check")
  /\ MayClean(known[p], evidence[p], force[p])
  /\ seen' = [seen EXCEPT ![p] =
       [tree |-> tree # "absent", admin |-> IF known[p].owned THEN admin ELSE "absent"]]
  /\ pc' = [pc EXCEPT ![p] = "announce"]
  /\ UNCHANGED <<lock, known, evidence, force, logVars, treeVars, storeVars, faultVars>>

CheckRefused(p) ==
  /\ At(p, "check")
  /\ ~MayClean(known[p], evidence[p], force[p])
  /\ Return(p)
  /\ UNCHANGED <<logVars, treeVars, storeVars, faultVars>>

\* git worktree unlock, of an entry seen locked beside its worktree
Unlock(p) ==
  /\ At(p, "unlock")
  /\ seen[p].tree /\ seen[p].admin = "locked" /\ admin = "locked"
  /\ admin' = "unlocked"
  /\ Goto(p, "remove")
  /\ UNCHANGED <<logVars, tree, entries, storeVars, faultVars>>

\* Where the removal starts when there is nothing to unlock
RemovalOf(s) ==
  IF s.tree THEN IF s.admin = "absent" THEN "rmtree" ELSE "remove"
            ELSE IF s.admin = "absent" THEN "strays" ELSE "prune"

SkipUnlock(p) ==
  /\ At(p, "unlock")
  /\ ~(seen[p].tree /\ seen[p].admin = "locked")
  /\ Goto(p, RemovalOf(seen[p]))
  /\ UNCHANGED <<logVars, treeVars, storeVars, faultVars>>

\* git worktree remove --force wants the entry whole and unlocked, and what is
\* there of the worktree to be one.
Removable == tree # "torn" /\ admin = "unlocked"

\* It removes the worktree, then the entry, and worktrees/ unless other
\* preparations of the source have entries there.
RemoveTree(p) ==
  /\ At(p, "remove")
  /\ Removable
  /\ tree' = "absent"
  /\ Goto(p, "removing")
  /\ UNCHANGED <<logVars, admin, entries, storeVars, faultVars>>

RemoveEntry(p) ==
  /\ At(p, "removing")
  /\ admin' = "absent" /\ entries' \in {entries, FALSE}
  /\ Goto(p, "strays")
  /\ UNCHANGED <<logVars, tree, storeVars, faultVars>>

\* _remove_owned_tree of the side that is left
PruneEntry(p) ==
  /\ At(p, "prune") /\ admin # "absent"
  /\ admin' = "absent"
  /\ Goto(p, "strays")
  /\ UNCHANGED <<logVars, tree, entries, storeVars, faultVars>>

PruneTree(p) ==
  /\ At(p, "rmtree") /\ tree # "absent"
  /\ tree' = "absent"
  /\ Goto(p, "strays")
  /\ UNCHANGED <<logVars, admin, entries, storeVars, faultVars>>

\* Mutant of Strays: the temporary mirror is forgotten.
StageOnly == stage' = "absent" /\ UNCHANGED incoming

\* The stage and the temporary mirror
Strays == stage' = "absent" /\ incoming' = FALSE

RemoveStrays(p) ==
  /\ At(p, "strays")
  /\ Strays
  /\ Goto(p, "verify")
  /\ UNCHANGED <<logVars, treeVars, mirror, record, faultVars>>

BothSidesGone(p) == tree = "absent" /\ (known[p].owned => admin = "absent")

VerifyRemoval(p) ==
  /\ At(p, "verify") /\ BothSidesGone(p)
  /\ Goto(p, "conclude")
  /\ UNCHANGED <<logVars, treeVars, storeVars, faultVars>>

\* The next removal finds what it was to remove already gone, or not as git
\* wants it, or something is left in the end.
CleanupFails(p) ==
  /\ \/ At(p, "unlock") /\ seen[p].tree /\ seen[p].admin = "locked" /\ admin # "locked"
     \/ At(p, "remove") /\ ~Removable
     \/ At(p, "prune") /\ admin = "absent"
     \/ At(p, "rmtree") /\ tree = "absent"
     \/ At(p, "verify") /\ ~BothSidesGone(p)
  /\ Return(p)
  /\ UNCHANGED <<logVars, treeVars, storeVars, faultVars>>

-----------------------------------------------------------------------------
(* Kills, errors and the user *)

\* The steps inside the try of prepare_source
Tried == {"mirror", "fetch", "ready", "add", "adding", "capture", "created", "apply",
          "evidence", "candidate", "publish", "published"}

InTry(p) ==
  \/ pc[p] \in Tried
  \/ At(p, "replace") /\ Last.to \in {"MIRROR_READY", "WORKTREE_CREATED", "CANDIDATE_READY", "PUBLISHED"}

Removing == {"unlock", "remove", "removing", "prune", "rmtree", "strays", "verify"}

Bounded == kills + errors + edits < MaxFaults

\* What an effect that is stopped halfway leaves: an event file that is not
\* whole, a worktree or an entry of which files are gone.
Halfway(p) ==
  /\ log' \in {log} \cup
       IF pc[p] \in DOMAIN Target \cup {"allocate"}
         THEN {Append(log, [from |-> known[p].state, to |-> "torn"])} ELSE {}
  /\ tree' \in {tree} \cup
       IF pc[p] \in {"remove", "rmtree"} /\ tree # "absent" THEN {"changed", "torn"} ELSE {}
  /\ admin' \in {admin} \cup
       IF pc[p] \in {"removing", "prune"} /\ admin # "absent" THEN {"torn"} ELSE {}

\* The git command a process is waiting for
Child(p) ==
  CASE At(p, "adding")                  -> {"add"}
    [] pc[p] \in {"remove", "removing"} -> {"remove"}
    [] OTHER                            -> {}

Kill(p) ==
  /\ ~At(p, "idle")
  /\ kills < MaxKills /\ Bounded
  /\ kills' = kills + 1
  /\ Halfway(p)
  /\ orphans' \in {orphans, orphans \cup Child(p)}
  /\ Return(p)
  /\ UNCHANGED <<current, entries, storeVars, errors, edits>>

\* git goes on without the process that started it.
OrphanAdds ==
  /\ "add" \in orphans
  /\ tree' = "base"
  /\ orphans' = orphans \ {"add"}
  /\ UNCHANGED <<procVars, logVars, admin, entries, storeVars, kills, errors, edits>>

OrphanRemoves ==
  /\ "remove" \in orphans
  /\ IF tree # "absent"
       THEN tree' = "absent" /\ UNCHANGED <<admin, entries, orphans>>
       ELSE /\ admin' = "absent" /\ entries' \in {entries, FALSE}
            /\ orphans' = orphans \ {"remove"}
            /\ UNCHANGED tree
  /\ UNCHANGED <<procVars, logVars, storeVars, kills, errors, edits>>

\* A call raises.  Within the try of prepare_source the failure is published, from
\* the registry in memory; git worktree add takes back what it has made, and so
\* does _prepare_mirror.
Raise(p) ==
  /\ InTry(p) \/ pc[p] \in {"allocate", "commit", "stage", "fail", "replace", "check", "announce", "conclude"}
              \/ pc[p] \in Removing
  /\ errors < MaxErrors /\ Bounded
  /\ errors' = errors + 1
  /\ IF InTry(p) THEN Goto(p, "fail") ELSE Return(p)
  /\ IF At(p, "adding") THEN admin' = "absent" /\ UNCHANGED <<log, tree>> ELSE Halfway(p)
  /\ current' \in {current} \cup IF At(p, "replace") THEN {Updated(p)} ELSE {}
  /\ incoming' = (incoming /\ ~At(p, "fetch"))
  /\ UNCHANGED <<entries, mirror, stage, record, orphans, kills, edits>>

\* Nobody knows of the worktree while it is being prepared.
Exposed ==
  \A p \in Procs : lock = p => pc[p] \in Removing \cup {"check", "announce", "conclude", "leased"}

\* The candidate is edited or put back; a side of the worktree is removed.
Edit ==
  /\ Exposed
  /\ edits < MaxEdits /\ Bounded
  /\ edits' = edits + 1
  /\ \/ tree = "candidate" /\ tree' = "changed" /\ UNCHANGED admin
     \/ tree = "changed" /\ tree' = "candidate" /\ UNCHANGED admin
     \/ tree # "absent" /\ tree' = "absent" /\ UNCHANGED admin
     \/ admin # "absent" /\ admin' = "absent" /\ UNCHANGED tree
  /\ UNCHANGED <<procVars, logVars, entries, storeVars, orphans, kills, errors>>

\* Another preparation of the source comes, or goes with the last entry.
Sibling ==
  /\ lock = Nobody /\ mirror
  /\ edits < MaxEdits /\ Bounded
  /\ edits' = edits + 1
  /\ admin # "absent" => ~entries
  /\ entries' = ~entries
  /\ UNCHANGED <<procVars, logVars, tree, admin, storeVars, orphans, kills, errors>>

-----------------------------------------------------------------------------

PrepareStep(p) ==
  \/ Allocate(p) \/ Commit(p) \/ OpenStage(p) \/ StartMirror(p) \/ FetchMirror(p)
  \/ AddEntry(p) \/ AddTree(p) \/ Capture(p) \/ Apply(p) \/ WriteEvidence(p) \/ PublishRecord(p)

LeaseStep(p) == Lease(p) \/ LeaseRefused(p) \/ EndLease(p)

CleanupStep(p) ==
  \/ EnterCleanup(p) \/ CleanupBusy(p) \/ Check(p) \/ CheckRefused(p)
  \/ Unlock(p) \/ SkipUnlock(p) \/ RemoveTree(p) \/ RemoveEntry(p) \/ PruneEntry(p)
  \/ PruneTree(p) \/ RemoveStrays(p) \/ VerifyRemoval(p) \/ CleanupFails(p)

\* What a process goes on with once it has begun, except for faults
Work(p) ==
  PrepareStep(p) \/ LeaseStep(p) \/ CleanupStep(p)
  \/ RecordEvent(p) \/ ReplaceCurrent(p) \/ Finish(p)

Next ==
  \/ \E p \in Procs :
       \/ Prepare(p) \/ LoadForLease(p) \/ (\E forced \in BOOLEAN : LoadForCleanup(p, forced))
       \/ Work(p) \/ Kill(p) \/ Raise(p)
  \/ OrphanAdds \/ OrphanRemoves \/ Edit \/ Sibling

Spec == Init /\ [][Next]_vars

\* An operation that has begun goes on.  The user repeats a forced clean-up while
\* nothing else runs until it is done, and one of the attempts gets the lock.
Fairness ==
  \A p \in Procs :
    /\ WF_vars(Work(p))
    /\ SF_vars(lock = Nobody /\ LoadForCleanup(p, TRUE))
    /\ SF_vars(EnterCleanup(p) /\ force[p])

FairSpec == Spec /\ Fairness

-----------------------------------------------------------------------------
(* Correctness *)

Labels == {"idle", "allocate", "commit", "stage", "replace", "return", "lease", "leased",
           "enter", "check"} \cup DOMAIN Target \cup Tried \cup Removing

Registries == [state : States, owned : BOOLEAN, bound : BOOLEAN]

Entries == {"absent", "locked", "unlocked", "torn"}

\* Every variable stays within its type.
TypeOK ==
  /\ lock \in Procs \cup {Nobody} /\ pc \in [Procs -> Labels]
  /\ known \in [Procs -> Registries] /\ current \in Registries
  /\ evidence \in [Procs -> BOOLEAN] /\ force \in [Procs -> BOOLEAN]
  /\ seen \in [Procs -> [tree : BOOLEAN, admin : Entries]]
  /\ log \in Seq([from : States, to : (States \ {"none"}) \cup {"torn"}])
  /\ tree \in {"absent", "base", "candidate", "changed", "torn"}
  /\ admin \in Entries /\ entries \in BOOLEAN
  /\ mirror \in BOOLEAN /\ incoming \in BOOLEAN /\ record \in BOOLEAN
  /\ stage \in {"absent", "open", "evidence"}
  /\ orphans \subseteq {"add", "remove"}
  /\ kills \in 0 .. MaxKills /\ errors \in 0 .. MaxErrors /\ edits \in 0 .. MaxEdits

\* While a lease is held the preparation stays a published candidate, whoever
\* cleans up with a registry read before, and whatever git an earlier clean-up
\* has left running; only the user can change it.
LeaseIsUndisturbed ==
  \A p \in Procs : At(p, "leased") =>
    /\ Loadable /\ current.state = "PUBLISHED" /\ record
    /\ edits = 0 => tree = "candidate" /\ admin = "locked"

\* As long as current.json says PUBLISHED everything published is there: a
\* clean-up says so durably before it removes the first file, and a
\* preparation before the last one is in place does not.
PublishedIsWhole ==
  current.state = "PUBLISHED" =>
    /\ record /\ current.owned /\ current.bound
    /\ edits = 0 => tree = "candidate" /\ admin = "locked" /\ entries

\* CLEANED means gone: the worktree with its entry, the stage, the temporary
\* mirror.  Nobody owns what a killed git worktree add makes later, nor the entry
\* of a worktree that was never captured.
CleanedIsGone ==
  current.state = "CLEANED" =>
    /\ stage = "absent" /\ ~incoming
    /\ current.owned \/ kills = 0 => tree = "absent"
    /\ current.owned => admin = "absent"

\* A registry that loads, and was published once, still has its record and the
\* digest that authenticates it, through every clean-up.
EvidenceIsBound ==
  Loadable /\ (\E i \in 1 .. Len(log) : log[i].to = "PUBLISHED") =>
    record /\ current.bound /\ current.owned

\* An event that does not follow from the one before is of a clean-up that read
\* the registry before the lock, or of a failure after a transition that raised;
\* else only a kill or an error leaves a log that current.json does not match.
LogBreaksAreKnown ==
  /\ \A i \in 2 .. Len(log) :
       log[i].from # log[i - 1].to =>
         log[i].to = "CLEANUP_STARTED" \/ kills + errors > 0
  /\ lock = Nobody /\ log # << >> /\ Last.to # current.state => kills + errors > 0

\* A clean-up without --force-changed does not start on a changed worktree that
\* is in git's hands and has evidence, unless it read the registry before that
\* was published.
ChangesAreKept ==
  [][\A p \in Procs :
       At(p, "check") /\ pc'[p] = "announce" /\ ~force[p]
       /\ tree = "changed" /\ admin # "absent" /\ record
         => known[p].state \in {"WORKTREE_CREATED", "CANDIDATE_READY"}]_vars

\* A registry that loads.  Git still keeps worktrees/, and what is left of a
\* worktree that is owned can be removed; of one that is not, nothing is left.
Recoverable ==
  /\ current.state # "none" /\ Loadable /\ Len(log) < MaxEvents
  /\ IF current.owned
       THEN entries /\ admin # "torn" /\ (tree = "torn" => admin = "absent")
       ELSE tree = "absent"

\* A clean-up repeated comes to CLEANED from whatever a kill or an error left,
\* unless it left what no clean-up accepts.
CleanupConverges ==
  []<>(current.state \in {"none", "CLEANED"} \/ ~Recoverable)

\* At every step a preparation is what its registry says: typed, left alone under
\* a lease, complete while PUBLISHED, and bound to its evidence ever after.
PreparationIsSound == TypeOK /\ LeaseIsUndisturbed /\ PublishedIsWhole /\ EvidenceIsBound

\* What a clean-up or a fault leaves behind is known: nothing once CLEANED, and a
\* log that does not follow only after an overlap or a fault.
LeftoversAreKnown == CleanedIsGone /\ LogBreaksAreKnown

\* tests/unit/test_sources.py:882, test_source_lock_serializes_concurrent_cleanup:
\* as long as nothing is killed and nothing raises, what the lock serializes
\* leaves a registry that loads.
RegistryStaysLoadable ==
  lock = Nobody /\ kills + errors = 0 /\ current.state # "none" => Loadable
=============================================================================

---------------------------- MODULE BuildAttempts ----------------------------
(***************************************************************************)
(* begin_build_attempt of builds.py and the session it yields: the roots   *)
(* of attempts with their registry and events, the recipe index, the       *)
(* records, and the two locks.  Attempts of several recipes are made side  *)
(* by side; the first thing each does is to settle what dead ones left.    *)
(*                                                                         *)
(* A registry is its state and outcome; digests and identities follow from *)
(* the tree a record was made of.  A temp that a kill leaves in events, in *)
(* the indexes or beside a record is read by nobody and left out; so are   *)
(* the private subdirectory that finalization removes first, and the other *)
(* evidence, of which no more is asked than of the events.                 *)
(***************************************************************************)
EXTENDS Naturals, Sequences, FiniteSets

CONSTANTS Procs, Recipes,
          MaxAttempts,  \* bound: attempts ever allocated
          MaxTrouble    \* bound: kills and errors

ASSUME AttemptAssumption == MaxAttempts \in Nat /\ MaxTrouble \in Nat /\ Recipes # {}

VARIABLES
  at,          \* where each process is
  job,         \* what it works on, see TypeOK
  why,         \* why its last begin_build_attempt raised
  recipeLock,  \* holder for each recipe, or Nobody
  allocLock,   \* holder of build-attempt-allocation.lock, or Nobody
  recipeOf,    \* recipe of each attempt that was begun
  maker,       \* its owner
  dead,        \* attempts whose owner is gone
  tree,        \* the root of each attempt
  index,       \* its entry in the recipe index, or none
  record,      \* the tree its record was made of, or none
  trouble

procVars  == <<at, job, why>>
lockVars  == <<recipeLock, allocLock>>
bornVars  == <<recipeOf, maker, dead>>
storeVars == <<tree, index, record>>
vars      == <<procVars, lockVars, bornVars, storeVars, trouble>>

Attempts == 1 .. MaxAttempts
Nobody   == "nobody"

\* A process is not nobody, and no recipe is called none: keys of recipes are digests.
ASSUME NamesAssumption == Nobody \notin Procs /\ "none" \notin Recipes

\* AttemptState and AttemptOutcome
States   == {"allocated", "active", "finalizing", "record-published", "torn-down"}
Outcomes == {"success", "failed", "interrupted"}

Reg(state, outcome) == [state |-> state, outcome |-> outcome]
None   == Reg("none", "none")
NoTree == [dir |-> FALSE, cur |-> None, temps |-> 0, events |-> << >>]
NoJob  == [recipe |-> "none", attempt |-> 0, todo |-> {}, to |-> "none", outcome |-> "none", by |-> "none"]

Init ==
  /\ at = [p \in Procs |-> "idle"] /\ job = [p \in Procs |-> NoJob] /\ why = [p \in Procs |-> "none"]
  /\ recipeLock = [r \in Recipes |-> Nobody] /\ allocLock = Nobody
  /\ recipeOf = << >> /\ maker = << >> /\ dead = {}
  /\ tree = [a \in Attempts |-> NoTree] /\ index = [a \in Attempts |-> None]
  /\ record = [a \in Attempts |-> NoTree]
  /\ trouble = 0

-----------------------------------------------------------------------------
(* Steps of a process *)

At(p, l)   == at[p] = l
Goto(p, l) == at' = [at EXCEPT ![p] = l]
Set(p, j)  == job' = [job EXCEPT ![p] = j]
Mine(p)    == job[p].attempt
Root(p)    == tree[Mine(p)]
Roots      == {a \in Attempts : tree[a].dir}

\* The locks p holds are free again.
Unlock(p) ==
  /\ recipeLock' = [r \in Recipes |-> IF recipeLock[r] = p THEN Nobody ELSE recipeLock[r]]
  /\ allocLock' = IF allocLock = p THEN Nobody ELSE allocLock

\* begin_build_attempt raises out of the call.
Leave(p, reason) ==
  /\ Goto(p, "idle") /\ Set(p, NoJob) /\ Unlock(p) /\ why' = [why EXCEPT ![p] = reason]

\* An exception: within the session it goes through the finally of the context manager.
Raise(p, reason) ==
  IF job[p].by = "session"
    THEN Goto(p, "finally") /\ UNCHANGED <<job, why, lockVars>>
    ELSE Leave(p, reason)

-----------------------------------------------------------------------------
(* Journal *)

\* _LEGAL_TRANSITIONS
Legal(from, to) ==
  <<from, to>> \in {<<"none", "allocated">>, <<"allocated", "active">>, <<"allocated", "finalizing">>,
                    <<"active", "finalizing">>, <<"finalizing", "record-published">>}

LastOf(events) == IF events = << >> THEN "none" ELSE events[Len(events)]

\* An event in the middle is missing.
Gap == <<"gap">>

\* Mutant of Reconciled: an event that is missing stays so.
ReconciledNever(t) == t

\* _reconcile_missing_event: the event the registry is ahead of is written.
Reconciled(t) ==
  IF t.events # Gap /\ LastOf(t.events) # t.cur.state /\ Legal(LastOf(t.events), t.cur.state)
    THEN [t EXCEPT !.events = Append(@, t.cur.state)] ELSE t

\* _validate_event_chain, once the missing event is there
ChainHolds(t) == t.events # Gap /\ LastOf(t.events) = t.cur.state

-----------------------------------------------------------------------------
(* begin_build_attempt *)

Begin(p) ==
  /\ At(p, "idle")
  /\ \E r \in Recipes :
       /\ recipeLock[r] = Nobody
       /\ recipeLock' = [recipeLock EXCEPT ![r] = p]
       /\ Set(p, [NoJob EXCEPT !.recipe = r, !.by = "begin"])
  /\ Goto(p, "sweep lock") /\ why' = [why EXCEPT ![p] = "none"]
  /\ UNCHANGED <<allocLock, bornVars, storeVars, trouble>>

\* Mutant of SweepLock: roots are swept without the allocation lock.
SweepUnlocked(p) ==
  /\ At(p, "sweep lock") /\ Goto(p, "sweep") /\ Set(p, [job[p] EXCEPT !.todo = Roots])
  /\ UNCHANGED <<why, lockVars, bornVars, storeVars, trouble>>

\* The roots to be swept are listed under the allocation lock.
SweepLock(p) ==
  /\ At(p, "sweep lock")
  /\ IF allocLock = Nobody
       THEN /\ allocLock' = p /\ Goto(p, "sweep") /\ Set(p, [job[p] EXCEPT !.todo = Roots])
            /\ UNCHANGED <<why, recipeLock>>
       ELSE Leave(p, "busy")
  /\ UNCHANGED <<bornVars, storeVars, trouble>>

\* Nothing but what an allocation makes before the registry.
Orphaned(t) == t.cur = None /\ t.events = << >>

\* _remove_preallocation_orphans, one root: lstat fails on a root that went since.
Sweep(p) ==
  /\ At(p, "sweep")
  /\ \E a \in job[p].todo :
       IF ~tree[a].dir THEN Leave(p, "disturbed") /\ UNCHANGED storeVars
         ELSE /\ tree' = [tree EXCEPT ![a] = IF Orphaned(@) THEN NoTree ELSE @]
              /\ Set(p, [job[p] EXCEPT !.todo = @ \ {a}])
              /\ UNCHANGED <<at, why, lockVars, index, record>>
  /\ UNCHANGED <<bornVars, trouble>>

\* The lock is dropped, and what is there now is looked through for stale attempts.
ListStale(p) ==
  /\ At(p, "sweep") /\ job[p].todo = {}
  /\ allocLock' = IF allocLock = p THEN Nobody ELSE allocLock
  /\ Goto(p, "stale") /\ Set(p, [job[p] EXCEPT !.todo = Roots])
  /\ UNCHANGED <<why, recipeLock, bornVars, storeVars, trouble>>

\* A root that has gone, or has no registry, is passed over.
StaleCheck(p) ==
  /\ At(p, "stale")
  /\ \E a \in job[p].todo :
       /\ Set(p, [job[p] EXCEPT !.todo = @ \ {a}, !.attempt = a])
       /\ IF tree[a].cur = None THEN UNCHANGED at ELSE Goto(p, "stale read")
  /\ UNCHANGED <<why, lockVars, bornVars, storeVars, trouble>>

\* Mutant of Living: an owner is never looked for.
LivingNever(a) == FALSE

\* _owner_alive
Living(a) == a \notin dead

\* Outcome of an attempt whose owner is gone
StaleOutcome(reg) == IF reg.outcome = "none" THEN "interrupted" ELSE reg.outcome

\* _recover_stale_attempts, one registry: it is read though it may be gone by now; one of
\* this recipe is validated, and finalized if its owner is dead.
StaleRead(p) ==
  /\ At(p, "stale read")
  /\ LET a == Mine(p) IN
       CASE Root(p).cur = None -> Leave(p, "disturbed") /\ UNCHANGED tree
         [] Root(p).cur # None /\ recipeOf[a] # job[p].recipe ->
              Goto(p, "stale") /\ UNCHANGED <<job, why, lockVars, tree>>
         [] OTHER ->
              /\ tree' = [tree EXCEPT ![a] = Reconciled(@)]
              /\ CASE ~ChainHolds(Reconciled(Root(p))) -> Leave(p, "half gone")
                   [] ChainHolds(Reconciled(Root(p))) /\ Living(a) -> Leave(p, "busy")
                   [] OTHER -> /\ Goto(p, "finalize") /\ UNCHANGED <<why, lockVars>>
                               /\ Set(p, [job[p] EXCEPT !.outcome = StaleOutcome(Root(p).cur)])
  /\ UNCHANGED <<bornVars, index, record, trouble>>

\* The attempts the index of a recipe says are recorded and not torn down
Published(r) == {a \in DOMAIN recipeOf : recipeOf[a] = r /\ index[a].state = "record-published"}

\* The entries of attempts whose record is published are gone through.
ListTeardowns(p) ==
  /\ At(p, "stale") /\ job[p].todo = {}
  /\ Goto(p, "teardowns")
  /\ Set(p, [job[p] EXCEPT !.todo = Published(job[p].recipe)])
  /\ UNCHANGED <<why, lockVars, bornVars, storeVars, trouble>>

\* Mutant of Teardown: that the root is still there goes unnoticed.
TeardownUnseen(p) ==
  /\ At(p, "teardowns")
  /\ \E a \in job[p].todo :
       /\ index' = [index EXCEPT ![a].state = "torn-down"]
       /\ Set(p, [job[p] EXCEPT !.todo = @ \ {a}])
  /\ UNCHANGED <<at, why, lockVars, bornVars, tree, record, trouble>>

\* _recover_index_teardowns, one entry: its root is gone, or has lost its registry, as one
\* with a registry has been settled before.
Teardown(p) ==
  /\ At(p, "teardowns")
  /\ \E a \in job[p].todo :
       IF tree[a].dir THEN Leave(p, "half gone") /\ UNCHANGED index
         ELSE /\ index' = [index EXCEPT ![a].state = "torn-down"]
              /\ Set(p, [job[p] EXCEPT !.todo = @ \ {a}])
              /\ UNCHANGED <<at, why, lockVars>>
  /\ UNCHANGED <<bornVars, tree, record, trouble>>

\* Within the finally of a session the call ends here.
TornDown(p) ==
  /\ At(p, "teardowns") /\ job[p].todo = {}
  /\ IF job[p].by = "begin" THEN Goto(p, "allocate") /\ UNCHANGED <<job, why, lockVars>>
       ELSE Leave(p, "none")
  /\ UNCHANGED <<bornVars, storeVars, trouble>>

\* _allocate_attempt makes the root under the allocation lock.  The bound ends some calls.
Allocate(p) ==
  /\ At(p, "allocate")
  /\ LET a == Len(recipeOf) + 1 IN
       IF allocLock = Nobody /\ a <= MaxAttempts
         THEN /\ allocLock' = p
              /\ recipeOf' = Append(recipeOf, job[p].recipe) /\ maker' = Append(maker, p)
              /\ tree' = [tree EXCEPT ![a].dir = TRUE]
              /\ Set(p, [job[p] EXCEPT !.attempt = a, !.to = "allocated", !.outcome = "none"])
              /\ Goto(p, "write") /\ UNCHANGED <<why, recipeLock>>
         ELSE Leave(p, "busy") /\ UNCHANGED <<recipeOf, maker, tree>>
  /\ UNCHANGED <<dead, index, record, trouble>>

-----------------------------------------------------------------------------
(* A transition: registry, event, index *)

\* _atomic_model writes a temp
Write(p) ==
  /\ At(p, "write")
  /\ tree' = [tree EXCEPT ![Mine(p)].temps = @ + 1]
  /\ Goto(p, "replace")
  /\ UNCHANGED <<job, why, lockVars, bornVars, index, record, trouble>>

\* ... and puts it in place.
Replace(p) ==
  /\ At(p, "replace")
  /\ tree' = [tree EXCEPT ![Mine(p)].temps = @ - 1, ![Mine(p)].cur = Reg(job[p].to, job[p].outcome)]
  /\ Goto(p, "event")
  /\ UNCHANGED <<job, why, lockVars, bornVars, index, record, trouble>>

\* _write_event
Event(p) ==
  /\ At(p, "event")
  /\ tree' = [tree EXCEPT ![Mine(p)].events = Append(@, job[p].to)]
  /\ Goto(p, "index")
  /\ UNCHANGED <<job, why, lockVars, bornVars, index, record, trouble>>

\* Mutant of NextOf: the root is torn down before its record is published.
NextOfHasty(p) ==
  CASE job[p].to = "allocated" -> "open"
    [] job[p].to = "active" -> "active"
    [] job[p].to = "finalizing" -> "remove"
    [] job[p].to = "record-published" -> "remove"
    [] OTHER -> IF job[p].by = "begin" THEN "stale" ELSE "end"

\* What follows once the index has the state
NextOf(p) ==
  CASE job[p].to = "allocated" -> "open"
    [] job[p].to = "active" -> "active"
    [] job[p].to = "finalizing" -> "publish"
    [] job[p].to = "record-published" -> "remove"
    [] OTHER -> IF job[p].by = "begin" THEN "stale" ELSE "end"

\* Mutant of Store: the allocation lock is kept for the session.
StoreLocked(p) ==
  /\ At(p, "index")
  /\ index' = [index EXCEPT ![Mine(p)] = Reg(job[p].to, job[p].outcome)]
  /\ Goto(p, NextOf(p))
  /\ IF job[p].to = "allocated" THEN Set(p, [job[p] EXCEPT !.by = "session"]) ELSE UNCHANGED job
  /\ UNCHANGED <<why, lockVars, bornVars, tree, record, trouble>>

\* _store_recipe_entry; an attempt that was allocated has the session for its own.
Store(p) ==
  /\ At(p, "index")
  /\ index' = [index EXCEPT ![Mine(p)] = Reg(job[p].to, job[p].outcome)]
  /\ Goto(p, NextOf(p))
  /\ IF job[p].to = "allocated" THEN allocLock' = Nobody /\ Set(p, [job[p] EXCEPT !.by = "session"])
       ELSE UNCHANGED <<allocLock, job>>
  /\ UNCHANGED <<why, recipeLock, bornVars, tree, record, trouble>>

-----------------------------------------------------------------------------
(* The session *)

MarkActive(p) ==
  /\ At(p, "open") /\ Goto(p, "write") /\ Set(p, [job[p] EXCEPT !.to = "active"])
  /\ UNCHANGED <<why, lockVars, bornVars, storeVars, trouble>>

\* The build is done, and the session finalized.
Succeed(p) ==
  /\ At(p, "active") /\ Goto(p, "finalize")
  /\ Set(p, [job[p] EXCEPT !.outcome = "success"])
  /\ UNCHANGED <<why, lockVars, bornVars, storeVars, trouble>>

Fail(p) ==
  /\ at[p] \in {"open", "active"} /\ Raise(p, "none")
  /\ UNCHANGED <<bornVars, storeVars, trouble>>

\* The finally of begin_build_attempt goes by what is on disk: a finalization is gone on
\* with, any other attempt has failed, and for one without root the index is settled.
Finally(p) ==
  /\ At(p, "finally")
  /\ LET reg == Root(p).cur
         go(o) == Goto(p, "finalize") /\ Set(p, [job[p] EXCEPT !.by = "finally", !.outcome = o])
                  /\ UNCHANGED <<why, lockVars>>
     IN CASE ~Root(p).dir ->
               /\ Goto(p, "teardowns") /\ UNCHANGED <<why, lockVars>>
               /\ Set(p, [job[p] EXCEPT !.by = "finally", !.todo = Published(job[p].recipe)])
          [] Root(p).dir /\ reg = None -> Leave(p, "half gone")
          [] Root(p).dir /\ reg.outcome # "none" -> go(reg.outcome)
          [] OTHER -> go("failed")
  /\ UNCHANGED <<bornVars, storeVars, trouble>>

End(p) ==
  /\ At(p, "end") /\ Leave(p, "none")
  /\ UNCHANGED <<bornVars, storeVars, trouble>>

-----------------------------------------------------------------------------
(* _finalize_attempt *)

\* The registry is validated, and finalization gone on with from where it had come to.
Finalize(p) ==
  /\ At(p, "finalize")
  /\ LET t == Reconciled(Root(p))
         to(l, s) == Goto(p, l) /\ Set(p, [job[p] EXCEPT !.to = s]) /\ UNCHANGED <<why, lockVars>>
     IN /\ tree' = [tree EXCEPT ![Mine(p)] = t]
        /\ CASE ~ChainHolds(t) -> Raise(p, "half gone")
             [] ChainHolds(t) /\ t.cur.outcome \notin {"none", job[p].outcome} -> Raise(p, "changed")
             [] ChainHolds(t) /\ t.cur = Reg("record-published", job[p].outcome) -> to("index", "record-published")
             [] ChainHolds(t) /\ t.cur = Reg("finalizing", job[p].outcome) -> to("publish", "finalizing")
             [] OTHER -> to("write", "finalizing")
  /\ UNCHANGED <<bornVars, index, record, trouble>>

\* publish_record copies the tree; a record that is there already must be of the tree as it is.
Publish(p) ==
  /\ At(p, "publish")
  /\ IF record[Mine(p)] \in {NoTree, Root(p)}
       THEN /\ record' = [record EXCEPT ![Mine(p)] = Root(p)]
            /\ Goto(p, "write") /\ Set(p, [job[p] EXCEPT !.to = "record-published"])
            /\ UNCHANGED <<why, lockVars>>
       ELSE Raise(p, "divergent") /\ UNCHANGED record
  /\ UNCHANGED <<bornVars, tree, index, trouble>>

\* What is left of a tree when rmtree has taken one entry more, in no order.  Any part of
\* the events but the last one is as good as a gap.
Shrunk(t) ==
  {[t EXCEPT !.cur = None], [t EXCEPT !.temps = 0], [t EXCEPT !.events = << >>]}
  \cup (IF t.events = << >> THEN {} ELSE {[t EXCEPT !.events = Gap]})
  \cup (IF LastOf(t.events) # "record-published" THEN {}
          ELSE {[t EXCEPT !.events = SubSeq(@, 1, Len(@) - 1)]})

\* Mutant of Remove: the index is not told that the root is gone.
RemoveUnindexed(p) ==
  /\ At(p, "remove")
  /\ IF ~Root(p).dir THEN Raise(p, "disturbed") /\ UNCHANGED tree
       ELSE LET left == Shrunk(Root(p)) \ {Root(p)} IN
         IF left = {}
           THEN /\ tree' = [tree EXCEPT ![Mine(p)] = NoTree]
                /\ Goto(p, IF job[p].by = "begin" THEN "stale" ELSE "end") /\ UNCHANGED <<job, why, lockVars>>
           ELSE (\E t \in left : tree' = [tree EXCEPT ![Mine(p)] = t]) /\ UNCHANGED <<procVars, lockVars>>
  /\ UNCHANGED <<bornVars, index, record, trouble>>

\* One step of rmtree; on a root that a sweep has taken it raises.
Remove(p) ==
  /\ At(p, "remove")
  /\ IF ~Root(p).dir THEN Raise(p, "disturbed") /\ UNCHANGED tree
       ELSE LET left == Shrunk(Root(p)) \ {Root(p)} IN
         IF left = {}
           THEN /\ tree' = [tree EXCEPT ![Mine(p)] = NoTree] /\ Goto(p, "index")
                /\ Set(p, [job[p] EXCEPT !.to = "torn-down"]) /\ UNCHANGED <<why, lockVars>>
           ELSE (\E t \in left : tree' = [tree EXCEPT ![Mine(p)] = t]) /\ UNCHANGED <<procVars, lockVars>>
  /\ UNCHANGED <<bornVars, index, record, trouble>>

-----------------------------------------------------------------------------
(* Inspection, under the lock of the recipe; it writes nothing *)

\* _verify_finalized_record: the record is bound to the index entry.
RecordIsBound(a) == record[a].cur = Reg("finalizing", index[a].outcome) /\ ChainHolds(record[a])

\* _inspect_recipe_locked accepts an attempt that is open, or one that is torn down.
Inspectable(a) ==
  IF index[a].state \in {"record-published", "torn-down"}
    THEN index[a].state = "torn-down" /\ RecordIsBound(a)
    ELSE tree[a].cur = Reg(index[a].state, "none") /\ ChainHolds(Reconciled(tree[a]))

\* inspect_attempt answers for terminal attempts only.
AttemptInspectable(a) == record[a] # NoTree /\ index[a].state = "torn-down" /\ RecordIsBound(a)

-----------------------------------------------------------------------------
(* Trouble *)

\* A file operation fails: the temp is removed, the exception goes on.
Error(p) ==
  /\ at[p] \in {"sweep", "stale read", "write", "replace", "event", "index", "finalize", "publish", "remove", "teardowns"}
  /\ trouble < MaxTrouble /\ trouble' = trouble + 1
  /\ tree' = IF At(p, "replace") THEN [tree EXCEPT ![Mine(p)].temps = @ - 1] ELSE tree
  /\ Raise(p, "error")
  /\ UNCHANGED <<bornVars, index, record>>

Bury(p) == dead' = dead \cup {a \in DOMAIN maker : maker[a] = p}

\* SIGKILL: the kernel drops the locks, the files stay.
Kill(p) ==
  /\ ~At(p, "idle")
  /\ trouble < MaxTrouble /\ trouble' = trouble + 1
  /\ Leave(p, "none") /\ Bury(p)
  /\ UNCHANGED <<recipeOf, maker, storeVars>>

\* A process that left an attempt behind exits at last.
Exit(p) ==
  /\ At(p, "idle") /\ \E a \in Roots \ dead : maker[a] = p
  /\ Bury(p)
  /\ UNCHANGED <<procVars, lockVars, recipeOf, maker, storeVars, trouble>>

Step(p) ==
  \/ SweepLock(p) \/ Sweep(p) \/ ListStale(p) \/ StaleCheck(p) \/ StaleRead(p)
  \/ ListTeardowns(p) \/ Teardown(p) \/ TornDown(p) \/ Allocate(p)
  \/ Write(p) \/ Replace(p) \/ Event(p) \/ Store(p)
  \/ MarkActive(p) \/ Succeed(p) \/ Fail(p) \/ Finally(p) \/ End(p)
  \/ Finalize(p) \/ Publish(p) \/ Remove(p)

Next == \E p \in Procs : Begin(p) \/ Step(p) \/ Error(p) \/ Kill(p) \/ Exit(p)

Spec == Init /\ [][Next]_vars

-----------------------------------------------------------------------------
(* Correctness *)

InSession(p) == job[p].by = "session" /\ at[p] \in {"open", "active", "finalize", "publish"}

\* Every variable keeps to its range, each lock is of whom the steps say.
TypeOK ==
  /\ \A p \in Procs :
       /\ job[p].recipe \in Recipes \cup {"none"} /\ job[p].attempt \in 0 .. MaxAttempts
       /\ job[p].todo \subseteq Attempts /\ job[p].by \in {"none", "begin", "session", "finally"}
       /\ (At(p, "idle") <=> job[p] = NoJob)
       /\ \A r \in Recipes : recipeLock[r] = p <=> job[p].recipe = r
       /\ (allocLock = p => at[p] \in {"sweep", "write", "replace", "event", "index"})
       /\ why[p] \in {"none", "busy", "disturbed", "half gone", "divergent", "changed", "error"}
  /\ Len(recipeOf) = Len(maker) /\ dead \subseteq DOMAIN recipeOf
  /\ \A a \in Attempts :
       /\ index[a].state \in States \cup {"none"} /\ index[a].outcome \in Outcomes \cup {"none"}
       /\ ~tree[a].dir => tree[a] = NoTree
  /\ trouble \in 0 .. MaxTrouble

\* The root of a session in progress is there with its registry and a whole journal, and
\* no sweep takes the root of an allocation from under it.
LiveRootIsKept ==
  \A p \in Procs :
    /\ InSession(p) => Root(p).cur # None /\ ChainHolds(Reconciled(Root(p))) /\ Living(Mine(p))
    /\ at[p] \in {"write", "replace", "event"} => Root(p).dir

\* An attempt that the index does not say is recorded still has its registry; one it says
\* is recorded has its record, of the same outcome, and one torn down has nothing left.
IndexIsBacked ==
  \A a \in Attempts :
    /\ index[a].state \in {"allocated", "active", "finalizing"} => tree[a].cur # None
    /\ index[a].state \in {"record-published", "torn-down"} =>
         RecordIsBound(a)
    /\ index[a].state = "torn-down" => tree[a] = NoTree

\* Nobody settles an attempt as interrupted whose owner lives.
InterruptedOnlyWhenDead ==
  \A a \in Attempts : "interrupted" \in {tree[a].cur.outcome, record[a].cur.outcome, index[a].outcome} => a \in dead

\* A call that comes to its end leaves its recipe such that inspect_recipe and inspect_attempt
\* accept every attempt it has, whatever earlier calls and other recipes had left or done.
InspectionAccepts ==
  [][\A p \in Procs :
       ~At(p, "idle") /\ at'[p] = "idle" /\ why'[p] = "none" /\ trouble' = trouble =>
         \A a \in DOMAIN recipeOf : recipeOf[a] = job[p].recipe /\ index[a] # None =>
           Inspectable(a)' /\ AttemptInspectable(a)']_vars

\* An attempt is refused for good only if a kill or an error struck while its root was torn
\* down, or between the record and the registry that says so.
RefusalsHaveACause ==
  [][\A p \in Procs : why'[p] # why[p] =>
       /\ why'[p] = "half gone" =>
            trouble > 0 /\ \E a \in Attempts : tree[a].dir /\ index[a].state = "record-published"
       /\ why'[p] = "divergent" =>
            trouble > 0 /\ \E a \in Attempts : record[a] # NoTree /\ record[a].temps < tree[a].temps
       /\ why'[p] # "changed"]_vars

\* One outcome is decided for each attempt, its record is of that outcome and never
\* replaced, and its index entry is closed last: what RunLifecycle promises of a run.
Phase(a) ==
  CASE index[a].state = "torn-down" -> "closed"
    [] index[a].state # "torn-down" /\ record[a] # NoTree -> "sealed"
    [] record[a] = NoTree /\ tree[a].cur.outcome # "none" -> "decided"
    [] record[a] = NoTree /\ tree[a].cur # None /\ tree[a].cur.outcome = "none" -> "open"
    [] OTHER -> "unborn"
OutcomeOf(a) == IF record[a] # NoTree THEN record[a].cur.outcome ELSE tree[a].cur.outcome

Lifecycle(a) == INSTANCE RunLifecycle WITH phase <- Phase(a), outcome <- OutcomeOf(a)

\* builds.py keeps the promises of RunLifecycle for each attempt.
ImplementsLifecycle ==
  /\ \A a \in Attempts : Lifecycle(a)!Init
  /\ [][\A a \in Attempts : Lifecycle(a)!Next \/ UNCHANGED Lifecycle(a)!vars]_vars

\* Between any two steps the attempts are what their documents say: typed, backed by
\* a registry or a record, undisturbed in session, and not settled while their owner lives.
AttemptsAreSound == TypeOK /\ LiveRootIsKept /\ IndexIsBacked /\ InterruptedOnlyWhenDead

\* A call leaves attempts that the inspections accept, or refuses for a cause.
CallsEndWell == InspectionAccepts /\ RefusalsHaveACause

\* tests/unit/test_builds.py: recovery tolerates a root removed by another recipe.
RecipesAreApart == \A p \in Procs : why[p] # "disturbed"
=============================================================================

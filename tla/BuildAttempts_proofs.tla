------------------------ MODULE BuildAttempts_proofs ------------------------
(***************************************************************************)
(* Theorems about BuildAttempts, for every number of processes, recipes    *)
(* and attempts and every bound on trouble: the attempts are sound between *)
(* any two steps, calls end well or are refused for a cause, and each      *)
(* attempt keeps the promises of RunLifecycle.                             *)
(***************************************************************************)
EXTENDS BuildAttempts, SequenceTheorems, TLAPS

----------------------------------------
(* Where a process may be *)

\* The labels of a transition
Writing == {"write", "replace", "event", "index"}

\* The labels at which a process has an attempt in hand
Working == Writing \cup {"open", "active", "finally", "finalize", "publish", "remove"}

\* Where a process may be
Labels == Working \cup {"idle", "sweep lock", "sweep", "stale", "stale read", "teardowns", "allocate",
                        "end"}

----------------------------------------
(* The inductive invariant: types *)

\* Names of states that a registry or an event may bear
Names == States \cup {"none", "gap"}

\* What a root, or the record of one, may be
Trees == [dir : BOOLEAN, cur : [state : Names, outcome : Outcomes \cup {"none"}], temps : Int,
          events : Seq(Names)]
Jobs  == [recipe : Recipes \cup {"none"}, attempt : 0 .. MaxAttempts, todo : SUBSET Attempts,
          to : States \cup {"none"}, outcome : Outcomes \cup {"none"},
          by : {"none", "begin", "session", "finally"}]

\* What begin_build_attempt may raise
Reasons == {"none", "busy", "disturbed", "half gone", "divergent", "changed", "error"}

\* Every variable keeps to its range.
Typed ==
  /\ at \in [Procs -> Labels] /\ job \in [Procs -> Jobs] /\ why \in [Procs -> Reasons]
  /\ recipeLock \in [Recipes -> Procs \cup {Nobody}] /\ allocLock \in Procs \cup {Nobody}
  /\ recipeOf \in Seq(Recipes) /\ maker \in Seq(Procs) /\ Len(recipeOf) = Len(maker)
  /\ DOMAIN recipeOf \subseteq Attempts /\ dead \subseteq DOMAIN recipeOf
  /\ tree \in [Attempts -> Trees] /\ record \in [Attempts -> Trees]
  /\ index \in [Attempts -> [state : Names \cup {"torn-down"}, outcome : Outcomes \cup {"none"}]]
  /\ trouble \in 0 .. MaxTrouble

----------------------------------------
(* The inductive invariant: an attempt *)

\* The build goes on: nothing is decided yet.
Undecided(c) == c = Reg("allocated", "none") \/ c = Reg("active", "none")

\* A registry is of one of the states, with the outcome from finalization on.
RegistryInv(a) ==
  LET c == tree[a].cur IN
    \/ c = None \/ Undecided(c)
    \/ c.outcome \in Outcomes /\ c.state \in {"finalizing", "record-published"}

\* The journal says what the registry says, or is one legal event behind.
Whole(t) ==
  /\ t.events # Gap
  /\ LastOf(t.events) = t.cur.state \/ Legal(LastOf(t.events), t.cur.state)

\* A journal is whole until the root is being removed.
JournalInv(a) ==
  /\ ~tree[a].dir => tree[a] = NoTree
  /\ tree[a].cur # None /\ index[a].state # "record-published" => Whole(tree[a])

\* A record is of the tree as it was when it was finalized, but for temps.
RecordInv(a) ==
  /\ record[a] # NoTree =>
       /\ record[a].cur.state = "finalizing" /\ record[a].cur.outcome \in Outcomes
       /\ record[a].dir /\ ChainHolds(record[a])
       /\ \/ tree[a].cur = None /\ index[a].state \in {"record-published", "torn-down"}
          \/ /\ tree[a].cur.state \in {"finalizing", "record-published"}
             /\ tree[a].cur.outcome = record[a].cur.outcome
       /\ tree[a].cur.state = "finalizing" =>
            tree[a].events = record[a].events /\ record[a].temps <= tree[a].temps
  /\ tree[a].cur.state = "record-published" => record[a] # NoTree

\* The index entry is backed by a registry, or by the record.
IndexInv(a) ==
  /\ index[a].state \in {"allocated", "active", "finalizing"} => tree[a].cur # None
  /\ index[a].state \in {"record-published", "torn-down"} =>
       record[a] # NoTree /\ record[a].cur.outcome = index[a].outcome
  /\ index[a].state = "record-published" => tree[a].cur = None \/ tree[a].cur.state = "record-published"
  /\ index[a].state = "torn-down" => tree[a] = NoTree
  /\ index[a].state # "gap" /\ (index[a].state = "none" => index[a] = None)

\* Nothing is there of an attempt that was not begun, and an owner that lives is not
\* taken for dead.
BirthInv(a) ==
  /\ a \notin DOMAIN recipeOf => tree[a] = NoTree /\ index[a] = None /\ record[a] = NoTree
  /\ "interrupted" \in {tree[a].cur.outcome, record[a].cur.outcome, index[a].outcome} => a \in dead

\* What holds of an attempt
AttemptInv(a) == RegistryInv(a) /\ JournalInv(a) /\ RecordInv(a) /\ IndexInv(a) /\ BirthInv(a)

----------------------------------------
(* The inductive invariant: a process *)

\* p makes the root of a new attempt.
Allocating(p) == at[p] \in Writing /\ job[p].to = "allocated"

\* Who holds which lock
LockInv(p) ==
  /\ at[p] = "idle" <=> job[p] = NoJob
  /\ at[p] # "idle" => job[p].recipe \in Recipes /\ job[p].by # "none"
  /\ \A r \in Recipes : recipeLock[r] = p <=> job[p].recipe = r
  /\ allocLock = p <=> at[p] = "sweep" \/ Allocating(p)

\* On whose behalf p works, and on an attempt of which recipe
JobInv(p) ==
  /\ at[p] \in {"sweep lock", "sweep", "stale", "stale read", "allocate"} => job[p].by = "begin"
  /\ at[p] \in {"open", "active", "finally"} => job[p].by = "session"
  /\ at[p] \in {"teardowns"} => job[p].by # "session"
  /\ at[p] = "end" => job[p].by # "begin"
  /\ at[p] = "stale read" => Mine(p) \in Attempts
  /\ at[p] \in Working \cup {"end"} => Mine(p) \in DOMAIN recipeOf /\ recipeOf[Mine(p)] = job[p].recipe
  /\ at[p] \in Working /\ (job[p].by = "session" \/ Allocating(p)) => maker[Mine(p)] = p /\ Mine(p) \notin dead
  /\ at[p] \in Writing => job[p].to # "none"
  /\ Allocating(p) => job[p].by = "begin"
  /\ at[p] \in Writing /\ job[p].to = "active" => job[p].by = "session"

\* The outcome p settles its attempt with
OutcomeInv(p) ==
  /\ at[p] \in {"open", "active"} \/ (at[p] \in Writing /\ job[p].to \in {"allocated", "active"}) =>
       job[p].outcome = "none"
  /\ at[p] \in {"finalize", "publish", "remove"}
       \/ (at[p] \in Writing /\ job[p].to \in {"finalizing", "record-published", "torn-down"}) =>
       job[p].outcome \in Outcomes /\ (job[p].outcome = "interrupted" => Mine(p) \in dead)

\* Before a transition the root is in the state it starts from, with a whole journal.
WriteInv(p) ==
  at[p] \in {"write", "replace"} =>
    /\ Root(p).dir /\ job[p].to # "torn-down"
    /\ job[p].to = "allocated" => Root(p).cur = None /\ Root(p).events = << >> /\ index[Mine(p)] = None
    /\ job[p].to = "active" => Root(p).cur = Reg("allocated", "none")
    /\ job[p].to = "finalizing" => Undecided(Root(p).cur)
    /\ job[p].to = "record-published" =>
         /\ Root(p).cur = Reg("finalizing", job[p].outcome) /\ record[Mine(p)] # NoTree
         /\ at[p] = "replace" => record[Mine(p)].temps < Root(p).temps
    /\ job[p].to # "allocated" => ChainHolds(Root(p))

\* After it the registry says where it leads, and the journal and the index are behind.
EventInv(p) ==
  /\ at[p] = "event" =>
       /\ Root(p).dir /\ job[p].to # "torn-down" /\ Root(p).cur = Reg(job[p].to, job[p].outcome)
       /\ Root(p).events # Gap /\ Legal(LastOf(Root(p).events), job[p].to)
  /\ at[p] = "index" =>
       /\ job[p].to = "torn-down" => Root(p) = NoTree /\ index[Mine(p)] = Reg("record-published", job[p].outcome)
       /\ job[p].to # "torn-down" =>
            Root(p).dir /\ Root(p).cur = Reg(job[p].to, job[p].outcome) /\ ChainHolds(Root(p))
  /\ at[p] \in {"event", "index"} /\ job[p].to = "finalizing" => record[Mine(p)] = NoTree

\* The stages of a session and of a finalization
StageInv(p) ==
  /\ at[p] = "open" => Root(p).cur = Reg("allocated", "none") /\ ChainHolds(Root(p))
  /\ at[p] = "active" => Root(p).cur = Reg("active", "none") /\ ChainHolds(Root(p))
  /\ at[p] = "finalize" =>
       /\ Root(p).cur # None /\ Root(p).cur.outcome \in {"none", job[p].outcome}
       /\ job[p].by = "session" => Root(p).cur = Reg("active", "none")
  /\ at[p] = "publish" => Root(p).cur = Reg("finalizing", job[p].outcome) /\ ChainHolds(Root(p))
  /\ at[p] = "remove" => index[Mine(p)] = Reg("record-published", job[p].outcome)
  /\ job[p].by = "session" => index[Mine(p)] # None

\* The attempts of the recipe p works for
Brothers(p) == {a \in DOMAIN recipeOf : recipeOf[a] = job[p].recipe}

\* Nothing is left to be done about an attempt.
Settled(a) == index[a].state \in {"none", "torn-down"}

\* p settles what dead owners left.
Sweeping(p) == at[p] \in {"stale", "stale read"} \/ (at[p] \in Working /\ job[p].by = "begin" /\ ~Allocating(p))

\* Of the attempts of its recipe p leaves none out.
SettleInv(p) ==
  /\ Sweeping(p) => \A a \in Brothers(p) : tree[a].cur # None =>
                      a \in job[p].todo \/ (at[p] # "stale" /\ a = Mine(p))
  /\ at[p] = "teardowns" => /\ job[p].todo \subseteq Published(job[p].recipe)
                            /\ \A a \in Brothers(p) : Settled(a) \/ a \in job[p].todo
  /\ at[p] \in {"allocate", "end"} => \A a \in Brothers(p) : Settled(a)
  /\ at[p] \in Working /\ ~Sweeping(p) => \A a \in Brothers(p) \ {Mine(p)} : Settled(a)

\* What holds of a process
ProcInv(p) == LockInv(p) /\ JobInv(p) /\ OutcomeInv(p) /\ WriteInv(p) /\ EventInv(p) /\ StageInv(p) /\ SettleInv(p)

\* While no kill and no error has struck, a root is there only as long as somebody works
\* on it, and nothing is settled twice.
CalmInv ==
  trouble = 0 =>
    /\ \A a \in Attempts : tree[a].dir => \E p \in Procs : at[p] \in Working /\ Mine(p) = a
    /\ \A p \in Procs :
         /\ at[p] = "finally" => ~Root(p).dir \/ Undecided(Root(p).cur)
         /\ at[p] = "finalize" => Undecided(Root(p).cur)
         /\ at[p] = "publish" => record[Mine(p)] = NoTree

\* The inductive invariant
IInv == /\ Typed /\ CalmInv
        /\ \A a \in Attempts : AttemptInv(a)
        /\ \A p \in Procs : ProcInv(p)

----------------------------------------
(* Journals *)

\* What is appended is the last.
LEMMA LastAppended ==
  ASSUME NEW e \in Seq(Names), NEW x \in States
  PROVE  Append(e, x) \in Seq(Names) /\ LastOf(Append(e, x)) = x /\ Append(e, x) # Gap
<1> DEFINE s == Append(e, x)
           n == Len(e)
<1>1. s \in Seq(Names) /\ Len(s) = n + 1 /\ s[n + 1] = x /\ n \in Nat BY DEF Names
<1> HIDE DEF s
<1>2. s # << >> /\ LastOf(s) = x BY <1>1 DEF LastOf
<1>3. LastOf(Gap) = "gap" /\ x # "gap" BY DEF LastOf, Gap, States
<1> QED BY <1>1, <1>2, <1>3 DEF s

\* A legal transition leads from a state, or from nothing, to another state.
LEMMA LegalStates ==
  \A from, to : Legal(from, to) => to \in States /\ from \in States \cup {"none"} /\ from # to
BY DEF Legal, States

\* A journal that is whole is one that holds once the missing event is there.
LEMMA ReconciledHolds ==
  ASSUME NEW t \in Trees
  PROVE  /\ Reconciled(t) \in Trees /\ Reconciled(t).dir = t.dir /\ Reconciled(t).cur = t.cur
         /\ Reconciled(t).temps = t.temps
         /\ ChainHolds(Reconciled(t)) <=> Whole(t)
         /\ ChainHolds(t) => Reconciled(t) = t
<1> DEFINE e == Append(t.events, t.cur.state)
<1>1. CASE t.events # Gap /\ LastOf(t.events) # t.cur.state /\ Legal(LastOf(t.events), t.cur.state)
 <2>1. t.cur.state \in States /\ t.events \in Seq(Names) BY <1>1, LegalStates DEF Trees
 <2>2. e \in Seq(Names) /\ LastOf(e) = t.cur.state /\ e # Gap BY <2>1, LastAppended
 <2> HIDE DEF e
 <2>3. Reconciled(t) = [t EXCEPT !.events = e] BY <1>1 DEF Reconciled, e
 <2>4. /\ Reconciled(t) \in Trees /\ Reconciled(t).dir = t.dir /\ Reconciled(t).cur = t.cur
       /\ Reconciled(t).temps = t.temps /\ Reconciled(t).events = e
   BY <2>2, <2>3 DEF Trees
 <2> QED BY <1>1, <2>2, <2>4 DEF ChainHolds, Whole
<1>2. CASE ~(t.events # Gap /\ LastOf(t.events) # t.cur.state /\ Legal(LastOf(t.events), t.cur.state))
 <2>1. Reconciled(t) = t BY <1>2 DEF Reconciled
 <2> QED BY <1>2, <2>1 DEF ChainHolds, Whole
<1> QED BY <1>1, <1>2

\* A chain that holds is a whole journal.
LEMMA HoldsWhole == \A t : ChainHolds(t) => Whole(t)
BY DEF ChainHolds, Whole

\* Removal takes something away, and gives nothing.
LEMMA ShrunkTrees ==
  ASSUME NEW t \in Trees, NEW u \in Shrunk(t)
  PROVE  u \in Trees /\ u.dir = t.dir /\ (u.cur = t.cur \/ u.cur = None)
<1>1. None \in [state : Names, outcome : Outcomes \cup {"none"}] /\ 0 \in Int /\ << >> \in Seq(Names)
      /\ Gap \in Seq(Names)
  BY DEF None, Reg, Names, Gap
<1>2. CASE u = [t EXCEPT !.cur = None] \/ u = [t EXCEPT !.temps = 0] \/ u = [t EXCEPT !.events = << >>]
           \/ u = [t EXCEPT !.events = Gap]
  BY <1>1, <1>2 DEF Trees
<1>3. CASE LastOf(t.events) = "record-published"
           /\ u = [t EXCEPT !.events = SubSeq(@, 1, Len(@) - 1)]
 <2> DEFINE e == SubSeq(t.events, 1, Len(t.events) - 1)
 <2>1. e \in Seq(Names)
  <3>1. t.events \in Seq(Names) /\ Len(t.events) \in Nat BY DEF Trees
  <3>2. Len(t.events) - 1 \in Int /\ \A i \in 1 .. Len(t.events) - 1 : t.events[i] \in Names BY <3>1
  <3> QED BY <3>2, SubSeqProperties
 <2> HIDE DEF e
 <2>2. u = [t EXCEPT !.events = e] BY <1>3 DEF e
 <2> QED BY <2>1, <2>2 DEF Trees
<1> QED BY <1>2, <1>3 DEF Shrunk

----------------------------------------
(* Records of jobs and trees *)

\* Who is idle has no recipe and no attempt.
LEMMA NoJobTyped ==
  NoJob \in Jobs /\ NoJob.recipe = "none" /\ NoJob.by = "none" /\ NoJob.attempt = 0
BY AttemptAssumption DEF NoJob, Jobs, Attempts

\* A root that is not there has no registry and no events.
LEMMA NoTreeTyped ==
  /\ NoTree \in Trees /\ ~NoTree.dir /\ NoTree.cur = None /\ NoTree.events = << >>
  /\ None.state = "none" /\ None.outcome = "none"
BY DEF NoTree, Trees, None, Reg, Names

\* One field of a job is set.
LEMMA JobFields ==
  ASSUME NEW j \in Jobs
  PROVE  /\ \A s \in States \cup {"none"} :
              LET k == [j EXCEPT !.to = s] IN
                k \in Jobs /\ k.to = s /\ k.recipe = j.recipe /\ k.attempt = j.attempt /\ k.todo = j.todo
                /\ k.outcome = j.outcome /\ k.by = j.by
         /\ \A o \in Outcomes \cup {"none"} :
              LET k == [j EXCEPT !.outcome = o] IN
                k \in Jobs /\ k.outcome = o /\ k.recipe = j.recipe /\ k.attempt = j.attempt /\ k.todo = j.todo
                /\ k.to = j.to /\ k.by = j.by
         /\ \A t \in SUBSET Attempts :
              LET k == [j EXCEPT !.todo = t] IN
                k \in Jobs /\ k.todo = t /\ k.recipe = j.recipe /\ k.attempt = j.attempt
                /\ k.outcome = j.outcome /\ k.to = j.to /\ k.by = j.by
         /\ LET k == [j EXCEPT !.by = "session"] IN
                k \in Jobs /\ k.by = "session" /\ k.recipe = j.recipe /\ k.attempt = j.attempt
                /\ k.todo = j.todo /\ k.outcome = j.outcome /\ k.to = j.to
BY DEF Jobs

\* The temps of a root are set, or its events.
LEMMA TreeFields ==
  ASSUME NEW t \in Trees
  PROVE  /\ \A n \in Int :
              LET u == [t EXCEPT !.temps = n] IN
                u \in Trees /\ u.dir = t.dir /\ u.cur = t.cur /\ u.temps = n /\ u.events = t.events
         /\ \A e \in Seq(Names) :
              LET u == [t EXCEPT !.events = e] IN
                u \in Trees /\ u.dir = t.dir /\ u.cur = t.cur /\ u.temps = t.temps /\ u.events = e
BY DEF Trees

\* A registry is what its two fields say.
LEMMA RegFields ==
  /\ \A s, o : Reg(s, o).state = s /\ Reg(s, o).outcome = o
  /\ \A s, o, x, y : Reg(s, o) = Reg(x, y) <=> s = x /\ o = y
<1>1. \A s, o : Reg(s, o).state = s /\ Reg(s, o).outcome = o BY DEF Reg
<1>2. \A s, o, x, y : Reg(s, o) = Reg(x, y) => s = x /\ o = y
 <2> SUFFICES ASSUME NEW s, NEW o, NEW x, NEW y, Reg(s, o) = Reg(x, y)
              PROVE  s = x /\ o = y
   OBVIOUS
 <2> QED BY <1>1
<1> QED BY <1>1, <1>2

----------------------------------------
(* What a step leaves alone *)

\* The files of attempt a are untouched.
Untouched(a) == tree'[a] = tree[a] /\ index'[a] = index[a] /\ record'[a] = record[a]

\* Of the others p moves nobody, and takes no lock from them.
Alone(p) ==
  \A q \in Procs \ {p} :
    /\ at'[q] = at[q] /\ job'[q] = job[q]
    /\ \A r \in Recipes : recipeLock'[r] = q <=> recipeLock[r] = q
    /\ allocLock' = q <=> allocLock = q

\* It begins attempts of its own recipe only, and buries its own only.
BornAlone(p) ==
  /\ \A a \in DOMAIN recipeOf : a \in DOMAIN recipeOf' /\ recipeOf'[a] = recipeOf[a] /\ maker'[a] = maker[a]
  /\ \A a \in DOMAIN recipeOf' \ DOMAIN recipeOf : recipeOf'[a] = job[p].recipe
  /\ dead \subseteq dead' /\ \A a \in dead' \ dead : maker[a] = p

\* It touches files of its own recipe only, but for orphaned roots while it sweeps.
FilesAlone(p) ==
  \A a \in Attempts :
    \/ Untouched(a)
    \/ a \in Brothers(p) \/ a \notin DOMAIN recipeOf
    \/ at[p] = "sweep" /\ Orphaned(tree[a]) /\ tree'[a] = NoTree /\ index'[a] = index[a] /\ record'[a] = record[a]

\* A step of p leaves the others in peace.
Apart(p) == Alone(p) /\ BornAlone(p) /\ FilesAlone(p)

\* Two processes work for different recipes.
LEMMA RecipesDiffer ==
  ASSUME Typed, NEW p \in Procs, NEW q \in Procs \ {p}, LockInv(p), LockInv(q), job[p].recipe \in Recipes
  PROVE  job[q].recipe # job[p].recipe
BY DEF LockInv

\* An attempt whose files nobody touches stays as it was.
LEMMA AttemptKept ==
  ASSUME NEW a \in Attempts, AttemptInv(a), Untouched(a), dead \subseteq dead',
         a \in DOMAIN recipeOf => a \in DOMAIN recipeOf'
  PROVE  AttemptInv(a)'
<1>1. RegistryInv(a)' /\ JournalInv(a)' /\ RecordInv(a)' /\ IndexInv(a)'
  BY DEF AttemptInv, Untouched, RegistryInv, JournalInv, RecordInv, IndexInv
<1>2. BirthInv(a)' BY DEF AttemptInv, Untouched, BirthInv
<1> QED BY <1>1, <1>2 DEF AttemptInv

\* What p does to the files of another one's recipe is to sweep an orphaned root, which is
\* none that the other one works on.
LEMMA OthersFiles ==
  ASSUME IInv, NEW p \in Procs, NEW q \in Procs \ {p}, Apart(p),
         at[p] = "idle" => \A a \in Attempts : Untouched(a) /\ (a \in DOMAIN recipeOf' => a \in DOMAIN recipeOf)
  PROVE  /\ job[q].recipe # job[p].recipe \/ at[q] = "idle" \/ at[p] = "idle"
         /\ \A a \in Brothers(q) : \/ Untouched(a)
                                  \/ /\ at[p] = "sweep" /\ Orphaned(tree[a]) /\ tree'[a] = NoTree
                                     /\ index'[a] = index[a] /\ record'[a] = record[a]
         /\ at[q] \in Working \cup {"end"} => Mine(q) \in Brothers(q) /\ Mine(q) \in Attempts
         /\ at[q] \in Working /\ ~(at[q] \in {"remove", "finally"}) /\ ~(at[q] = "index" /\ job[q].to = "torn-down") =>
              Untouched(Mine(q))
         /\ at[q] \in Working => index'[Mine(q)] = index[Mine(q)] /\ record'[Mine(q)] = record[Mine(q)]
                                 /\ (Root(q) = NoTree => tree'[Mine(q)] = NoTree)
<1>1. Typed /\ ProcInv(q) /\ LockInv(p) /\ LockInv(q) BY DEF IInv, ProcInv
<1>2. job[q].recipe # job[p].recipe \/ at[q] = "idle" \/ at[p] = "idle" BY <1>1, RecipesDiffer DEF LockInv
<1>3. \A a \in Brothers(q) : \/ Untouched(a)
                             \/ /\ at[p] = "sweep" /\ Orphaned(tree[a]) /\ tree'[a] = NoTree
                                /\ index'[a] = index[a] /\ record'[a] = record[a]
 <2> SUFFICES ASSUME NEW a \in Brothers(q), at[p] # "idle"
              PROVE  \/ Untouched(a)
                     \/ /\ at[p] = "sweep" /\ Orphaned(tree[a]) /\ tree'[a] = NoTree
                        /\ index'[a] = index[a] /\ record'[a] = record[a]
   BY <1>1 DEF Brothers, Typed
 <2>1. a \in DOMAIN recipeOf /\ recipeOf[a] = job[q].recipe /\ a \in Attempts /\ recipeOf[a] \in Recipes
   BY <1>1 DEF Brothers, Typed
 <2>2. at[q] # "idle" BY <1>1, <2>1, NoJobTyped, NamesAssumption DEF LockInv
 <2>3. a \notin Brothers(p) BY <1>2, <2>1, <2>2 DEF Brothers
 <2> QED BY <2>1, <2>3 DEF Apart, FilesAlone
<1>4. at[q] \in Working \cup {"end"} => Mine(q) \in Brothers(q) /\ Mine(q) \in Attempts
  BY <1>1 DEF ProcInv, JobInv, Brothers, Typed
<1>5. at[q] \in Working /\ ~(at[q] \in {"remove", "finally"}) /\ ~(at[q] = "index" /\ job[q].to = "torn-down") =>
         Untouched(Mine(q))
 <2> SUFFICES ASSUME at[q] \in Working, ~(at[q] \in {"remove", "finally"}),
                     ~(at[q] = "index" /\ job[q].to = "torn-down"), ~Untouched(Mine(q))
              PROVE  FALSE
   OBVIOUS
 <2>1. at[p] = "sweep" /\ Orphaned(Root(q)) BY <1>3, <1>4 DEF Root
 <2>2. Root(q).cur = None BY <2>1 DEF Orphaned
 <2>3. ~Allocating(q) BY <1>1, <2>1 DEF LockInv
 <2>4. WriteInv(q) /\ EventInv(q) /\ StageInv(q) /\ JobInv(q) BY <1>1 DEF ProcInv
 <2>5. \A s, o : Reg(s, o) = None => s = "none" BY RegFields, NoTreeTyped
 <2>6. job[q].to # "none" \/ at[q] \notin Writing BY <2>4 DEF JobInv
 <2>7. at[q] \notin {"event", "index"} BY <2>2, <2>4, <2>5, <2>6 DEF EventInv, Writing
 <2>8. at[q] \notin {"write", "replace"}
  <3>1. ~Undecided(None) BY <2>5 DEF Undecided
  <3>2. at[q] \in {"write", "replace"} => job[q].to \in {"active", "finalizing", "record-published"}
   <4>1. job[q].to \in States \cup {"none"} BY <1>1 DEF Typed, Jobs
   <4> QED BY <2>3, <2>4, <2>6, <4>1 DEF WriteInv, Allocating, Writing, States
  <3> QED BY <2>2, <2>4, <2>5, <3>1, <3>2 DEF WriteInv
 <2>9. at[q] \notin {"open", "active", "finalize", "publish"} BY <2>2, <2>4, <2>5 DEF StageInv
 <2> QED BY <2>7, <2>8, <2>9 DEF Working, Writing
<1>6. at[q] \in Working => index'[Mine(q)] = index[Mine(q)] /\ record'[Mine(q)] = record[Mine(q)]
                             /\ (Root(q) = NoTree => tree'[Mine(q)] = NoTree)
  BY <1>3, <1>4 DEF Untouched, Root
<1> QED BY <1>2, <1>3, <1>4, <1>5, <1>6

\* Whatever p does, the others keep their invariant.
LEMMA OthersKept ==
  ASSUME IInv, NEW p \in Procs, NEW q \in Procs \ {p}, Apart(p),
         at[p] = "idle" => \A a \in Attempts : Untouched(a) /\ (a \in DOMAIN recipeOf' => a \in DOMAIN recipeOf)
  PROVE  ProcInv(q)'
<1>1. Typed /\ ProcInv(q) /\ LockInv(p) /\ LockInv(q) BY DEF IInv, ProcInv
<1>2. at'[q] = at[q] /\ job'[q] = job[q] BY DEF Apart, Alone
<1>3. LockInv(q)'
 <2>1. /\ \A r \in Recipes : recipeLock'[r] = q <=> recipeLock[r] = q
       /\ allocLock' = q <=> allocLock = q
   BY DEF Apart, Alone
 <2> QED BY <1>1, <1>2, <2>1 DEF LockInv, Allocating
<1>4. /\ \A a \in DOMAIN recipeOf : a \in DOMAIN recipeOf' /\ recipeOf'[a] = recipeOf[a] /\ maker'[a] = maker[a]
      /\ dead \subseteq dead' /\ \A a \in dead' \ dead : maker[a] = p
  BY DEF Apart, BornAlone
<1>5. JobInv(q)'
 <2>1. JobInv(q) BY <1>1 DEF ProcInv
 <2>2. at[q] \in Working \cup {"end"} =>
         Mine(q) \in DOMAIN recipeOf' /\ recipeOf'[Mine(q)] = job[q].recipe
   BY <1>4, <2>1 DEF JobInv
 <2>3. at[q] \in Working /\ (job[q].by = "session" \/ Allocating(q)) => maker'[Mine(q)] = q /\ Mine(q) \notin dead'
   BY <1>4, <2>1 DEF JobInv
 <2> QED BY <1>2, <2>1, <2>2, <2>3 DEF JobInv, Mine, Allocating
<1>6. OutcomeInv(q)' BY <1>1, <1>2, <1>4 DEF ProcInv, OutcomeInv, Mine
<1>7. job[q].recipe # job[p].recipe \/ at[q] = "idle" \/ at[p] = "idle" BY OthersFiles
<1>8. \A a \in Brothers(q) : \/ Untouched(a)
                             \/ /\ at[p] = "sweep" /\ Orphaned(tree[a]) /\ tree'[a] = NoTree
                                /\ index'[a] = index[a] /\ record'[a] = record[a]
  BY OthersFiles
<1>9. at[q] \in Working \cup {"end"} => Mine(q) \in Brothers(q) /\ Mine(q) \in Attempts BY OthersFiles
<1>10. at[q] \in Working /\ ~(at[q] \in {"remove", "finally"}) /\ ~(at[q] = "index" /\ job[q].to = "torn-down") =>
         Untouched(Mine(q))
  BY OthersFiles
<1>11. at[q] \in Working => index'[Mine(q)] = index[Mine(q)] /\ record'[Mine(q)] = record[Mine(q)]
                             /\ (Root(q) = NoTree => tree'[Mine(q)] = NoTree)
  BY OthersFiles
<1>12. WriteInv(q)'
 <2>1. at[q] \in {"write", "replace"} => Untouched(Mine(q)) BY <1>10 DEF Working, Writing
 <2> QED BY <1>1, <1>2, <2>1 DEF ProcInv, WriteInv, Untouched, Root, Mine
<1>13. EventInv(q)'
 <2>1. at[q] = "event" \/ (at[q] = "index" /\ job[q].to # "torn-down") => Untouched(Mine(q))
   BY <1>10 DEF Working, Writing
 <2>2. at[q] = "index" => at[q] \in Working BY DEF Working, Writing
 <2> QED BY <1>1, <1>2, <1>11, <2>1, <2>2 DEF ProcInv, EventInv, Untouched, Root, Mine
<1>14. StageInv(q)'
 <2>1. at[q] \in {"open", "active", "finalize", "publish"} => Untouched(Mine(q)) BY <1>10 DEF Working, Writing
 <2>2. job[q].by = "session" => index'[Mine(q)] = index[Mine(q)]
  <3>1. job[q].by = "session" => at[q] \in Working \cup {"end"}
   <4>1. at[q] \in Labels /\ (at[q] = "idle" => job[q].by = "none") BY <1>1, NoJobTyped DEF Typed, LockInv
   <4> QED BY <1>1, <4>1 DEF ProcInv, JobInv, Labels
  <3> QED BY <1>8, <1>9, <3>1 DEF Untouched
 <2>3. at[q] = "remove" => index'[Mine(q)] = index[Mine(q)] BY <1>11 DEF Working
 <2> QED BY <1>1, <1>2, <2>1, <2>2, <2>3 DEF ProcInv, StageInv, Untouched, Root, Mine
<1>15. SettleInv(q)'
 <2>1. Brothers(q)' = Brothers(q) \/ at[q] = "idle"
  <3> SUFFICES ASSUME at[q] # "idle" PROVE Brothers(q)' = Brothers(q) OBVIOUS
  <3>1. \A a \in DOMAIN recipeOf' : a \notin DOMAIN recipeOf => recipeOf'[a] # job[q].recipe
   <4> SUFFICES ASSUME NEW a \in DOMAIN recipeOf', a \notin DOMAIN recipeOf
                PROVE  recipeOf'[a] # job[q].recipe
     OBVIOUS
   <4>1. recipeOf'[a] = job[p].recipe BY DEF Apart, BornAlone
   <4>2. CASE at[p] = "idle"
    <5>1. job[p].recipe = "none" /\ job[q].recipe \in Recipes BY <1>1, <4>2, NoJobTyped DEF LockInv
    <5> QED BY <4>1, <5>1, NamesAssumption
   <4> QED BY <1>7, <4>1, <4>2
  <3> QED BY <1>2, <1>4, <3>1 DEF Brothers
 <2>2. \A a \in Brothers(q) : index'[a] = index[a] /\ (tree'[a].cur # None => tree[a].cur # None)
   BY <1>8, NoTreeTyped DEF Untouched
 <2>3. Published(job[q].recipe) = {a \in Brothers(q) : index[a].state = "record-published"} BY DEF Published, Brothers
 <2>4. at[q] # "idle" =>
         Published(job[q].recipe)' = {a \in Brothers(q)' : index'[a].state = "record-published"}
   BY <1>2 DEF Published, Brothers
 <2>5. SettleInv(q) BY <1>1 DEF ProcInv
 <2>6. Sweeping(q)' <=> Sweeping(q) BY <1>2 DEF Sweeping, Allocating
 <2>7. at[q] = "idle" => ~Sweeping(q) /\ at[q] \notin Working BY DEF Sweeping, Working, Writing
 <2>8. CASE at[q] = "idle" BY <1>2, <2>6, <2>7, <2>8 DEF SettleInv
 <2>9. CASE at[q] # "idle"
  <3>1. Brothers(q)' = Brothers(q) BY <2>1, <2>9
  <3>2. Sweeping(q) => \A a \in Brothers(q) : tree'[a].cur # None =>
                          a \in job[q].todo \/ (at[q] # "stale" /\ a = Mine(q))
    BY <2>2, <2>5 DEF SettleInv
  <3>3. at[q] = "teardowns" =>
          /\ job[q].todo \subseteq {a \in Brothers(q) : index'[a].state = "record-published"}
          /\ \A a \in Brothers(q) : index'[a].state \in {"none", "torn-down"} \/ a \in job[q].todo
    BY <2>2, <2>3, <2>5 DEF SettleInv, Settled
  <3>4. /\ at[q] \in {"allocate", "end"} => \A a \in Brothers(q) : index'[a].state \in {"none", "torn-down"}
        /\ at[q] \in Working /\ ~Sweeping(q) =>
             \A a \in Brothers(q) \ {Mine(q)} : index'[a].state \in {"none", "torn-down"}
    BY <2>2, <2>5 DEF SettleInv, Settled
  <3> QED BY <1>2, <2>4, <2>6, <2>9, <3>1, <3>2, <3>3, <3>4 DEF SettleInv, Settled, Mine
 <2> QED BY <2>8, <2>9
<1> QED BY <1>3, <1>5, <1>6, <1>12, <1>13, <1>14, <1>15 DEF ProcInv

----------------------------------------
(* What a step is to do, and that this is enough *)

\* While nothing has struck, p leaves no root behind, and settles nothing twice.
CalmOwn(p) ==
  trouble' = 0 =>
    /\ trouble = 0
    /\ \A a \in Attempts : tree'[a].dir => tree[a].dir \/ (at'[p] \in Working /\ job'[p].attempt = a)
    /\ at[p] \in Working => ~tree'[Mine(p)].dir \/ (at'[p] \in Working /\ job'[p].attempt = Mine(p))
    /\ at'[p] = "finally" => ~Root(p)'.dir \/ Undecided(Root(p)'.cur)
    /\ at'[p] = "finalize" => Undecided(Root(p)'.cur)
    /\ at'[p] = "publish" => record'[job'[p].attempt] = NoTree

\* What it is enough to show of a step of p
Own(p) ==
  /\ Typed' /\ Apart(p) /\ ProcInv(p)' /\ CalmOwn(p)
  /\ \A a \in Attempts : AttemptInv(a)'
  /\ at[p] = "idle" => \A a \in Attempts : Untouched(a) /\ (a \in DOMAIN recipeOf' => a \in DOMAIN recipeOf)

\* A step of p that does all this keeps the invariant.
LEMMA OwnIsEnough ==
  ASSUME IInv, NEW p \in Procs, Own(p)
  PROVE  IInv'
<1>1. \A q \in Procs \ {p} : ProcInv(q)' BY OthersKept DEF Own
<1>2. CalmInv'
 <2> SUFFICES ASSUME trouble' = 0
              PROVE  /\ \A a \in Attempts : tree'[a].dir => \E q \in Procs : at'[q] \in Working /\ Mine(q)' = a
                     /\ \A q \in Procs :
                          /\ at'[q] = "finally" => ~Root(q)'.dir \/ Undecided(Root(q)'.cur)
                          /\ at'[q] = "finalize" => Undecided(Root(q)'.cur)
                          /\ at'[q] = "publish" => record'[Mine(q)'] = NoTree
   BY DEF CalmInv, Undecided
 <2>1. CalmOwn(p) /\ trouble = 0 BY DEF Own, CalmOwn
 <2>2. CalmInv BY DEF IInv
 <2>3. \A q \in Procs \ {p} : at'[q] = at[q] /\ job'[q] = job[q] BY DEF Own, Apart, Alone
 <2>4. ASSUME NEW a \in Attempts, tree'[a].dir
       PROVE  \E q \in Procs : at'[q] \in Working /\ Mine(q)' = a
  <3>1. CASE at'[p] \in Working /\ job'[p].attempt = a BY <3>1 DEF Mine
  <3>2. CASE ~(at'[p] \in Working /\ job'[p].attempt = a)
   <4>1. tree[a].dir BY <2>1, <2>4, <3>2 DEF CalmOwn
   <4>2. PICK q \in Procs : at[q] \in Working /\ Mine(q) = a BY <2>1, <2>2, <4>1 DEF CalmInv
   <4>3. q # p BY <2>1, <2>4, <3>2, <4>2 DEF CalmOwn
   <4> QED BY <2>3, <4>2, <4>3 DEF Mine
  <3> QED BY <3>1, <3>2
 <2>5. ASSUME NEW q \in Procs
       PROVE  /\ at'[q] = "finally" => ~Root(q)'.dir \/ Undecided(Root(q)'.cur)
              /\ at'[q] = "finalize" => Undecided(Root(q)'.cur)
              /\ at'[q] = "publish" => record'[Mine(q)'] = NoTree
  <3>1. CASE q = p BY <2>1, <3>1 DEF CalmOwn, Mine
  <3>2. CASE q # p
   <4>1. at'[q] = at[q] /\ job'[q] = job[q] /\ Mine(q)' = Mine(q) /\ q \in Procs \ {p} BY <2>3, <3>2 DEF Mine
   <4>2. /\ at[q] = "finally" => ~Root(q).dir \/ Undecided(Root(q).cur)
         /\ at[q] = "finalize" => Undecided(Root(q).cur)
         /\ at[q] = "publish" => record[Mine(q)] = NoTree
     BY <2>1, <2>2 DEF CalmInv
   <4>3. /\ \A a \in Brothers(q) : Untouched(a) \/ tree'[a] = NoTree
         /\ at[q] \in Working => Mine(q) \in Brothers(q) /\ record'[Mine(q)] = record[Mine(q)]
         /\ at[q] = "finalize" => Untouched(Mine(q))
    <5>1. at[q] = "finalize" => at[q] \in Working /\ ~(at[q] \in {"remove", "finally"})
                                /\ ~(at[q] = "index" /\ job[q].to = "torn-down")
      BY DEF Working
    <5> QED BY <4>1, <5>1, OthersFiles DEF Own
   <4>4. at'[q] = "finally" => ~Root(q)'.dir \/ Undecided(Root(q)'.cur)
     BY <4>1, <4>2, <4>3, NoTreeTyped DEF Root, Untouched, Working
   <4>5. at'[q] = "finalize" => Undecided(Root(q)'.cur) BY <4>1, <4>2, <4>3 DEF Root, Untouched
   <4>6. at'[q] = "publish" => record'[Mine(q)'] = NoTree BY <4>1, <4>2, <4>3 DEF Working
   <4> QED BY <4>4, <4>5, <4>6
  <3> QED BY <3>1, <3>2
 <2> QED BY <2>4, <2>5
<1> QED BY <1>1, <1>2 DEF Own, IInv

----------------------------------------
(* Steps of a process: what they all do *)

\* The variables of processes and locks keep to their ranges.
ProcTyped ==
  /\ at \in [Procs -> Labels] /\ job \in [Procs -> Jobs] /\ why \in [Procs -> Reasons]
  /\ recipeLock \in [Recipes -> Procs \cup {Nobody}] /\ allocLock \in Procs \cup {Nobody}

\* Who leaves has nothing any more.
LEMMA Left ==
  ASSUME Typed, NEW p \in Procs, LockInv(p), NEW reason \in Reasons, Leave(p, reason)
  PROVE  ProcTyped' /\ Alone(p) /\ at'[p] = "idle" /\ job'[p] = NoJob /\ ProcInv(p)'
<1>1. /\ at' = [at EXCEPT ![p] = "idle"] /\ job' = [job EXCEPT ![p] = NoJob]
      /\ why' = [why EXCEPT ![p] = reason]
      /\ recipeLock' = [r \in Recipes |-> IF recipeLock[r] = p THEN Nobody ELSE recipeLock[r]]
      /\ allocLock' = IF allocLock = p THEN Nobody ELSE allocLock
  BY DEF Leave, Goto, Set, Unlock
<1>2. ProcTyped' BY <1>1, NoJobTyped DEF Typed, ProcTyped, Labels
<1>3. at'[p] = "idle" /\ job'[p] = NoJob /\ \A q \in Procs \ {p} : at'[q] = at[q] /\ job'[q] = job[q] BY <1>1 DEF Typed
<1>4. Alone(p) BY <1>1, <1>3, NamesAssumption DEF Alone
<1>5. LockInv(p)'
 <2>1. /\ \A r \in Recipes : recipeLock'[r] # p
       /\ allocLock' # p
   BY <1>1, NamesAssumption
 <2>2. \A r \in Recipes : job'[p].recipe # r BY <1>3, NoJobTyped, NamesAssumption
 <2> QED BY <1>3, <2>1, <2>2 DEF LockInv, Allocating, Writing
<1>6. JobInv(p)' /\ OutcomeInv(p)' /\ WriteInv(p)' /\ EventInv(p)' /\ StageInv(p)' /\ SettleInv(p)'
 <2>1. at'[p] \notin Working /\ at'[p] \notin Writing /\ job'[p].by = "none" BY <1>3, NoJobTyped DEF Working, Writing
 <2>2. JobInv(p)' /\ OutcomeInv(p)' BY <1>3, <2>1 DEF JobInv, OutcomeInv, Allocating, Working
 <2>3. WriteInv(p)' /\ EventInv(p)' /\ StageInv(p)' BY <1>3, <2>1 DEF WriteInv, EventInv, StageInv
 <2>4. SettleInv(p)' BY <1>3, <2>1 DEF SettleInv, Sweeping
 <2> QED BY <2>2, <2>3, <2>4
<1> QED BY <1>2, <1>3, <1>4, <1>5, <1>6 DEF ProcInv

\* Who goes on with a job changes nothing of the others.
LEMMA Went ==
  ASSUME Typed, NEW p \in Procs, NEW l \in Labels, NEW j \in Jobs,
         Goto(p, l), Set(p, j), UNCHANGED <<why, lockVars>>
  PROVE  ProcTyped' /\ Alone(p) /\ at'[p] = l /\ job'[p] = j
<1>1. /\ at' = [at EXCEPT ![p] = l] /\ job' = [job EXCEPT ![p] = j]
      /\ UNCHANGED <<why, recipeLock, allocLock>>
  BY DEF Goto, Set, lockVars
<1>2. at'[p] = l /\ job'[p] = j /\ \A q \in Procs \ {p} : at'[q] = at[q] /\ job'[q] = job[q] BY <1>1 DEF Typed
<1>3. ProcTyped' BY <1>1 DEF Typed, ProcTyped
<1>4. Alone(p) BY <1>1, <1>2 DEF Alone
<1> QED BY <1>2, <1>3, <1>4

\* To leave the job as it is, is to set it to what it is.
LEMMA SetSame ==
  ASSUME Typed, NEW p \in Procs
  PROVE  /\ job[p] \in Jobs /\ (UNCHANGED job => Set(p, job[p]))
         /\ at[p] \in Labels /\ (UNCHANGED at => Goto(p, at[p]))
BY DEF Typed, Set, Goto

\* The locks are as the labels say if they were.
LEMMA LocksKept ==
  ASSUME NEW p \in Procs, LockInv(p), UNCHANGED lockVars, at[p] # "idle", at'[p] # "idle",
         job'[p].recipe = job[p].recipe, job'[p].by # "none",
         (at'[p] = "sweep" \/ Allocating(p)') <=> (at[p] = "sweep" \/ Allocating(p))
  PROVE  LockInv(p)'
<1>1. recipeLock' = recipeLock /\ allocLock' = allocLock BY DEF lockVars
<1>2. job'[p].recipe \in Recipes /\ job'[p] # NoJob BY NoJobTyped DEF LockInv
<1> QED BY <1>1, <1>2 DEF LockInv

\* A step that touches no file keeps every attempt.
LEMMA Quiet ==
  ASSUME IInv, NEW p \in Procs, ProcTyped', UNCHANGED <<bornVars, storeVars>>, trouble' = trouble
  PROVE  /\ Typed' /\ BornAlone(p) /\ FilesAlone(p) /\ \A a \in Attempts : AttemptInv(a)' /\ Untouched(a)
         /\ at[p] = "idle" => \A a \in Attempts : Untouched(a) /\ (a \in DOMAIN recipeOf' => a \in DOMAIN recipeOf)
<1>1. UNCHANGED <<recipeOf, maker, dead, tree, index, record>> BY DEF bornVars, storeVars
<1>2. Typed' BY <1>1 DEF IInv, Typed, ProcTyped
<1>3. \A a \in Attempts : Untouched(a) BY <1>1 DEF Untouched
<1>4. \A a \in Attempts : AttemptInv(a)' BY <1>1, <1>3, AttemptKept DEF IInv
<1> QED BY <1>1, <1>2, <1>3, <1>4 DEF BornAlone, FilesAlone

\* What the invariant says of p and its attempt
LEMMA InvOf ==
  ASSUME IInv, NEW p \in Procs
  PROVE  /\ Typed /\ LockInv(p) /\ JobInv(p) /\ OutcomeInv(p) /\ WriteInv(p) /\ EventInv(p)
         /\ StageInv(p) /\ SettleInv(p) /\ CalmInv
         /\ job[p] \in Jobs /\ at[p] \in Labels
         /\ at[p] \in Working \cup {"end"} =>
              /\ Mine(p) \in DOMAIN recipeOf /\ recipeOf[Mine(p)] = job[p].recipe /\ Mine(p) \in Attempts
              /\ Mine(p) \in Brothers(p) /\ Root(p) \in Trees /\ record[Mine(p)] \in Trees
              /\ AttemptInv(Mine(p))
<1>1. /\ Typed /\ LockInv(p) /\ JobInv(p) /\ OutcomeInv(p) /\ WriteInv(p) /\ EventInv(p)
      /\ StageInv(p) /\ SettleInv(p) /\ CalmInv
  BY DEF IInv, ProcInv
<1>2. job[p] \in Jobs /\ at[p] \in Labels BY <1>1 DEF Typed
<1>3. at[p] \in Working \cup {"end"} =>
        /\ Mine(p) \in DOMAIN recipeOf /\ recipeOf[Mine(p)] = job[p].recipe /\ Mine(p) \in Attempts
        /\ Mine(p) \in Brothers(p)
  BY <1>1 DEF JobInv, Brothers, Typed
<1>4. Mine(p) \in Attempts => Root(p) \in Trees /\ record[Mine(p)] \in Trees /\ AttemptInv(Mine(p))
  BY <1>1 DEF Root, Typed, IInv
<1> QED BY <1>1, <1>2, <1>3, <1>4

----------------------------------------
(* Beginning, sweeping, listing *)

\* A call that begins has the lock of its recipe, and nothing in hand.
LEMMA BeginStep ==
  ASSUME IInv, NEW p \in Procs, Begin(p)
  PROVE  Own(p)
<1>1. Typed /\ LockInv(p) BY DEF IInv, ProcInv
<1>2. PICK r \in Recipes : /\ recipeLock[r] = Nobody /\ recipeLock' = [recipeLock EXCEPT ![r] = p]
                           /\ Set(p, [NoJob EXCEPT !.recipe = r, !.by = "begin"])
  BY Zenon DEF Begin
<1> DEFINE j == [NoJob EXCEPT !.recipe = r, !.by = "begin"]
<1>3. j \in Jobs /\ j.recipe = r /\ j.by = "begin"
 <2>1. \A n \in Jobs : LET k == [n EXCEPT !.recipe = r, !.by = "begin"] IN
                         k \in Jobs /\ k.recipe = r /\ k.by = "begin"
   BY DEF Jobs
 <2> QED BY <2>1, NoJobTyped
<1> HIDE DEF j
<1>4. /\ at[p] = "idle" /\ at' = [at EXCEPT ![p] = "sweep lock"] /\ why' = [why EXCEPT ![p] = "none"]
      /\ job' = [job EXCEPT ![p] = j] /\ allocLock' = allocLock
      /\ UNCHANGED <<bornVars, storeVars>> /\ trouble' = trouble
  BY <1>2 DEF Begin, At, Goto, Set, j
<1>5. at'[p] = "sweep lock" /\ job'[p] = j /\ \A q \in Procs \ {p} : at'[q] = at[q] /\ job'[q] = job[q]
  BY <1>1, <1>4 DEF Typed
<1>6. ProcTyped' BY <1>1, <1>2, <1>3, <1>4 DEF Typed, ProcTyped, Labels, Reasons
<1>7. Alone(p) BY <1>1, <1>2, <1>4, <1>5, NamesAssumption DEF Alone, Typed
<1>8. job[p] = NoJob /\ (\A x \in Recipes : recipeLock[x] # p) /\ allocLock # p
 <2>1. job[p] = NoJob BY <1>1, <1>4 DEF LockInv
 <2>2. \A x \in Recipes : recipeLock[x] # p BY <1>1, <2>1, NoJobTyped, NamesAssumption DEF LockInv
 <2>3. allocLock # p BY <1>1, <1>4 DEF LockInv, Allocating, Writing
 <2> QED BY <2>1, <2>2, <2>3
<1>9. LockInv(p)'
 <2>1. j # NoJob BY <1>3, NoJobTyped
 <2>2. \A x \in Recipes : recipeLock'[x] = p <=> x = r BY <1>1, <1>2, <1>8 DEF Typed
 <2> QED BY <1>3, <1>4, <1>5, <1>8, <2>1, <2>2 DEF LockInv, Allocating, Writing
<1>10. ProcInv(p)'
 <2>1. JobInv(p)' /\ OutcomeInv(p)' /\ WriteInv(p)' /\ EventInv(p)' /\ StageInv(p)'
   BY <1>3, <1>5 DEF JobInv, OutcomeInv, WriteInv, EventInv, StageInv, Allocating, Writing, Working
 <2>2. SettleInv(p)' BY <1>5 DEF SettleInv, Sweeping, Working, Writing
 <2> QED BY <1>9, <2>1, <2>2 DEF ProcInv
<1>11. CalmOwn(p) BY <1>4, <1>5 DEF CalmOwn, Working, Writing, storeVars
<1> QED BY <1>4, <1>6, <1>7, <1>10, <1>11, Quiet DEF Own, Apart

----------------------------------------
(* Steps that touch no file *)

\* A label outside of any work on an attempt asks little of the invariant.
LEMMA Restful ==
  ASSUME NEW p \in Procs, at'[p] \notin Working, job'[p].by = "session" => index'[Mine(p)'] # None
  PROVE  OutcomeInv(p)' /\ WriteInv(p)' /\ EventInv(p)' /\ StageInv(p)'
<1>1. OutcomeInv(p)' BY DEF OutcomeInv, Working, Writing
<1>2. WriteInv(p)' BY DEF WriteInv, Working, Writing
<1>3. EventInv(p)' BY DEF EventInv, Working, Writing
<1>4. StageInv(p)' BY DEF StageInv, Working, Writing
<1> QED BY <1>1, <1>2, <1>3, <1>4

\* It is enough for a step that touches no file to look after its own process.
LEMMA QuietOwn ==
  ASSUME IInv, NEW p \in Procs, ProcTyped', Alone(p), ProcInv(p)', CalmOwn(p),
         UNCHANGED <<bornVars, storeVars, trouble>>
  PROVE  Own(p)
<1>1. UNCHANGED <<bornVars, storeVars>> /\ trouble' = trouble OBVIOUS
<1> QED BY <1>1, Quiet DEF Own, Apart

\* While nothing has struck, p keeps its root in hand, or the root is gone.
LEMMA QuietCalm ==
  ASSUME NEW p \in Procs, UNCHANGED <<bornVars, storeVars, trouble>>,
         trouble = 0 =>
           /\ at[p] \in Working => ~Root(p).dir \/ (at'[p] \in Working /\ job'[p].attempt = Mine(p))
           /\ at'[p] = "finally" => ~Root(p)'.dir \/ Undecided(Root(p)'.cur)
           /\ at'[p] = "finalize" => Undecided(Root(p)'.cur)
           /\ at'[p] = "publish" => record[job'[p].attempt] = NoTree
  PROVE  CalmOwn(p)
BY DEF CalmOwn, storeVars, Root

\* To leave is such a step, but not from a root that is still there.
LEMMA QuietLeave ==
  ASSUME IInv, NEW p \in Procs, NEW reason \in Reasons, Leave(p, reason),
         UNCHANGED <<bornVars, storeVars, trouble>>,
         at[p] \in Working /\ trouble = 0 => ~Root(p).dir
  PROVE  Own(p)
<1>1. Typed /\ LockInv(p) BY InvOf
<1>2. ProcTyped' /\ Alone(p) /\ at'[p] = "idle" /\ ProcInv(p)' BY <1>1, Left
<1>3. CalmOwn(p) BY <1>2, QuietCalm
<1> QED BY <1>2, <1>3, QuietOwn

\* The allocation lock is taken for the sweep, or the call is refused.
LEMMA SweepLockStep ==
  ASSUME IInv, NEW p \in Procs, SweepLock(p)
  PROVE  Own(p)
<1>1. at[p] = "sweep lock" /\ UNCHANGED <<bornVars, storeVars, trouble>> BY DEF SweepLock, At
<1>2. CASE allocLock # Nobody
 <2>1. Leave(p, "busy") /\ at[p] \notin Working /\ "busy" \in Reasons
   BY <1>1, <1>2 DEF SweepLock, Working, Writing, Reasons
 <2> QED BY <1>1, <2>1, QuietLeave
<1>3. CASE allocLock = Nobody
 <2> DEFINE j == [job[p] EXCEPT !.todo = Roots]
 <2>1. Typed /\ LockInv(p) /\ JobInv(p) /\ job[p] \in Jobs BY InvOf
 <2>2. j \in Jobs /\ j.recipe = job[p].recipe /\ j.by = job[p].by /\ j.attempt = job[p].attempt
   BY <2>1, JobFields DEF Roots
 <2> HIDE DEF j
 <2>3. /\ at' = [at EXCEPT ![p] = "sweep"] /\ job' = [job EXCEPT ![p] = j] /\ allocLock' = p
       /\ UNCHANGED <<why, recipeLock>>
   BY <1>3 DEF SweepLock, Goto, Set, j
 <2>4. at'[p] = "sweep" /\ job'[p] = j /\ \A q \in Procs \ {p} : at'[q] = at[q] /\ job'[q] = job[q]
   BY <2>1, <2>3 DEF Typed
 <2>5. ProcTyped' BY <2>1, <2>2, <2>3 DEF Typed, ProcTyped, Labels
 <2>6. Alone(p) BY <1>3, <2>3, <2>4, NamesAssumption DEF Alone
 <2>7. job[p].recipe \in Recipes /\ job[p].by = "begin" /\ j # NoJob
   BY <1>1, <2>1, <2>2, NoJobTyped, NamesAssumption DEF LockInv, JobInv
 <2>8. LockInv(p)'
  <3>1. \A r \in Recipes : recipeLock'[r] = p <=> job'[p].recipe = r BY <2>1, <2>2, <2>3, <2>4 DEF LockInv
  <3>2. allocLock' = p /\ at'[p] = "sweep" BY <2>3, <2>4
  <3> QED BY <2>2, <2>4, <2>7, <3>1, <3>2 DEF LockInv
 <2>9. JobInv(p)' /\ SettleInv(p)' BY <2>2, <2>4, <2>7 DEF JobInv, SettleInv, Sweeping, Allocating, Working, Writing
 <2>10. at'[p] \notin Working /\ at[p] \notin Working BY <1>1, <2>4 DEF Working, Writing
 <2>11. OutcomeInv(p)' /\ WriteInv(p)' /\ EventInv(p)' /\ StageInv(p)' BY <2>2, <2>4, <2>7, <2>10, Restful
 <2>12. CalmOwn(p) BY <1>1, <2>4, <2>10, QuietCalm
 <2> QED BY <1>1, <2>5, <2>6, <2>8, <2>9, <2>11, <2>12, QuietOwn DEF ProcInv
<1> QED BY <1>2, <1>3

\* Every root there is now is listed, those of the recipe among them.
LEMMA ListStaleStep ==
  ASSUME IInv, NEW p \in Procs, ListStale(p)
  PROVE  Own(p)
<1>1. at[p] = "sweep" /\ UNCHANGED <<bornVars, storeVars, trouble>> BY DEF ListStale, At
<1> DEFINE j == [job[p] EXCEPT !.todo = Roots]
<1>2. Typed /\ LockInv(p) /\ JobInv(p) /\ job[p] \in Jobs BY InvOf
<1>3. j \in Jobs /\ j.recipe = job[p].recipe /\ j.by = job[p].by /\ j.attempt = job[p].attempt /\ j.todo = Roots
 <2>1. Roots \in SUBSET Attempts BY DEF Roots
 <2> QED BY <1>2, <2>1, JobFields
<1> HIDE DEF j
<1>4. /\ at' = [at EXCEPT ![p] = "stale"] /\ job' = [job EXCEPT ![p] = j] /\ allocLock = p
      /\ allocLock' = Nobody /\ UNCHANGED <<why, recipeLock>>
  BY <1>1, <1>2 DEF ListStale, Goto, Set, j, LockInv
<1>5. at'[p] = "stale" /\ job'[p] = j /\ \A q \in Procs \ {p} : at'[q] = at[q] /\ job'[q] = job[q]
  BY <1>2, <1>4 DEF Typed
<1>6. ProcTyped' BY <1>2, <1>3, <1>4 DEF Typed, ProcTyped, Labels
<1>7. Alone(p) BY <1>4, <1>5, NamesAssumption DEF Alone
<1>8. job[p].recipe \in Recipes /\ job[p].by = "begin" /\ j # NoJob
  BY <1>1, <1>2, <1>3, NoJobTyped, NamesAssumption DEF LockInv, JobInv
<1>9. LockInv(p)' BY <1>1, <1>2, <1>3, <1>4, <1>5, <1>8, NamesAssumption DEF LockInv, Allocating, Writing
<1>10. JobInv(p)' BY <1>3, <1>5, <1>8 DEF JobInv, Allocating, Working, Writing
<1>11. at'[p] \notin Working /\ at[p] \notin Working BY <1>1, <1>5 DEF Working, Writing
<1>12. SettleInv(p)'
 <2>1. UNCHANGED <<recipeOf, tree, index>> BY <1>1 DEF bornVars, storeVars
 <2>2. \A a \in Brothers(p)' : a \in Attempts BY <1>2, <2>1 DEF Brothers, Typed
 <2>3. \A a \in Attempts : tree[a].cur # None => a \in Roots BY NoTreeTyped DEF IInv, AttemptInv, JournalInv, Roots
 <2> QED BY <1>3, <1>5, <1>11, <2>1, <2>2, <2>3 DEF SettleInv
<1>13. OutcomeInv(p)' /\ WriteInv(p)' /\ EventInv(p)' /\ StageInv(p)' BY <1>3, <1>5, <1>8, <1>11, Restful
<1>14. CalmOwn(p) BY <1>1, <1>5, <1>11, QuietCalm
<1> QED BY <1>1, <1>6, <1>7, <1>9, <1>10, <1>12, <1>13, <1>14, QuietOwn DEF ProcInv

\* A step that takes no lock and releases none, of a process that goes on.
LEMMA Moved ==
  ASSUME IInv, NEW p \in Procs, NEW l \in Labels \ {"idle", "sweep"}, NEW j \in Jobs,
         Goto(p, l), Set(p, j), UNCHANGED <<why, lockVars>>, at[p] \notin {"idle", "sweep"},
         j.recipe = job[p].recipe, j.by # "none",
         (l \in Writing /\ j.to = "allocated") <=> Allocating(p)
  PROVE  ProcTyped' /\ Alone(p) /\ at'[p] = l /\ job'[p] = j /\ LockInv(p)'
<1>1. Typed /\ LockInv(p) BY InvOf
<1>2. ProcTyped' /\ Alone(p) /\ at'[p] = l /\ job'[p] = j BY <1>1, Went
<1>3. Allocating(p)' <=> Allocating(p) BY <1>2 DEF Allocating
<1>4. UNCHANGED lockVars /\ at[p] # "idle" /\ at'[p] # "idle" /\ at'[p] # "sweep" /\ at[p] # "sweep" BY <1>2
<1>5. LockInv(p)' BY <1>1, <1>2, <1>3, <1>4, LocksKept
<1> QED BY <1>2, <1>5

\* A root without a registry is passed over, and none is left out by it.
LEMMA StaleCheckStep ==
  ASSUME IInv, NEW p \in Procs, StaleCheck(p)
  PROVE  Own(p)
<1>1. at[p] = "stale" /\ UNCHANGED <<why, lockVars>> /\ UNCHANGED <<bornVars, storeVars, trouble>>
  BY DEF StaleCheck, At
<1>2. PICK a \in job[p].todo : /\ Set(p, [job[p] EXCEPT !.todo = @ \ {a}, !.attempt = a])
                               /\ IF tree[a].cur = None THEN UNCHANGED at ELSE Goto(p, "stale read")
  BY Zenon DEF StaleCheck
<1> DEFINE j == [job[p] EXCEPT !.todo = @ \ {a}, !.attempt = a]
<1>3. Typed /\ LockInv(p) /\ JobInv(p) /\ SettleInv(p) /\ job[p] \in Jobs /\ at[p] \in Labels BY InvOf
<1>4. a \in Attempts /\ a \in 0 .. MaxAttempts BY <1>3, AttemptAssumption DEF Jobs, Attempts
<1>5. j \in Jobs /\ j.recipe = job[p].recipe /\ j.by = job[p].by /\ j.attempt = a /\ j.todo = job[p].todo \ {a}
  BY <1>3, <1>4 DEF Jobs
<1> HIDE DEF j
<1>6. PICK l \in {"stale", "stale read"} : Goto(p, l) /\ (l = "stale" <=> tree[a].cur = None)
 <2>1. CASE tree[a].cur = None BY <1>1, <1>2, <1>3, <2>1, SetSame
 <2>2. CASE tree[a].cur # None BY <1>2, <2>2
 <2> QED BY <2>1, <2>2
<1>7. Set(p, j) /\ l \in Labels \ {"idle", "sweep"} /\ job[p].by = "begin" /\ ~Allocating(p) /\ l \notin Writing
  BY <1>1, <1>2, <1>3, <1>6 DEF j, Labels, JobInv, Allocating, Writing
<1>8. ProcTyped' /\ Alone(p) /\ at'[p] = l /\ job'[p] = j /\ LockInv(p)' BY <1>1, <1>5, <1>6, <1>7, Moved
<1>9. JobInv(p)' BY <1>4, <1>5, <1>7, <1>8 DEF JobInv, Allocating, Working, Writing, Mine
<1>10. at'[p] \notin Working /\ at[p] \notin Working BY <1>1, <1>8 DEF Working, Writing
<1>11. SettleInv(p)'
 <2>1. UNCHANGED <<recipeOf, tree, index>> /\ Brothers(p)' = Brothers(p)
   BY <1>1, <1>5, <1>8 DEF bornVars, storeVars, Brothers
 <2>2. \A b \in Brothers(p) : tree[b].cur # None => b \in job[p].todo BY <1>1, <1>3 DEF SettleInv, Sweeping
 <2> QED BY <1>5, <1>6, <1>8, <1>10, <2>1, <2>2 DEF SettleInv, Mine
<1>12. OutcomeInv(p)' /\ WriteInv(p)' /\ EventInv(p)' /\ StageInv(p)' BY <1>5, <1>7, <1>8, <1>10, Restful
<1>13. CalmOwn(p) BY <1>1, <1>8, <1>10, QuietCalm
<1> QED BY <1>1, <1>8, <1>9, <1>11, <1>12, <1>13, QuietOwn DEF ProcInv

\* The attempts of p's recipe that have no registry are settled, or the index has them
\* as recorded.
LEMMA SettledOrPublished ==
  ASSUME IInv, NEW p \in Procs, NEW a \in Brothers(p), tree[a].cur = None
  PROVE  Settled(a) \/ a \in Published(job[p].recipe)
<1>1. a \in DOMAIN recipeOf /\ recipeOf[a] = job[p].recipe /\ a \in Attempts BY InvOf DEF Brothers, Typed
<1>2. index[a].state \in Names \cup {"torn-down"} /\ IndexInv(a) BY <1>1 DEF IInv, Typed, AttemptInv
<1>3. index[a].state \in {"none", "torn-down", "record-published"} BY <1>2 DEF IndexInv, Names, States
<1> QED BY <1>1, <1>3 DEF Settled, Published

\* When no registry of the recipe is left, what is not settled is recorded.
LEMMA ListTeardownsStep ==
  ASSUME IInv, NEW p \in Procs, ListTeardowns(p)
  PROVE  Own(p)
<1> DEFINE todo == Published(job[p].recipe)
           j == [job[p] EXCEPT !.todo = todo]
<1>1. at[p] = "stale" /\ job[p].todo = {} /\ UNCHANGED <<why, lockVars>> /\ UNCHANGED <<bornVars, storeVars, trouble>>
      /\ Goto(p, "teardowns") /\ Set(p, j)
  BY DEF ListTeardowns, At
<1>2. Typed /\ LockInv(p) /\ JobInv(p) /\ SettleInv(p) /\ job[p] \in Jobs BY InvOf
<1>3. j \in Jobs /\ j.recipe = job[p].recipe /\ j.by = job[p].by /\ j.todo = todo
 <2>1. todo \in SUBSET Attempts BY <1>2 DEF Published, Typed
 <2> QED BY <1>2, <2>1, JobFields
<1> HIDE DEF j, todo
<1>4. job[p].by = "begin" /\ ~Allocating(p) /\ "teardowns" \in Labels \ {"idle", "sweep"} /\ "teardowns" \notin Working
      /\ "teardowns" \notin Writing
  BY <1>1, <1>2 DEF Labels, JobInv, Allocating, Writing, Working
<1>5. ProcTyped' /\ Alone(p) /\ at'[p] = "teardowns" /\ job'[p] = j /\ LockInv(p)' BY <1>1, <1>3, <1>4, Moved
<1>6. JobInv(p)' BY <1>3, <1>4, <1>5 DEF JobInv, Allocating, Working
<1>7. SettleInv(p)'
 <2>1. UNCHANGED <<recipeOf, tree, index>> /\ Brothers(p)' = Brothers(p)
   BY <1>1, <1>3, <1>5 DEF bornVars, storeVars, Brothers
 <2>2. \A a \in Brothers(p) : tree[a].cur = None BY <1>1, <1>2 DEF SettleInv, Sweeping
 <2>3. \A a \in Brothers(p) : Settled(a) \/ a \in todo BY <2>2, SettledOrPublished DEF todo
 <2>4. Published(job[p].recipe)' = todo BY <1>3, <1>5, <2>1 DEF Published, todo
 <2>5. \A a : Settled(a)' <=> Settled(a) BY <2>1 DEF Settled
 <2> QED BY <1>3, <1>4, <1>5, <2>1, <2>3, <2>4, <2>5 DEF SettleInv, Sweeping
<1>8. OutcomeInv(p)' /\ WriteInv(p)' /\ EventInv(p)' /\ StageInv(p)' BY <1>3, <1>4, <1>5, Restful
<1>9. CalmOwn(p)
 <2>1. at[p] \notin Working BY <1>1 DEF Working, Writing
 <2> QED BY <1>1, <1>5, <2>1, QuietCalm
<1> QED BY <1>1, <1>5, <1>6, <1>7, <1>8, <1>9, QuietOwn DEF ProcInv

\* When every entry is closed, the recipe is settled.
LEMMA TornDownStep ==
  ASSUME IInv, NEW p \in Procs, TornDown(p)
  PROVE  Own(p)
<1>1. at[p] = "teardowns" /\ job[p].todo = {} /\ UNCHANGED <<bornVars, storeVars, trouble>> BY DEF TornDown, At
<1>2. Typed /\ LockInv(p) /\ JobInv(p) /\ SettleInv(p) /\ job[p] \in Jobs BY InvOf
<1>3. at[p] \notin Working /\ "none" \in Reasons BY <1>1 DEF Working, Writing, Reasons
<1>4. CASE job[p].by # "begin"
 <2>1. Leave(p, "none") BY <1>4 DEF TornDown
 <2> QED BY <1>1, <1>3, <2>1, QuietLeave
<1>5. CASE job[p].by = "begin"
 <2>1. Goto(p, "allocate") /\ UNCHANGED job /\ UNCHANGED <<why, lockVars>> BY <1>5 DEF TornDown
 <2>2. "allocate" \in Labels \ {"idle", "sweep"} /\ "allocate" \notin Working /\ ~Allocating(p) /\ Set(p, job[p])
       /\ "allocate" \notin Writing
   BY <1>1, <1>2, <2>1, SetSame DEF Labels, Working, Writing, Allocating
 <2>3. ProcTyped' /\ Alone(p) /\ at'[p] = "allocate" /\ job'[p] = job[p] /\ LockInv(p)'
   BY <1>1, <1>2, <1>5, <2>1, <2>2, Moved
 <2>4. JobInv(p)' BY <1>5, <2>2, <2>3 DEF JobInv, Allocating
 <2>5. SettleInv(p)'
  <3>1. UNCHANGED <<recipeOf, tree, index>> /\ Brothers(p)' = Brothers(p)
    BY <1>1, <2>3 DEF bornVars, storeVars, Brothers
  <3>2. \A a : Settled(a)' <=> Settled(a) BY <3>1 DEF Settled
  <3> QED BY <1>1, <1>2, <2>2, <2>3, <3>1, <3>2 DEF SettleInv, Sweeping
 <2>6. OutcomeInv(p)' /\ WriteInv(p)' /\ EventInv(p)' /\ StageInv(p)' BY <1>5, <2>2, <2>3, Restful
 <2>7. CalmOwn(p) BY <1>1, <1>3, <2>3, QuietCalm
 <2> QED BY <1>1, <2>3, <2>4, <2>5, <2>6, <2>7, QuietOwn DEF ProcInv
<1> QED BY <1>4, <1>5

\* A call ends.
LEMMA EndStep ==
  ASSUME IInv, NEW p \in Procs, End(p)
  PROVE  Own(p)
<1>1. at[p] = "end" /\ Leave(p, "none") /\ UNCHANGED <<bornVars, storeVars, trouble>> BY DEF End, At
<1>2. at[p] \notin Working /\ "none" \in Reasons BY <1>1 DEF Working, Writing, Reasons
<1> QED BY <1>1, <1>2, QuietLeave

----------------------------------------
(* Steps of a session *)

\* What the invariant asks of the job of a process that works on its attempt, if the
\* attempt is the same as before and no owner died.
LEMMA SameJob ==
  ASSUME IInv, NEW p \in Procs, at[p] \in Working, at'[p] \in Working \cup {"end"},
         UNCHANGED <<bornVars>>, job'[p].recipe = job[p].recipe, job'[p].attempt = job[p].attempt,
         at'[p] \in {"open", "active", "finally"} => job'[p].by = "session",
         at'[p] = "end" => job'[p].by # "begin",
         at'[p] \in Writing => job'[p].to # "none",
         Allocating(p)' => job'[p].by = "begin",
         at'[p] \in Writing /\ job'[p].to = "active" => job'[p].by = "session",
         job'[p].by = "session" \/ Allocating(p)' => job[p].by = "session" \/ Allocating(p)
  PROVE  JobInv(p)'
<1>1. JobInv(p) /\ UNCHANGED <<recipeOf, maker, dead>> /\ Mine(p)' = Mine(p) BY InvOf DEF bornVars, Mine
<1>2. at'[p] \notin {"sweep lock", "sweep", "stale", "stale read", "allocate", "teardowns"} BY DEF Working, Writing
<1>3. Mine(p) \in DOMAIN recipeOf /\ recipeOf[Mine(p)] = job[p].recipe BY <1>1 DEF JobInv
<1>4. at'[p] \in Working /\ (job'[p].by = "session" \/ Allocating(p)') => maker[Mine(p)] = p /\ Mine(p) \notin dead
  BY <1>1 DEF JobInv
<1> QED BY <1>1, <1>2, <1>3, <1>4 DEF JobInv

\* What it asks of the attempts of the recipe, if nobody touched the index entries of the
\* others and p does not begin to sweep.
LEMMA SameBrothers ==
  ASSUME IInv, NEW p \in Procs, at[p] \in Working, at'[p] \in Working \cup {"end"},
         UNCHANGED <<bornVars>>, job'[p].recipe = job[p].recipe, job'[p].attempt = job[p].attempt,
         job'[p].todo = job[p].todo,
         \A a \in Brothers(p) \ {Mine(p)} : Untouched(a),
         at'[p] = "end" => ~Sweeping(p) /\ index'[Mine(p)].state = "torn-down",
         Sweeping(p)' <=> Sweeping(p)
  PROVE  SettleInv(p)'
<1>1. SettleInv(p) /\ Brothers(p)' = Brothers(p) /\ Mine(p)' = Mine(p) BY InvOf DEF bornVars, Brothers, Mine
<1>2. at'[p] \notin {"stale", "stale read", "teardowns", "allocate"} /\ at[p] \notin {"stale", "stale read"}
  BY DEF Working, Writing
<1>3. Sweeping(p)' => \A a \in Brothers(p) \ {Mine(p)} : tree'[a].cur # None => a \in job[p].todo
  BY <1>1 DEF SettleInv, Untouched
<1>4. ~Sweeping(p) => \A a \in Brothers(p) \ {Mine(p)} : Settled(a)' BY <1>1 DEF SettleInv, Untouched, Settled
<1>5. Sweeping(p)' => \A a \in Brothers(p)' : tree'[a].cur # None => a \in job'[p].todo \/ (at'[p] # "stale" /\ a = Mine(p)')
  BY <1>1, <1>2, <1>3
<1>6. at'[p] = "end" => \A a \in Brothers(p)' : Settled(a)' BY <1>1, <1>4 DEF Settled
<1>7. at'[p] \in Working /\ ~Sweeping(p)' => \A a \in Brothers(p)' \ {Mine(p)'} : Settled(a)' BY <1>1, <1>4
<1> QED BY <1>2, <1>5, <1>6, <1>7 DEF SettleInv

\* The session goes on to be active.
LEMMA MarkActiveStep ==
  ASSUME IInv, NEW p \in Procs, MarkActive(p)
  PROVE  Own(p)
<1> DEFINE j == [job[p] EXCEPT !.to = "active"]
<1>1. /\ at[p] = "open" /\ UNCHANGED <<why, lockVars>> /\ UNCHANGED <<bornVars, storeVars, trouble>>
      /\ Goto(p, "write") /\ Set(p, j)
  BY DEF MarkActive, At
<1>2. job[p] \in Jobs /\ JobInv(p) /\ OutcomeInv(p) /\ StageInv(p) /\ at[p] \in Working /\ at[p] \notin Writing
  BY <1>1, InvOf DEF Working, Writing
<1>3. j \in Jobs /\ j.recipe = job[p].recipe /\ j.by = job[p].by /\ j.todo = job[p].todo /\ j.to = "active"
      /\ j.attempt = job[p].attempt /\ j.outcome = job[p].outcome
 <2>1. "active" \in States \cup {"none"} BY DEF States
 <2> QED BY <1>2, <2>1, JobFields
<1> HIDE DEF j
<1>4. job[p].by = "session" /\ ~Allocating(p) /\ job[p].outcome = "none" /\ "write" \in Labels \ {"idle", "sweep"}
      /\ "write" \in Working /\ "write" \in Writing
  BY <1>1, <1>2 DEF Labels, JobInv, OutcomeInv, Allocating, Writing, Working
<1>5. ProcTyped' /\ Alone(p) /\ at'[p] = "write" /\ job'[p] = j /\ LockInv(p)' BY <1>1, <1>3, <1>4, Moved
<1>6. UNCHANGED <<recipeOf, tree, index, record>> /\ Root(p)' = Root(p) /\ Mine(p)' = Mine(p)
      /\ \A a \in Attempts : Untouched(a)
  BY <1>1, <1>3, <1>5 DEF bornVars, storeVars, Root, Mine, Untouched
<1>7. ~Allocating(p)' /\ ~Sweeping(p) /\ ~Sweeping(p)' BY <1>1, <1>3, <1>4, <1>5 DEF Allocating, Sweeping
<1>8. JobInv(p)' BY <1>1, <1>2, <1>3, <1>4, <1>5, <1>7, SameJob
<1>9. SettleInv(p)'
 <2>1. Brothers(p) \subseteq Attempts BY InvOf DEF Brothers, Typed
 <2> QED BY <1>1, <1>2, <1>3, <1>4, <1>5, <1>6, <1>7, <2>1, SameBrothers
<1>10. Root(p).dir /\ Root(p).cur = Reg("allocated", "none") /\ ChainHolds(Root(p))
 <2>1. Root(p).cur = Reg("allocated", "none") /\ ChainHolds(Root(p)) BY <1>1, <1>2 DEF StageInv
 <2>2. AttemptInv(Mine(p)) BY <1>2, InvOf
 <2>3. Root(p).dir BY <2>1, <2>2, NoTreeTyped, RegFields DEF AttemptInv, JournalInv, Root
 <2> QED BY <2>1, <2>3
<1>11. OutcomeInv(p)' /\ WriteInv(p)' /\ EventInv(p)' /\ StageInv(p)'
 <2>1. OutcomeInv(p)' /\ WriteInv(p)' /\ EventInv(p)'
   BY <1>3, <1>4, <1>5, <1>6, <1>10 DEF OutcomeInv, WriteInv, EventInv
 <2>2. StageInv(p)' BY <1>2, <1>3, <1>4, <1>5, <1>6 DEF StageInv
 <2> QED BY <2>1, <2>2
<1>12. CalmOwn(p) BY <1>1, <1>3, <1>4, <1>5, QuietCalm DEF Mine
<1> QED BY <1>1, <1>5, <1>8, <1>9, <1>11, <1>12, QuietOwn DEF ProcInv

\* The session is finalized as a success.
LEMMA SucceedStep ==
  ASSUME IInv, NEW p \in Procs, Succeed(p)
  PROVE  Own(p)
<1> DEFINE j == [job[p] EXCEPT !.outcome = "success"]
<1>1. /\ at[p] = "active" /\ UNCHANGED <<why, lockVars>> /\ UNCHANGED <<bornVars, storeVars, trouble>>
      /\ Goto(p, "finalize") /\ Set(p, j)
  BY DEF Succeed, At
<1>2. job[p] \in Jobs /\ JobInv(p) /\ StageInv(p) /\ at[p] \in Working /\ at[p] \notin Writing
  BY <1>1, InvOf DEF Working, Writing
<1>3. j \in Jobs /\ j.recipe = job[p].recipe /\ j.by = job[p].by /\ j.todo = job[p].todo
      /\ j.attempt = job[p].attempt /\ j.outcome = "success"
 <2>1. "success" \in Outcomes \cup {"none"} BY DEF Outcomes
 <2> QED BY <1>2, <2>1, JobFields
<1> HIDE DEF j
<1>4. job[p].by = "session" /\ ~Allocating(p) /\ "finalize" \in Labels \ {"idle", "sweep"}
      /\ "finalize" \in Working /\ "finalize" \notin Writing
  BY <1>1, <1>2 DEF Labels, JobInv, Allocating, Writing, Working
<1>5. ProcTyped' /\ Alone(p) /\ at'[p] = "finalize" /\ job'[p] = j /\ LockInv(p)' BY <1>1, <1>3, <1>4, Moved
<1>6. UNCHANGED <<recipeOf, tree, index, record>> /\ Root(p)' = Root(p) /\ Mine(p)' = Mine(p)
      /\ \A a \in Attempts : Untouched(a)
  BY <1>1, <1>3, <1>5 DEF bornVars, storeVars, Root, Mine, Untouched
<1>7. ~Allocating(p)' /\ ~Sweeping(p) /\ ~Sweeping(p)' BY <1>1, <1>3, <1>4, <1>5 DEF Allocating, Sweeping
<1>8. JobInv(p)' BY <1>1, <1>2, <1>3, <1>4, <1>5, <1>7, SameJob
<1>9. SettleInv(p)'
 <2>1. Brothers(p) \subseteq Attempts BY InvOf DEF Brothers, Typed
 <2> QED BY <1>1, <1>2, <1>3, <1>4, <1>5, <1>6, <1>7, <2>1, SameBrothers
<1>10. OutcomeInv(p)' /\ WriteInv(p)' /\ EventInv(p)' /\ StageInv(p)'
 <2>1. OutcomeInv(p)' /\ WriteInv(p)' /\ EventInv(p)'
   BY <1>3, <1>4, <1>5, <1>6 DEF OutcomeInv, WriteInv, EventInv, Outcomes
 <2>2. Root(p).cur = Reg("active", "none") /\ Root(p).cur # None /\ Root(p).cur.outcome = "none"
   BY <1>1, <1>2, RegFields, NoTreeTyped DEF StageInv
 <2>3. StageInv(p)' BY <1>2, <1>3, <1>4, <1>5, <1>6, <2>2 DEF StageInv
 <2> QED BY <2>1, <2>3
<1>11. CalmOwn(p)
 <2>1. Undecided(Root(p).cur) BY <1>1, <1>2 DEF StageInv, Undecided
 <2>2. Undecided(Root(p)'.cur) BY <1>6, <2>1
 <2> QED BY <1>1, <1>3, <1>4, <1>5, <2>1, <2>2, QuietCalm DEF Mine
<1> QED BY <1>1, <1>5, <1>8, <1>9, <1>10, <1>11, QuietOwn DEF ProcInv

\* An exception within a session leads to its finally, any other out of the call.
LEMMA Raised ==
  ASSUME IInv, NEW p \in Procs, NEW reason \in Reasons, Raise(p, reason), at[p] # "idle", at[p] # "end",
         job[p].by = "session" =>
           UNCHANGED <<bornVars>> /\ \A a \in Brothers(p) : index'[a] = index[a]
  PROVE  /\ ProcTyped' /\ Alone(p) /\ ProcInv(p)'
         /\ \/ at'[p] = "finally" /\ job'[p] = job[p] /\ job[p].by = "session" /\ at[p] \in Working
            \/ at'[p] = "idle" /\ job'[p] = NoJob /\ job[p].by # "session"
<1>1. Typed /\ LockInv(p) /\ JobInv(p) /\ StageInv(p) /\ SettleInv(p) /\ job[p] \in Jobs /\ at[p] \in Labels BY InvOf
<1>2. CASE job[p].by # "session"
 <2>1. Leave(p, reason) BY <1>2 DEF Raise
 <2> QED BY <1>1, <1>2, <2>1, Left
<1>3. CASE job[p].by = "session"
 <2>1. Goto(p, "finally") /\ UNCHANGED job /\ UNCHANGED <<why, lockVars>> /\ Set(p, job[p])
   BY <1>1, <1>3, SetSame DEF Raise
 <2>2. at[p] \in Working /\ ~Allocating(p) /\ at[p] \notin {"idle", "sweep"} BY <1>1, <1>3 DEF JobInv, Labels
 <2>3. "finally" \in Labels \ {"idle", "sweep"} /\ "finally" \notin Writing /\ "finally" \in Working
   BY DEF Labels, Working, Writing
 <2>4. ProcTyped' /\ Alone(p) /\ at'[p] = "finally" /\ job'[p] = job[p] /\ LockInv(p)'
   BY <1>1, <1>3, <2>1, <2>2, <2>3, Moved
 <2>5. ~Allocating(p)' /\ ~Sweeping(p) /\ ~Sweeping(p)' /\ Mine(p)' = Mine(p) /\ Brothers(p)' = Brothers(p)
  <3>1. ~Allocating(p)' BY <2>3, <2>4 DEF Allocating
  <3>2. ~Sweeping(p) /\ ~Sweeping(p)' BY <1>1, <1>3, <2>4, <3>1 DEF Sweeping, JobInv
  <3>3. Mine(p)' = Mine(p) /\ Brothers(p)' = Brothers(p) BY <1>3, <2>4 DEF Mine, Brothers, bornVars
  <3> QED BY <3>1, <3>2, <3>3
 <2>6. JobInv(p)' BY <1>3, <2>2, <2>3, <2>4, <2>5, SameJob
 <2>7. SettleInv(p)'
  <3>1. \A a \in Brothers(p) : Settled(a)' <=> Settled(a) BY <1>3 DEF Settled
  <3> QED BY <1>1, <2>2, <2>3, <2>4, <2>5, <3>1 DEF SettleInv
 <2>8. OutcomeInv(p)' /\ WriteInv(p)' /\ EventInv(p)' BY <2>3, <2>4 DEF OutcomeInv, WriteInv, EventInv
 <2>9. StageInv(p)'
  <3>1. index'[Mine(p)] = index[Mine(p)] BY <1>3, <2>2, InvOf
  <3> QED BY <1>1, <1>3, <2>4, <2>5, <3>1 DEF StageInv
 <2> QED BY <1>3, <2>2, <2>4, <2>6, <2>7, <2>8, <2>9 DEF ProcInv
<1> QED BY <1>2, <1>3

\* A session that fails goes through its finally.
LEMMA FailStep ==
  ASSUME IInv, NEW p \in Procs, Fail(p)
  PROVE  Own(p)
<1>1. at[p] \in {"open", "active"} /\ Raise(p, "none") /\ UNCHANGED <<bornVars, storeVars, trouble>> BY DEF Fail
<1>2. JobInv(p) /\ StageInv(p) /\ "none" \in Reasons /\ UNCHANGED <<bornVars>> /\ UNCHANGED index
  BY <1>1, InvOf DEF Reasons, storeVars
<1>3. job[p].by = "session" BY <1>1, <1>2 DEF JobInv
<1>4. /\ ProcTyped' /\ Alone(p) /\ ProcInv(p)'
      /\ at'[p] = "finally" /\ job'[p] = job[p] /\ at[p] \in Working
  BY <1>1, <1>2, <1>3, Raised
<1>5. Undecided(Root(p).cur) /\ Root(p)' = Root(p) BY <1>1, <1>2, <1>4 DEF StageInv, Undecided, Root, Mine, storeVars
<1>6. Undecided(Root(p)'.cur) /\ "finally" \in Working BY <1>5 DEF Working
<1>7. CalmOwn(p) BY <1>1, <1>4, <1>6, QuietCalm DEF Mine
<1> QED BY <1>1, <1>4, <1>7, QuietOwn

\* A finalization of the attempt in hand, of one with a registry, whose outcome it keeps.
LEMMA ToFinalize ==
  ASSUME IInv, NEW p \in Procs, at[p] = "finally", NEW o \in Outcomes, NEW j \in Jobs,
         Goto(p, "finalize"), Set(p, j), UNCHANGED <<why, lockVars>>, UNCHANGED <<bornVars, storeVars, trouble>>,
         j.recipe = job[p].recipe, j.attempt = Mine(p), j.todo = job[p].todo, j.by = "finally", j.outcome = o,
         Root(p).cur # None, Root(p).cur.outcome \in {"none", o}, o = "interrupted" => Mine(p) \in dead
  PROVE  Own(p)
<1>1. job[p] \in Jobs /\ JobInv(p) /\ StageInv(p) /\ CalmInv /\ at[p] \in Working /\ at[p] \notin Writing
  BY InvOf DEF Working, Writing
<1>2. job[p].by = "session" /\ ~Allocating(p) /\ "finalize" \in Labels \ {"idle", "sweep"}
      /\ "finalize" \in Working /\ "finalize" \notin Writing
  BY <1>1 DEF Labels, JobInv, Allocating, Writing, Working
<1>3. ProcTyped' /\ Alone(p) /\ at'[p] = "finalize" /\ job'[p] = j /\ LockInv(p)' BY <1>1, <1>2, Moved
<1>4. UNCHANGED <<recipeOf, maker, dead, tree, index, record>> /\ Root(p)' = Root(p) /\ Mine(p)' = Mine(p)
      /\ \A a \in Attempts : Untouched(a)
  BY <1>3 DEF bornVars, storeVars, Root, Mine, Untouched
<1>5. ~Allocating(p)' /\ ~Sweeping(p) /\ ~Sweeping(p)' BY <1>1, <1>2, <1>3 DEF Allocating, Sweeping
<1>6. JobInv(p)' BY <1>1, <1>2, <1>3, <1>5, SameJob DEF Mine
<1>7. SettleInv(p)'
 <2>1. Brothers(p) \subseteq Attempts BY InvOf DEF Brothers, Typed
 <2> QED BY <1>1, <1>2, <1>3, <1>4, <1>5, <2>1, SameBrothers DEF Mine
<1>8. OutcomeInv(p)' /\ WriteInv(p)' /\ EventInv(p)' /\ StageInv(p)'
 <2>1. OutcomeInv(p)' /\ WriteInv(p)' /\ EventInv(p)' BY <1>2, <1>3, <1>4 DEF OutcomeInv, WriteInv, EventInv
 <2>2. StageInv(p)' BY <1>1, <1>2, <1>3, <1>4 DEF StageInv
 <2> QED BY <2>1, <2>2
<1>9. CalmOwn(p)
 <2>1. trouble = 0 => Undecided(Root(p)'.cur)
  <3>1. AttemptInv(Mine(p)) BY <1>1, InvOf
  <3>2. Root(p).dir BY <3>1, NoTreeTyped DEF AttemptInv, JournalInv, Root
  <3> QED BY <1>1, <1>4, <3>2 DEF CalmInv
 <2> QED BY <1>2, <1>3, <2>1, QuietCalm DEF Mine
<1> QED BY <1>3, <1>6, <1>7, <1>8, <1>9, QuietOwn DEF ProcInv

\* The finally goes on with the outcome on disk, or with failure.
LEMMA FinallyStep ==
  ASSUME IInv, NEW p \in Procs, Finally(p)
  PROVE  Own(p)
<1>1. at[p] = "finally" /\ UNCHANGED <<bornVars, storeVars, trouble>> BY DEF Finally, At
<1>2. /\ job[p] \in Jobs /\ JobInv(p) /\ LockInv(p) /\ SettleInv(p) /\ CalmInv /\ at[p] \in Working
      /\ Typed
  BY <1>1, InvOf DEF Working, Writing
<1>3. AttemptInv(Mine(p)) /\ Root(p) \in Trees /\ Mine(p) \in Brothers(p) /\ Mine(p) \in Attempts BY <1>2, InvOf
<1>4. CASE ~Root(p).dir
 <2> DEFINE todo == Published(job[p].recipe)
            j == [job[p] EXCEPT !.by = "finally", !.todo = todo]
 <2>1. Goto(p, "teardowns") /\ UNCHANGED <<why, lockVars>> /\ Set(p, j) BY <1>4 DEF Finally
 <2>2. j \in Jobs /\ j.recipe = job[p].recipe /\ j.by = "finally" /\ j.todo = todo
  <3>1. todo \in SUBSET Attempts BY <1>2 DEF Published, Typed
  <3>2. \A n \in Jobs, s \in SUBSET Attempts :
          LET k == [n EXCEPT !.by = "finally", !.todo = s] IN
            k \in Jobs /\ k.recipe = n.recipe /\ k.by = "finally" /\ k.todo = s
    BY DEF Jobs
  <3> QED BY <1>2, <3>1, <3>2
 <2> HIDE DEF j, todo
 <2>3. ~Allocating(p) /\ "teardowns" \in Labels \ {"idle", "sweep"} /\ "teardowns" \notin Working
       /\ "teardowns" \notin Writing /\ at[p] \notin {"idle", "sweep"}
   BY <1>1 DEF Labels, Allocating, Writing, Working
 <2>4. ProcTyped' /\ Alone(p) /\ at'[p] = "teardowns" /\ job'[p] = j /\ LockInv(p)' BY <2>1, <2>2, <2>3, Moved
 <2>5. JobInv(p)' BY <2>2, <2>3, <2>4 DEF JobInv, Allocating, Working
 <2>6. SettleInv(p)'
  <3>1. UNCHANGED <<recipeOf, tree, index>> /\ Brothers(p)' = Brothers(p)
    BY <1>1, <2>2, <2>4 DEF bornVars, storeVars, Brothers
  <3>2. \A a \in Brothers(p) \ {Mine(p)} : Settled(a) BY <1>1, <1>2 DEF SettleInv, Sweeping, JobInv
  <3>3. Settled(Mine(p)) \/ Mine(p) \in todo
   <4>1. tree[Mine(p)].cur = None BY <1>3, <1>4, NoTreeTyped DEF AttemptInv, JournalInv, Root
   <4> QED BY <1>3, <4>1, SettledOrPublished DEF todo
  <3>4. \A a : Settled(a)' <=> Settled(a) BY <3>1 DEF Settled
  <3>5. Published(job[p].recipe)' = todo BY <2>2, <2>4, <3>1 DEF Published, todo
  <3> QED BY <2>2, <2>3, <2>4, <3>1, <3>2, <3>3, <3>4, <3>5 DEF SettleInv, Sweeping
 <2>7. OutcomeInv(p)' /\ WriteInv(p)' /\ EventInv(p)' /\ StageInv(p)' BY <2>2, <2>3, <2>4, Restful
 <2>8. CalmOwn(p) BY <1>1, <1>4, <2>4, QuietCalm
 <2> QED BY <1>1, <2>4, <2>5, <2>6, <2>7, <2>8, QuietOwn DEF ProcInv
<1>5. CASE Root(p).dir /\ Root(p).cur = None
 <2>1. Leave(p, "half gone") /\ "half gone" \in Reasons
  <3>1. Root(p).cur = None /\ None.outcome = "none" /\ Root(p).dir BY <1>5, NoTreeTyped
  <3>2. Leave(p, "half gone") BY <3>1 DEF Finally
  <3> QED BY <3>2 DEF Reasons
 <2>2. trouble # 0
  <3>1. ~Undecided(None) BY RegFields, NoTreeTyped DEF Undecided
  <3> QED BY <1>1, <1>2, <1>5, <3>1 DEF CalmInv
 <2> QED BY <1>1, <2>1, <2>2, QuietLeave
<1>6. CASE Root(p).dir /\ Root(p).cur # None
 <2>1. PICK o \in Outcomes :
         /\ o = IF Root(p).cur.outcome # "none" THEN Root(p).cur.outcome ELSE "failed"
         /\ Goto(p, "finalize") /\ Set(p, [job[p] EXCEPT !.by = "finally", !.outcome = o])
         /\ UNCHANGED <<why, lockVars>>
  <3>1. Root(p).cur.outcome \in Outcomes \cup {"none"} /\ "failed" \in Outcomes BY <1>3 DEF Trees, Outcomes
  <3> QED BY <1>6, <3>1 DEF Finally
 <2> DEFINE j == [job[p] EXCEPT !.by = "finally", !.outcome = o]
 <2>2. j \in Jobs /\ j.recipe = job[p].recipe /\ j.by = "finally" /\ j.todo = job[p].todo
       /\ j.attempt = Mine(p) /\ j.outcome = o
   BY <1>2 DEF Jobs, Mine
 <2> HIDE DEF j
 <2>3. Set(p, j) BY <2>1 DEF j
 <2>4. o = "interrupted" => Mine(p) \in dead BY <1>3, <2>1 DEF AttemptInv, BirthInv, Root
 <2> QED BY <1>1, <1>6, <2>1, <2>2, <2>3, <2>4, ToFinalize
<1> QED BY <1>4, <1>5, <1>6

----------------------------------------
(* Steps that touch the files of one attempt *)

\* What an index entry may be
Entries == [state : Names \cup {"torn-down"}, outcome : Outcomes \cup {"none"}]

\* The variables of the files keep to their ranges.
FilesTyped ==
  /\ tree \in [Attempts -> Trees] /\ record \in [Attempts -> Trees] /\ index \in [Attempts -> Entries]
  /\ trouble \in 0 .. MaxTrouble

\* It is enough for a step that touches one attempt of its own recipe, or sweeps an
\* orphan, to look after this attempt and its own process.
LEMMA TouchedOwn ==
  ASSUME IInv, NEW p \in Procs, NEW a \in Attempts, at[p] # "idle",
         \/ a \in Brothers(p)
         \/ /\ at[p] = "sweep" /\ Orphaned(tree[a]) /\ tree'[a] = NoTree
            /\ index'[a] = index[a] /\ record'[a] = record[a],
         UNCHANGED bornVars, \A b \in Attempts \ {a} : Untouched(b), AttemptInv(a)',
         ProcTyped', FilesTyped', Alone(p), ProcInv(p)', CalmOwn(p)
  PROVE  Own(p)
<1>1. UNCHANGED <<recipeOf, maker, dead>> BY DEF bornVars
<1>2. Typed' BY <1>1 DEF IInv, Typed, ProcTyped, FilesTyped, Entries
<1>3. BornAlone(p) /\ FilesAlone(p) BY <1>1 DEF BornAlone, FilesAlone
<1>4. \A b \in Attempts : AttemptInv(b)'
 <2> SUFFICES ASSUME NEW b \in Attempts \ {a} PROVE AttemptInv(b)' OBVIOUS
 <2>1. AttemptInv(b) /\ dead \subseteq dead' /\ (b \in DOMAIN recipeOf => b \in DOMAIN recipeOf') BY <1>1 DEF IInv
 <2> QED BY <2>1, AttemptKept
<1> QED BY <1>2, <1>3, <1>4 DEF Own, Apart

\* One root is set, and nothing else.
LEMMA TreeSet ==
  ASSUME IInv, NEW a \in Attempts, NEW t \in Trees, tree' = [tree EXCEPT ![a] = t],
         UNCHANGED <<index, record>>, trouble' \in 0 .. MaxTrouble
  PROVE  /\ FilesTyped' /\ tree'[a] = t /\ index'[a] = index[a] /\ record'[a] = record[a]
         /\ \A b \in Attempts \ {a} : Untouched(b)
<1>1. Typed BY DEF IInv
<1> QED BY <1>1 DEF Typed, FilesTyped, Entries, Untouched

\* One index entry is set, and nothing else.
LEMMA IndexSet ==
  ASSUME IInv, NEW a \in Attempts, NEW i \in Entries, index' = [index EXCEPT ![a] = i],
         UNCHANGED <<tree, record>>, trouble' \in 0 .. MaxTrouble
  PROVE  /\ FilesTyped' /\ index'[a] = i /\ tree'[a] = tree[a] /\ record'[a] = record[a]
         /\ \A b \in Attempts \ {a} : Untouched(b)
<1>1. Typed BY DEF IInv
<1> QED BY <1>1 DEF Typed, FilesTyped, Entries, Untouched

----------------------------------------
(* Settling what dead owners left *)

\* An orphaned root can go.
LEMMA OrphanGone ==
  ASSUME NEW a \in Attempts, AttemptInv(a), Orphaned(tree[a]), tree'[a] = NoTree,
         index'[a] = index[a], record'[a] = record[a], UNCHANGED bornVars
  PROVE  AttemptInv(a)'
<1>1. tree[a].cur = None /\ UNCHANGED <<recipeOf, maker, dead>> BY DEF Orphaned, bornVars
<1>2. RegistryInv(a)' /\ JournalInv(a)' BY NoTreeTyped DEF RegistryInv, JournalInv
<1>3. RecordInv(a)' BY <1>1, NoTreeTyped DEF AttemptInv, RecordInv
<1>4. IndexInv(a)' BY <1>1, NoTreeTyped DEF AttemptInv, IndexInv
<1>5. BirthInv(a)' BY <1>1, NoTreeTyped DEF AttemptInv, BirthInv
<1> QED BY <1>2, <1>3, <1>4, <1>5 DEF AttemptInv

\* The missing event may be written.
LEMMA ReconciledKept ==
  ASSUME NEW a \in Attempts, AttemptInv(a), tree[a] \in Trees, tree'[a] = Reconciled(tree[a]),
         index'[a] = index[a], record'[a] = record[a], UNCHANGED bornVars
  PROVE  AttemptInv(a)'
<1> DEFINE t == Reconciled(tree[a])
<1>1. UNCHANGED <<recipeOf, maker, dead>> BY DEF bornVars
<1>2. /\ t.dir = tree[a].dir /\ t.cur = tree[a].cur /\ t.temps = tree[a].temps
      /\ ChainHolds(t) <=> Whole(tree[a])
      /\ ChainHolds(tree[a]) => t = tree[a]
  BY ReconciledHolds
<1>3. tree[a] = NoTree => t = NoTree
 <2>1. ChainHolds(NoTree) BY NoTreeTyped DEF ChainHolds, LastOf, Gap
 <2> QED BY <1>2, <2>1
<1>4. tree'[a] = t OBVIOUS
<1> HIDE DEF t
<1>5. RegistryInv(a)' BY <1>2, <1>4 DEF AttemptInv, RegistryInv
<1>6. JournalInv(a)'
 <2>1. Whole(tree[a]) => Whole(t) BY <1>2, HoldsWhole
 <2> QED BY <1>2, <1>3, <1>4, <2>1 DEF AttemptInv, JournalInv
<1>7. RecordInv(a)'
 <2>1. record[a] # NoTree /\ tree[a].cur.state = "finalizing" => t = tree[a]
   BY <1>2 DEF AttemptInv, RecordInv, ChainHolds
 <2> QED BY <1>2, <1>4, <2>1 DEF AttemptInv, RecordInv
<1>8. IndexInv(a)' BY <1>2, <1>3, <1>4 DEF AttemptInv, IndexInv
<1>9. BirthInv(a)' BY <1>1, <1>2, <1>3, <1>4 DEF AttemptInv, BirthInv
<1> QED BY <1>5, <1>6, <1>7, <1>8, <1>9 DEF AttemptInv

\* A sweep removes orphaned roots only, and those of nobody at work.
LEMMA SweepStep ==
  ASSUME IInv, NEW p \in Procs, Sweep(p)
  PROVE  Own(p)
<1>1. at[p] = "sweep" /\ UNCHANGED <<bornVars>> /\ trouble' = trouble /\ at[p] \notin Working
  BY DEF Sweep, At, Working, Writing
<1>2. PICK a \in job[p].todo :
        IF ~tree[a].dir THEN Leave(p, "disturbed") /\ UNCHANGED storeVars
         ELSE /\ tree' = [tree EXCEPT ![a] = IF Orphaned(@) THEN NoTree ELSE @]
              /\ Set(p, [job[p] EXCEPT !.todo = @ \ {a}])
              /\ UNCHANGED <<at, why, lockVars, index, record>>
  BY Zenon DEF Sweep
<1>3. CASE ~tree[a].dir
 <2>1. Leave(p, "disturbed") /\ "disturbed" \in Reasons /\ UNCHANGED <<bornVars, storeVars, trouble>>
   BY <1>1, <1>2, <1>3 DEF Reasons
 <2> QED BY <1>1, <2>1, QuietLeave
<1>4. CASE tree[a].dir
 <2> DEFINE j == [job[p] EXCEPT !.todo = @ \ {a}]
            t == IF Orphaned(tree[a]) THEN NoTree ELSE tree[a]
 <2>1. Typed /\ LockInv(p) /\ JobInv(p) /\ job[p] \in Jobs BY InvOf
 <2>2. a \in Attempts /\ tree[a] \in Trees /\ t \in Trees /\ AttemptInv(a) BY <2>1, NoTreeTyped DEF Jobs, Typed, IInv
 <2>3. j \in Jobs /\ j.recipe = job[p].recipe /\ j.by = job[p].by
  <3>1. job[p].todo \ {a} \in SUBSET Attempts BY <2>1 DEF Jobs
  <3> QED BY <2>1, <3>1, JobFields
 <2>4. /\ tree' = [tree EXCEPT ![a] = t] /\ UNCHANGED <<index, record>>
       /\ job' = [job EXCEPT ![p] = j] /\ UNCHANGED <<at, why, recipeLock, allocLock>>
   BY <1>2, <1>4, <2>1 DEF Set, Typed, lockVars
 <2> HIDE DEF j, t
 <2>5. at'[p] = "sweep" /\ job'[p] = j /\ \A q \in Procs \ {p} : at'[q] = at[q] /\ job'[q] = job[q]
   BY <1>1, <2>1, <2>4 DEF Typed
 <2>6. ProcTyped' BY <2>1, <2>3, <2>4 DEF Typed, ProcTyped
 <2>7. Alone(p) BY <2>4, <2>5 DEF Alone
 <2>8. job[p].by = "begin" BY <1>1, <2>1 DEF JobInv
 <2>9. LockInv(p)'
  <3>1. UNCHANGED lockVars /\ at[p] # "idle" /\ at'[p] # "idle" BY <1>1, <2>4, <2>5 DEF lockVars
  <3> QED BY <1>1, <2>1, <2>3, <2>5, <2>8, <3>1, LocksKept
 <2>10. JobInv(p)' /\ SettleInv(p)' BY <2>3, <2>5, <2>8 DEF JobInv, SettleInv, Sweeping, Allocating, Working, Writing
 <2>11. OutcomeInv(p)' /\ WriteInv(p)' /\ EventInv(p)' /\ StageInv(p)'
  <3>1. at'[p] \notin Working BY <1>1, <2>5
  <3> QED BY <2>3, <2>5, <2>8, <3>1, Restful
 <2>12. /\ FilesTyped' /\ tree'[a] = t /\ index'[a] = index[a] /\ record'[a] = record[a]
        /\ \A b \in Attempts \ {a} : Untouched(b)
  <3>1. trouble' \in 0 .. MaxTrouble BY <1>1, <2>1 DEF Typed
  <3> QED BY <2>2, <2>4, <3>1, TreeSet
 <2>13. CalmOwn(p)
  <3>1. \A b \in Attempts : tree'[b].dir => tree[b].dir BY <1>4, <2>12 DEF Untouched
  <3> QED BY <1>1, <2>5, <3>1 DEF CalmOwn
 <2>14. CASE Orphaned(tree[a])
  <3>1. tree'[a] = NoTree BY <2>12, <2>14 DEF t
  <3>2. AttemptInv(a)' BY <1>1, <2>2, <2>12, <2>14, <3>1, OrphanGone
  <3> QED BY <1>1, <2>2, <2>6, <2>7, <2>9, <2>10, <2>11, <2>12, <2>13, <2>14, <3>1, <3>2, TouchedOwn DEF ProcInv
 <2>15. CASE ~Orphaned(tree[a])
  <3>1. UNCHANGED storeVars BY <2>1, <2>4, <2>15 DEF t, storeVars, Typed
  <3> QED BY <1>1, <2>6, <2>7, <2>9, <2>10, <2>11, <2>13, <3>1, QuietOwn DEF ProcInv
 <2> QED BY <2>14, <2>15
<1> QED BY <1>3, <1>4

\* While nothing has struck, nobody comes upon a registry of his recipe but in his own attempt.
LEMMA CalmAlone ==
  ASSUME IInv, trouble = 0, NEW p \in Procs, NEW a \in Brothers(p), tree[a].dir
  PROVE  at[p] \in Working /\ Mine(p) = a
<1>1. Typed /\ LockInv(p) /\ a \in Attempts BY InvOf DEF Brothers, Typed
<1>2. PICK q \in Procs : at[q] \in Working /\ Mine(q) = a BY <1>1 DEF IInv, CalmInv
<1>3. recipeOf[a] = job[q].recipe /\ recipeOf[a] = job[p].recipe /\ recipeOf[a] \in Recipes /\ LockInv(q)
  BY <1>1, <1>2, InvOf DEF Brothers, Typed
<1>4. q = p BY <1>1, <1>3, RecipesDiffer
<1> QED BY <1>2, <1>4

\* A dead attempt of the recipe is finalized, as interrupted if nothing was decided.
LEMMA StaleReadStep ==
  ASSUME IInv, NEW p \in Procs, StaleRead(p)
  PROVE  Own(p)
<1> DEFINE t == Reconciled(Root(p))
<1>1. at[p] = "stale read" /\ UNCHANGED <<bornVars>> /\ UNCHANGED <<index, record>> /\ trouble' = trouble
      /\ at[p] \notin Working
  BY DEF StaleRead, At, Working, Writing
<1>2. Typed /\ LockInv(p) /\ JobInv(p) /\ SettleInv(p) /\ job[p] \in Jobs BY InvOf
<1>3. PICK a \in Attempts : /\ a = Mine(p) /\ tree[a] \in Trees /\ AttemptInv(a) /\ Root(p) = tree[a]
                             /\ job[p].by = "begin"
  BY <1>1, <1>2 DEF JobInv, Typed, IInv, Root
<1>4. CASE Root(p).cur = None
 <2>1. Leave(p, "disturbed") /\ UNCHANGED tree BY <1>4 DEF StaleRead
 <2>2. "disturbed" \in Reasons /\ UNCHANGED <<bornVars, storeVars, trouble>> BY <1>1, <2>1 DEF Reasons, storeVars
 <2> QED BY <1>1, <2>1, <2>2, QuietLeave
<1>5. CASE Root(p).cur # None /\ recipeOf[a] # job[p].recipe
 <2>1. Goto(p, "stale") /\ UNCHANGED job /\ UNCHANGED <<why, lockVars>> /\ UNCHANGED tree BY <1>3, <1>5 DEF StaleRead
 <2>2. UNCHANGED <<bornVars, storeVars, trouble>> BY <1>1, <2>1 DEF storeVars
 <2>3. ~Allocating(p) /\ "stale" \in Labels \ {"idle", "sweep"} /\ "stale" \notin Working
       /\ "stale" \notin Writing /\ at[p] \notin {"idle", "sweep"} /\ Set(p, job[p])
   BY <1>1, <1>2, <2>1, SetSame DEF Labels, Allocating, Writing, Working
 <2>4. ProcTyped' /\ Alone(p) /\ at'[p] = "stale" /\ job'[p] = job[p] /\ LockInv(p)' BY <1>2, <1>3, <2>1, <2>3, Moved
 <2>5. JobInv(p)' BY <1>3, <2>3, <2>4 DEF JobInv, Allocating, Working
 <2>6. SettleInv(p)'
  <3>1. UNCHANGED <<recipeOf, tree, index>> /\ Brothers(p)' = Brothers(p) /\ a \notin Brothers(p)
    BY <1>5, <2>2, <2>4 DEF bornVars, storeVars, Brothers
  <3>2. \A b \in Brothers(p) : tree[b].cur # None => b \in job[p].todo
    BY <1>1, <1>2, <1>3, <3>1 DEF SettleInv, Sweeping
  <3> QED BY <2>3, <2>4, <3>1, <3>2 DEF SettleInv
 <2>7. OutcomeInv(p)' /\ WriteInv(p)' /\ EventInv(p)' /\ StageInv(p)' BY <1>3, <2>3, <2>4, Restful
 <2>8. CalmOwn(p) BY <1>1, <2>2, <2>4, QuietCalm
 <2> QED BY <2>2, <2>4, <2>5, <2>6, <2>7, <2>8, QuietOwn DEF ProcInv
<1>6. CASE Root(p).cur # None /\ recipeOf[a] = job[p].recipe
 <2>1. tree' = [tree EXCEPT ![a] = t] BY <1>3, <1>6 DEF StaleRead
 <2>2. a \in Brothers(p)
  <3>1. a \in DOMAIN recipeOf BY <1>3, <1>6, NoTreeTyped DEF AttemptInv, BirthInv
  <3> QED BY <1>6, <3>1 DEF Brothers
 <2>3. t \in Trees /\ t.dir = Root(p).dir /\ t.cur = Root(p).cur BY <1>3, ReconciledHolds
 <2> HIDE DEF t
 <2>4. /\ FilesTyped' /\ tree'[a] = t /\ index'[a] = index[a] /\ record'[a] = record[a]
       /\ \A b \in Attempts \ {a} : Untouched(b)
  <3>1. trouble' \in 0 .. MaxTrouble BY <1>1, <1>2 DEF Typed
  <3> QED BY <1>1, <1>3, <2>1, <2>3, <3>1, TreeSet
 <2>5. AttemptInv(a)'
  <3>1. tree'[a] = Reconciled(tree[a]) BY <1>3, <2>4 DEF t
  <3> QED BY <1>1, <1>3, <2>4, <3>1, ReconciledKept
 <2>6. trouble # 0
  <3>1. tree[a].dir BY <1>3, <1>6, NoTreeTyped DEF AttemptInv, JournalInv
  <3> QED BY <1>1, <2>2, <3>1, CalmAlone
 <2>7. CalmOwn(p) BY <1>1, <2>6 DEF CalmOwn
 <2>8. ASSUME NEW reason \in Reasons, Leave(p, reason)
       PROVE  Own(p)
  <3>1. ProcTyped' /\ Alone(p) /\ ProcInv(p)' BY <1>2, <2>8, Left
  <3> QED BY <1>1, <1>3, <2>2, <2>4, <2>5, <2>7, <3>1, TouchedOwn
 <2>9. CASE ~ChainHolds(t) \/ Living(a)
  <3>1. Leave(p, "half gone") \/ Leave(p, "busy") BY <1>3, <1>6, <2>9 DEF StaleRead, t
  <3> QED BY <2>8, <3>1 DEF Reasons
 <2>10. CASE ChainHolds(t) /\ ~Living(a)
  <3> DEFINE o == StaleOutcome(Root(p).cur)
             j == [job[p] EXCEPT !.outcome = o]
  <3>1. Goto(p, "finalize") /\ UNCHANGED <<why, lockVars>> /\ Set(p, j) BY <1>3, <1>6, <2>10 DEF StaleRead, t
  <3>2. o \in Outcomes /\ Root(p).cur.outcome \in {"none", o} BY <1>3 DEF StaleOutcome, Trees, Outcomes
  <3> HIDE DEF o
  <3>3. j \in Jobs /\ j.recipe = job[p].recipe /\ j.by = job[p].by /\ j.outcome = o /\ j.attempt = a
        /\ j.todo = job[p].todo
   <4>1. o \in Outcomes \cup {"none"} BY <3>2
   <4> QED BY <1>2, <1>3, <4>1, JobFields DEF Mine
  <3> HIDE DEF j
  <3>4. "finalize" \in Labels \ {"idle", "sweep"} /\ "finalize" \in Working /\ "finalize" \notin Writing
        /\ ~Allocating(p) /\ at[p] \notin {"idle", "sweep"}
    BY <1>1 DEF Labels, Working, Writing, Allocating
  <3>5. ProcTyped' /\ Alone(p) /\ at'[p] = "finalize" /\ job'[p] = j /\ LockInv(p)' BY <1>3, <3>1, <3>3, <3>4, Moved
  <3>6. UNCHANGED <<recipeOf, maker, dead>> /\ Mine(p)' = a /\ Root(p)' = t /\ Brothers(p)' = Brothers(p)
    BY <1>1, <2>4, <3>3, <3>5 DEF bornVars, Mine, Root, Brothers
  <3>7. ~Allocating(p)' /\ Sweeping(p) /\ Sweeping(p)' BY <1>1, <1>3, <3>3, <3>4, <3>5 DEF Allocating, Sweeping
  <3>8. JobInv(p)'
   <4>1. recipeOf'[Mine(p)'] = job'[p].recipe /\ Mine(p)' \in DOMAIN recipeOf'
     BY <1>6, <2>2, <3>3, <3>5, <3>6 DEF Brothers
   <4> QED BY <1>3, <3>3, <3>4, <3>5, <3>7, <4>1 DEF JobInv
  <3>9. OutcomeInv(p)' BY <2>10, <3>2, <3>3, <3>4, <3>5, <3>6 DEF OutcomeInv, Living
  <3>10. WriteInv(p)' /\ EventInv(p)' BY <3>4, <3>5 DEF WriteInv, EventInv
  <3>11. StageInv(p)' BY <1>3, <1>6, <2>3, <3>2, <3>3, <3>5, <3>6 DEF StageInv
  <3>12. SettleInv(p)'
   <4>1. \A b \in Brothers(p) : b \in Attempts BY <1>2 DEF Brothers, Typed
   <4>2. \A b \in Brothers(p) \ {a} : tree'[b].cur # None => b \in job[p].todo
     BY <1>2, <1>3, <2>4, <3>7, <4>1 DEF SettleInv, Untouched
   <4> QED BY <3>3, <3>4, <3>5, <3>6, <3>7, <4>2 DEF SettleInv
  <3> QED BY <1>1, <1>3, <2>2, <2>4, <2>5, <2>7, <3>5, <3>8, <3>9, <3>10, <3>11, <3>12, TouchedOwn DEF ProcInv
 <2> QED BY <2>9, <2>10
<1> QED BY <1>4, <1>5, <1>6

\* The index entry of an attempt without root can be closed.
LEMMA EntryClosed ==
  ASSUME NEW a \in Attempts, AttemptInv(a), tree[a] = NoTree, index[a].state = "record-published",
         index'[a].state = "torn-down", index'[a].outcome = index[a].outcome,
         tree'[a] = tree[a], record'[a] = record[a], UNCHANGED bornVars
  PROVE  AttemptInv(a)'
<1>1. UNCHANGED <<recipeOf, maker, dead>> /\ tree[a].cur = None /\ None.state = "none" BY NoTreeTyped DEF bornVars
<1>2. RegistryInv(a)' /\ JournalInv(a)' BY <1>1 DEF AttemptInv, RegistryInv, JournalInv
<1>3. RecordInv(a)' BY <1>1 DEF AttemptInv, RecordInv
<1>4. IndexInv(a)' BY <1>1 DEF AttemptInv, IndexInv
<1>5. BirthInv(a)' BY <1>1 DEF AttemptInv, BirthInv
<1> QED BY <1>2, <1>3, <1>4, <1>5 DEF AttemptInv

\* The entry of an attempt whose root has gone is closed.
LEMMA TeardownStep ==
  ASSUME IInv, NEW p \in Procs, Teardown(p)
  PROVE  Own(p)
<1>1. at[p] = "teardowns" /\ UNCHANGED <<bornVars>> /\ UNCHANGED <<tree, record>> /\ trouble' = trouble
      /\ at[p] \notin Working
  BY DEF Teardown, At, Working, Writing
<1>2. Typed /\ LockInv(p) /\ JobInv(p) /\ SettleInv(p) /\ job[p] \in Jobs BY InvOf
<1>3. PICK a \in job[p].todo :
       IF tree[a].dir THEN Leave(p, "half gone") /\ UNCHANGED index
         ELSE /\ index' = [index EXCEPT ![a].state = "torn-down"]
              /\ Set(p, [job[p] EXCEPT !.todo = @ \ {a}])
              /\ UNCHANGED <<at, why, lockVars>>
  BY Zenon DEF Teardown
<1>4. CASE tree[a].dir
 <2>1. Leave(p, "half gone") /\ "half gone" \in Reasons /\ UNCHANGED <<bornVars, storeVars, trouble>>
   BY <1>1, <1>3, <1>4 DEF Reasons, storeVars
 <2> QED BY <1>1, <2>1, QuietLeave
<1>5. CASE ~tree[a].dir
 <2> DEFINE j == [job[p] EXCEPT !.todo = @ \ {a}]
            i == Reg("torn-down", index[a].outcome)
 <2>1. /\ a \in Attempts /\ a \in Brothers(p) /\ AttemptInv(a) /\ index[a].state = "record-published"
       /\ index[a] \in Entries
   BY <1>1, <1>2 DEF SettleInv, Published, Brothers, Typed, IInv, Entries
 <2>2. i \in Entries /\ i.state = "torn-down" /\ i.outcome = index[a].outcome BY <2>1 DEF Entries, Reg
 <2>3. index' = [index EXCEPT ![a] = i] /\ UNCHANGED at /\ UNCHANGED <<why, lockVars>>
  <3>1. [index[a] EXCEPT !.state = "torn-down"] = i BY <2>1 DEF Entries, Reg
  <3> QED BY <1>3, <1>5, <3>1
 <2>4. j \in Jobs /\ j.recipe = job[p].recipe /\ j.by = job[p].by /\ j.todo = job[p].todo \ {a}
  <3>1. job[p].todo \ {a} \in SUBSET Attempts BY <1>2 DEF Jobs
  <3> QED BY <1>2, <3>1, JobFields
 <2>5. Set(p, j) /\ Goto(p, "teardowns") BY <1>1, <1>2, <1>3, <1>5, <2>3, SetSame
 <2> HIDE DEF i, j
 <2>6. "teardowns" \in Labels \ {"idle", "sweep"} /\ "teardowns" \notin Writing /\ ~Allocating(p)
       /\ job[p].by \notin {"none", "session"}
   BY <1>1, <1>2 DEF Labels, Writing, Allocating, LockInv, JobInv
 <2>7. ProcTyped' /\ Alone(p) /\ at'[p] = "teardowns" /\ job'[p] = j /\ LockInv(p)'
   BY <1>1, <2>3, <2>4, <2>5, <2>6, Moved
 <2>8. /\ FilesTyped' /\ index'[a] = i /\ tree'[a] = tree[a] /\ record'[a] = record[a]
       /\ \A b \in Attempts \ {a} : Untouched(b)
  <3>1. trouble' \in 0 .. MaxTrouble BY <1>1, <1>2 DEF Typed
  <3> QED BY <1>1, <2>1, <2>2, <2>3, <3>1, IndexSet
 <2>9. AttemptInv(a)'
  <3>1. tree[a] = NoTree BY <1>5, <2>1 DEF AttemptInv, JournalInv
  <3> QED BY <1>1, <2>1, <2>2, <2>8, <3>1, EntryClosed
 <2>10. JobInv(p)' BY <1>1, <2>4, <2>6, <2>7 DEF JobInv, Allocating
 <2>11. SettleInv(p)'
  <3>1. UNCHANGED recipeOf /\ Brothers(p)' = Brothers(p) /\ Brothers(p) \subseteq Attempts
    BY <1>1, <1>2, <2>4, <2>7 DEF bornVars, Brothers, Typed
  <3>2. \A b \in Brothers(p) : Settled(b)' \/ b \in job[p].todo \ {a}
    BY <1>1, <1>2, <2>2, <2>8, <3>1 DEF SettleInv, Settled, Untouched
  <3>3. job[p].todo \ {a} \subseteq Published(job[p].recipe)'
   <4> SUFFICES ASSUME NEW b \in job[p].todo \ {a} PROVE b \in Published(job[p].recipe)' OBVIOUS
   <4>1. b \in DOMAIN recipeOf /\ recipeOf[b] = job[p].recipe /\ index[b].state = "record-published" /\ b \in Attempts
     BY <1>1, <1>2 DEF SettleInv, Published, Typed
   <4>2. index'[b] = index[b] BY <2>8, <4>1 DEF Untouched
   <4>3. job'[p].recipe = job[p].recipe BY <2>4, <2>7
   <4> QED BY <3>1, <4>1, <4>2, <4>3 DEF Published
  <3> QED BY <1>1, <2>4, <2>7, <3>1, <3>2, <3>3 DEF SettleInv, Sweeping
 <2>12. OutcomeInv(p)' /\ WriteInv(p)' /\ EventInv(p)' /\ StageInv(p)' BY <1>1, <2>4, <2>6, <2>7, Restful
 <2>13. CalmOwn(p) BY <1>1, <2>7 DEF CalmOwn
 <2> QED BY <1>1, <2>1, <2>7, <2>8, <2>9, <2>10, <2>11, <2>12, <2>13, TouchedOwn DEF ProcInv
<1> QED BY <1>4, <1>5

----------------------------------------
(* A new attempt *)

\* A sequence that has grown
LEMMA Grown ==
  ASSUME NEW S, NEW s \in Seq(S), NEW x \in S
  PROVE  LET t == Append(s, x)
             n == Len(s) + 1
         IN /\ t \in Seq(S) /\ Len(t) = n /\ n \notin DOMAIN s /\ DOMAIN t = DOMAIN s \cup {n}
            /\ t[n] = x /\ \A i \in DOMAIN s : t[i] = s[i]
<1>1. Append(s, x) \in Seq(S) /\ Len(Append(s, x)) = Len(s) + 1 /\ Append(s, x)[Len(s) + 1] = x
      /\ \A i \in 1 .. Len(s) : Append(s, x)[i] = s[i]
  BY AppendProperties
<1>2. DOMAIN s = 1 .. Len(s) /\ Len(s) \in Nat /\ DOMAIN Append(s, x) = 1 .. Len(Append(s, x)) BY <1>1
<1> QED BY <1>1, <1>2

\* The root of a new attempt is empty.
LEMMA RootMade ==
  ASSUME NEW a \in Attempts, AttemptInv(a), tree[a] = NoTree, index[a] = None, record[a] = NoTree,
         tree'[a] = [NoTree EXCEPT !.dir = TRUE], index'[a] = index[a], record'[a] = record[a],
         a \in DOMAIN recipeOf', dead' = dead
  PROVE  AttemptInv(a)' /\ tree'[a] \in Trees /\ tree'[a].dir /\ tree'[a].cur = None /\ tree'[a].events = << >>
<1>1. tree'[a] \in Trees /\ tree'[a].dir /\ tree'[a].cur = None /\ tree'[a].events = << >> BY NoTreeTyped DEF Trees
<1>2. RegistryInv(a)' /\ JournalInv(a)' BY <1>1 DEF RegistryInv, JournalInv
<1>3. RecordInv(a)' /\ IndexInv(a)' BY <1>1, NoTreeTyped DEF RecordInv, IndexInv
<1>4. BirthInv(a)' BY <1>1, NoTreeTyped DEF BirthInv
<1> QED BY <1>1, <1>2, <1>3, <1>4 DEF AttemptInv

\* An attempt is begun with a root of its own.
LEMMA AllocateStep ==
  ASSUME IInv, NEW p \in Procs, Allocate(p)
  PROVE  Own(p)
<1>1. at[p] = "allocate" /\ UNCHANGED <<dead, index, record>> /\ trouble' = trouble /\ at[p] \notin Working
      /\ at[p] \notin Writing
  BY DEF Allocate, At, Working, Writing
<1>2. Typed /\ LockInv(p) /\ JobInv(p) /\ SettleInv(p) /\ job[p] \in Jobs BY InvOf
<1>3. PICK a \in Nat : a = Len(recipeOf) + 1 BY <1>2 DEF Typed
<1>4. CASE ~(allocLock = Nobody /\ a <= MaxAttempts)
 <2>1. Leave(p, "busy") /\ UNCHANGED <<recipeOf, maker, tree>> BY <1>3, <1>4 DEF Allocate
 <2>2. "busy" \in Reasons /\ UNCHANGED <<bornVars, storeVars, trouble>> BY <1>1, <2>1 DEF Reasons, bornVars, storeVars
 <2> QED BY <1>1, <2>1, <2>2, QuietLeave
<1>5. CASE allocLock = Nobody /\ a <= MaxAttempts
 <2> DEFINE j == [job[p] EXCEPT !.attempt = a, !.to = "allocated", !.outcome = "none"]
            r == job[p].recipe
 <2>1. /\ allocLock' = p /\ recipeOf' = Append(recipeOf, r) /\ maker' = Append(maker, p)
       /\ tree' = [tree EXCEPT ![a].dir = TRUE]
       /\ job' = [job EXCEPT ![p] = j] /\ at' = [at EXCEPT ![p] = "write"] /\ UNCHANGED <<why, recipeLock>>
   BY <1>3, <1>5 DEF Allocate, Set, Goto
 <2>2. r \in Recipes /\ job[p].by = "begin" /\ job[p].by # "none" BY <1>1, <1>2 DEF LockInv, JobInv
 <2>3. /\ recipeOf' \in Seq(Recipes) /\ Len(recipeOf') = a /\ a \notin DOMAIN recipeOf
       /\ DOMAIN recipeOf' = DOMAIN recipeOf \cup {a} /\ recipeOf'[a] = r
       /\ \A b \in DOMAIN recipeOf : recipeOf'[b] = recipeOf[b]
   BY <1>2, <1>3, <2>1, <2>2, Grown DEF Typed
 <2>4. /\ maker' \in Seq(Procs) /\ Len(maker') = a /\ maker'[a] = p
       /\ \A b \in DOMAIN recipeOf : maker'[b] = maker[b]
  <3>1. maker \in Seq(Procs) /\ Len(maker) = Len(recipeOf) /\ DOMAIN maker = DOMAIN recipeOf BY <1>2 DEF Typed
  <3> QED BY <1>3, <2>1, <3>1, Grown
 <2>5. a \in Attempts /\ a \in 0 .. MaxAttempts
  <3>1. Len(recipeOf) \in Nat BY <1>2 DEF Typed
  <3> QED BY <1>3, <1>5, <3>1, AttemptAssumption DEF Attempts
 <2>6. j \in Jobs /\ j.recipe = r /\ j.by = "begin" /\ j.attempt = a /\ j.to = "allocated" /\ j.outcome = "none"
  <3>1. \A n \in 0 .. MaxAttempts :
          LET k == [job[p] EXCEPT !.attempt = n, !.to = "allocated", !.outcome = "none"] IN
            k \in Jobs /\ k.recipe = r /\ k.by = job[p].by /\ k.attempt = n /\ k.to = "allocated" /\ k.outcome = "none"
    BY <1>2 DEF Jobs, States, Outcomes
  <3> QED BY <2>2, <2>5, <3>1
 <2> HIDE DEF j
 <2>7. at'[p] = "write" /\ job'[p] = j /\ \A q \in Procs \ {p} : at'[q] = at[q] /\ job'[q] = job[q]
   BY <1>2, <2>1 DEF Typed
 <2>8. ProcTyped' BY <1>2, <2>1, <2>6 DEF Typed, ProcTyped, Labels, Working, Writing
 <2>9. Alone(p) BY <1>5, <2>1, <2>7, NamesAssumption DEF Alone
 <2>10. AttemptInv(a) /\ tree[a] = NoTree /\ index[a] = None /\ record[a] = NoTree
   BY <2>3, <2>5 DEF IInv, AttemptInv, BirthInv
 <2>11. /\ tree'[a] = [NoTree EXCEPT !.dir = TRUE] /\ index'[a] = index[a] /\ record'[a] = record[a]
        /\ \A b \in Attempts \ {a} : Untouched(b)
   BY <1>1, <1>2, <2>1, <2>5, <2>10 DEF Typed, Untouched
 <2>12. AttemptInv(a)' /\ tree'[a] \in Trees /\ tree'[a].dir /\ tree'[a].cur = None /\ tree'[a].events = << >>
   BY <1>1, <2>3, <2>5, <2>10, <2>11, RootMade
 <2>13. Typed'
  <3>1. tree' \in [Attempts -> Trees]
   <4>1. tree' = [tree EXCEPT ![a] = tree'[a]] BY <1>2, <2>1, <2>5 DEF Typed
   <4> QED BY <1>2, <2>12, <4>1 DEF Typed
  <3>2. DOMAIN recipeOf' \subseteq Attempts /\ dead' \subseteq DOMAIN recipeOf' BY <1>1, <1>2, <2>3, <2>5 DEF Typed
  <3> QED BY <1>1, <1>2, <2>3, <2>4, <2>8, <3>1, <3>2 DEF Typed, ProcTyped
 <2>14. Apart(p)
  <3>1. BornAlone(p) BY <1>1, <2>3, <2>4 DEF BornAlone
  <3>2. FilesAlone(p) BY <2>3, <2>11 DEF FilesAlone
  <3> QED BY <2>9, <3>1, <3>2 DEF Apart
 <2>15. \A b \in Attempts : AttemptInv(b)'
  <3> SUFFICES ASSUME NEW b \in Attempts \ {a} PROVE AttemptInv(b)' BY <2>12
  <3>1. AttemptInv(b) /\ dead \subseteq dead' /\ (b \in DOMAIN recipeOf => b \in DOMAIN recipeOf')
    BY <1>1, <2>3 DEF IInv
  <3> QED BY <2>11, <3>1, AttemptKept
 <2>16. Allocating(p)' /\ Mine(p)' = a /\ Root(p)' = tree'[a] /\ "write" \in Working /\ "write" \in Writing
        /\ ~Sweeping(p)'
   BY <2>6, <2>7 DEF Allocating, Writing, Working, Mine, Root, Sweeping
 <2>17. LockInv(p)'
  <3>1. \A x \in Recipes : recipeLock'[x] = p <=> job'[p].recipe = x BY <1>2, <2>1, <2>6, <2>7 DEF LockInv
  <3>2. job'[p] # NoJob BY <2>6, <2>7, NoJobTyped
  <3> QED BY <2>1, <2>2, <2>6, <2>7, <2>16, <3>1, <3>2 DEF LockInv
 <2>18. JobInv(p)'
  <3>1. a \in DOMAIN recipeOf' /\ recipeOf'[a] = r /\ maker'[a] = p /\ a \notin dead'
    BY <1>1, <1>2, <2>3, <2>4 DEF Typed
  <3> QED BY <2>6, <2>7, <2>16, <3>1 DEF JobInv
 <2>19. OutcomeInv(p)' /\ EventInv(p)' /\ StageInv(p)'
  <3>1. OutcomeInv(p)' BY <2>6, <2>7 DEF OutcomeInv
  <3>2. EventInv(p)' BY <2>7 DEF EventInv
  <3>3. StageInv(p)' BY <2>6, <2>7 DEF StageInv
  <3> QED BY <3>1, <3>2, <3>3
 <2>20. WriteInv(p)'
  <3>1. job'[p].to = "allocated" /\ index'[Mine(p)'] = None BY <2>6, <2>7, <2>10, <2>11, <2>16
  <3> QED BY <2>12, <2>16, <3>1 DEF WriteInv
 <2>21. SettleInv(p)'
  <3>1. \A b \in Brothers(p)' \ {a} : b \in Brothers(p) /\ b \in Attempts \ {a}
    BY <1>2, <2>3, <2>6, <2>7 DEF Brothers, Typed
  <3>2. \A b \in Brothers(p)' \ {a} : Settled(b)' BY <1>1, <1>2, <2>11, <3>1 DEF SettleInv, Settled, Untouched
  <3> QED BY <2>7, <2>16, <3>2 DEF SettleInv
 <2>22. CalmOwn(p)
  <3>1. \A b \in Attempts : tree'[b].dir => tree[b].dir \/ b = a BY <2>11 DEF Untouched
  <3> QED BY <1>1, <2>6, <2>7, <2>16, <3>1 DEF CalmOwn
 <2> QED BY <1>1, <2>13, <2>14, <2>15, <2>17, <2>18, <2>19, <2>20, <2>21, <2>22 DEF Own, ProcInv
<1> QED BY <1>4, <1>5

----------------------------------------
(* Steps of a transition *)

\* A root may have any number of temps, but not less than the record was made with.
LEMMA TempsChanged ==
  ASSUME NEW a \in Attempts, AttemptInv(a), tree[a].dir, tree'[a].dir, tree'[a].cur = tree[a].cur,
         tree'[a].events = tree[a].events,
         record[a] # NoTree /\ tree[a].cur.state = "finalizing" => record[a].temps <= tree'[a].temps,
         index'[a] = index[a], record'[a] = record[a], UNCHANGED <<recipeOf, maker>>, dead \subseteq dead'
  PROVE  AttemptInv(a)'
<1>1. tree[a] # NoTree BY NoTreeTyped
<1>2. RegistryInv(a)' BY DEF AttemptInv, RegistryInv
<1>3. JournalInv(a)' BY DEF AttemptInv, JournalInv, Whole
<1>4. RecordInv(a)' BY DEF AttemptInv, RecordInv
<1>5. IndexInv(a)' BY <1>1 DEF AttemptInv, IndexInv
<1>6. BirthInv(a)' BY <1>1 DEF AttemptInv, BirthInv
<1> QED BY <1>2, <1>3, <1>4, <1>5, <1>6 DEF AttemptInv

\* A process that goes on with the transition of its job
LEMMA GoesOn ==
  ASSUME IInv, NEW p \in Procs, at[p] \in Writing, NEW l \in Working, UNCHANGED <<job, why, lockVars>>,
         Goto(p, l), UNCHANGED <<bornVars>>, l \in Writing \/ ~Allocating(p),
         l \in {"open", "active", "finally"} => job[p].by = "session",
         \A a \in Brothers(p) \ {Mine(p)} : Untouched(a)
  PROVE  /\ ProcTyped' /\ Alone(p) /\ at'[p] = l /\ job'[p] = job[p] /\ Mine(p)' = Mine(p) /\ Root(p)' = tree'[Mine(p)]
         /\ LockInv(p)' /\ JobInv(p)' /\ SettleInv(p)'
<1>1. Typed /\ LockInv(p) /\ JobInv(p) /\ job[p] \in Jobs BY InvOf
<1>2. l \in Labels \ {"idle", "sweep"} /\ at[p] \notin {"idle", "sweep"} /\ at[p] \in Working
      /\ l \in Working \cup {"end"}
  BY DEF Labels, Working, Writing
<1>3. Set(p, job[p]) /\ UNCHANGED <<why, lockVars>> BY <1>1, SetSame
<1>4. job[p].by # "none" /\ ((l \in Writing /\ job[p].to = "allocated") <=> Allocating(p))
  BY <1>1, <1>2 DEF Allocating, LockInv
<1>5. ProcTyped' /\ Alone(p) /\ at'[p] = l /\ job'[p] = job[p] /\ LockInv(p)' BY <1>1, <1>2, <1>3, <1>4, Moved
<1>6. Allocating(p)' <=> Allocating(p) BY <1>4, <1>5 DEF Allocating
<1>7. Sweeping(p)' <=> Sweeping(p) BY <1>2, <1>5, <1>6 DEF Sweeping, Working, Writing
<1>8. JobInv(p)'
 <2>1. job[p].to # "none" /\ (Allocating(p) => job[p].by = "begin")
       /\ (job[p].to = "active" => job[p].by = "session")
   BY <1>1 DEF JobInv
 <2>2. l # "end" BY DEF Working, Writing
 <2> QED BY <1>2, <1>5, <1>6, <2>1, <2>2, SameJob
<1>9. SettleInv(p)'
 <2>1. at'[p] # "end" BY <1>5 DEF Working, Writing
 <2> QED BY <1>2, <1>5, <1>7, <2>1, SameBrothers
<1> QED BY <1>5, <1>8, <1>9 DEF Mine, Root

\* A temp is written beside the registry.
LEMMA WriteStep ==
  ASSUME IInv, NEW p \in Procs, Write(p)
  PROVE  Own(p)
<1>1. /\ at[p] = "write" /\ Goto(p, "replace") /\ UNCHANGED <<job, why, lockVars>> /\ UNCHANGED <<bornVars>>
      /\ UNCHANGED <<index, record>> /\ trouble' = trouble /\ at[p] \in Writing /\ at[p] \in Working
      /\ "replace" \in Working /\ "replace" \in Writing
  BY DEF Write, At, Writing, Working
<1>2. Typed /\ LockInv(p) /\ JobInv(p) /\ OutcomeInv(p) /\ WriteInv(p) /\ StageInv(p) /\ CalmInv BY InvOf
<1>3. PICK a \in Attempts : /\ a = Mine(p) /\ tree[a] \in Trees /\ record[a] \in Trees /\ AttemptInv(a)
                            /\ Root(p) = tree[a] /\ a \in Brothers(p)
  BY <1>1, InvOf DEF Root
<1> DEFINE n == tree[a].temps + 1
           t == [tree[a] EXCEPT !.temps = n]
<1>4. n \in Int /\ (record[a].temps <= tree[a].temps => record[a].temps < n) /\ tree[a].temps < n
 <2>1. tree[a].temps \in Int /\ record[a].temps \in Int BY <1>3 DEF Trees
 <2> QED BY <2>1
<1> HIDE DEF n
<1>5. t \in Trees /\ t.dir = tree[a].dir /\ t.cur = tree[a].cur /\ t.temps = n /\ t.events = tree[a].events
  BY <1>3, <1>4, TreeFields
<1>6. tree' = [tree EXCEPT ![a] = t] BY <1>2, <1>3 DEF Write, Typed, n
<1> HIDE DEF t
<1>7. /\ FilesTyped' /\ tree'[a] = t /\ index'[a] = index[a] /\ record'[a] = record[a]
      /\ \A b \in Attempts \ {a} : Untouched(b)
 <2>1. trouble' \in 0 .. MaxTrouble BY <1>1, <1>2 DEF Typed
 <2> QED BY <1>1, <1>3, <1>5, <1>6, <2>1, TreeSet
<1>8. tree[a].dir /\ (record[a] # NoTree /\ tree[a].cur.state = "finalizing" => record[a].temps < n)
  BY <1>1, <1>2, <1>3, <1>4 DEF WriteInv, AttemptInv, RecordInv
<1>9. AttemptInv(a)'
 <2>1. record[a] # NoTree /\ tree[a].cur.state = "finalizing" => record[a].temps <= n
  <3>1. record[a].temps \in Int BY <1>3 DEF Trees
  <3> QED BY <1>4, <1>8, <3>1
 <2>2. UNCHANGED <<recipeOf, maker>> /\ dead \subseteq dead' BY <1>1 DEF bornVars
 <2> QED BY <1>3, <1>5, <1>7, <1>8, <2>1, <2>2, TempsChanged
<1>10. /\ ProcTyped' /\ Alone(p) /\ at'[p] = "replace" /\ job'[p] = job[p] /\ Mine(p)' = a /\ Root(p)' = t
       /\ LockInv(p)' /\ JobInv(p)' /\ SettleInv(p)'
 <2>1. \A b \in Brothers(p) \ {Mine(p)} : Untouched(b) BY <1>2, <1>3, <1>7 DEF Brothers, Typed
 <2> QED BY <1>1, <1>3, <1>7, <2>1, GoesOn
<1>11. WriteInv(p)'
 <2>1. ChainHolds(tree[a]) => ChainHolds(t) BY <1>5 DEF ChainHolds
 <2>2. job[p].to = "record-published" => record[a].temps < n
  <3>1. job[p].to = "record-published" => tree[a].cur.state = "finalizing" /\ record[a] # NoTree
    BY <1>1, <1>2, <1>3, RegFields DEF WriteInv
  <3> QED BY <1>8, <3>1
 <2> QED BY <1>1, <1>2, <1>3, <1>5, <1>7, <1>10, <2>1, <2>2 DEF WriteInv
<1>12. OutcomeInv(p)' /\ EventInv(p)' /\ StageInv(p)'
 <2>1. OutcomeInv(p)' BY <1>1, <1>2, <1>3, <1>10 DEF OutcomeInv, bornVars
 <2>2. EventInv(p)' BY <1>10 DEF EventInv
 <2>3. StageInv(p)' BY <1>2, <1>3, <1>7, <1>10 DEF StageInv
 <2> QED BY <2>1, <2>2, <2>3
<1>13. CalmOwn(p)
 <2>1. \A b \in Attempts : tree'[b].dir => tree[b].dir BY <1>5, <1>7 DEF Untouched
 <2>2. job'[p].attempt = Mine(p) BY <1>10 DEF Mine
 <2> QED BY <1>1, <1>10, <2>1, <2>2 DEF CalmOwn
<1> QED BY <1>1, <1>3, <1>7, <1>9, <1>10, <1>11, <1>12, <1>13, TouchedOwn DEF ProcInv

\* A registry that a transition may put in place of the one it starts from
LEMMA RegistryPut ==
  ASSUME NEW a \in Attempts, AttemptInv(a), tree[a] \in Trees, index[a] \in Entries, tree[a].dir, tree'[a].dir,
         NEW s \in States, NEW o \in Outcomes \cup {"none"},
         tree'[a].cur = Reg(s, o), tree'[a].events = tree[a].events,
         \/ s = "allocated" /\ o = "none" /\ tree[a].cur = None /\ tree[a].events = << >> /\ index[a] = None
         \/ s = "active" /\ o = "none" /\ tree[a].cur = Reg("allocated", "none") /\ ChainHolds(tree[a])
         \/ s = "finalizing" /\ o \in Outcomes /\ Undecided(tree[a].cur) /\ ChainHolds(tree[a])
         \/ /\ s = "record-published" /\ o \in Outcomes /\ tree[a].cur = Reg("finalizing", o)
            /\ ChainHolds(tree[a]) /\ record[a] # NoTree,
         o = "interrupted" => a \in dead,
         index'[a] = index[a], record'[a] = record[a], UNCHANGED bornVars
  PROVE  /\ AttemptInv(a)' /\ tree[a].events # Gap /\ Legal(LastOf(tree[a].events), s)
         /\ s # "record-published" => record[a] = NoTree
<1>1. UNCHANGED <<recipeOf, maker, dead>> /\ tree[a] # NoTree BY NoTreeTyped DEF bornVars
<1>2. /\ tree'[a].cur.state = s /\ tree'[a].cur.outcome = o /\ tree'[a].cur # None
      /\ tree[a].cur = None => tree[a].cur.state = "none" /\ tree[a].cur.outcome = "none"
      /\ Undecided(tree[a].cur) => tree[a].cur.state \in {"allocated", "active"} /\ tree[a].cur.outcome = "none"
                                   /\ tree[a].cur # None
      /\ tree[a].cur = Reg("allocated", "none") => Undecided(tree[a].cur) /\ tree[a].cur.state = "allocated"
      /\ tree[a].cur = Reg("finalizing", o) => tree[a].cur.state = "finalizing" /\ tree[a].cur.outcome = o
                                               /\ tree[a].cur # None
  BY RegFields, NoTreeTyped DEF Undecided, States
<1>3. tree[a].events # Gap /\ Legal(LastOf(tree[a].events), s)
 <2>1. tree[a].events = << >> => tree[a].events # Gap /\ LastOf(tree[a].events) = "none" BY DEF Gap, LastOf
 <2>2. ChainHolds(tree[a]) => tree[a].events # Gap /\ LastOf(tree[a].events) = tree[a].cur.state BY DEF ChainHolds
 <2> QED BY <1>2, <2>1, <2>2 DEF Legal
<1>4. s # "record-published" => record[a] = NoTree
 <2>1. index[a] = None => index[a].state = "none" BY NoTreeTyped
 <2> QED BY <1>2, <2>1 DEF AttemptInv, RecordInv
<1>5. index[a].state \notin {"record-published", "torn-down"} /\ index[a].state # "gap"
      /\ (index[a].state = "none" => index[a] = None)
 <2>1. index[a] = None => index[a].state = "none" BY NoTreeTyped
 <2> QED BY <1>1, <1>2, <2>1 DEF AttemptInv, IndexInv
<1>6. RegistryInv(a)'
 <2>1. s \in {"allocated", "active"} => Undecided(tree'[a].cur) BY DEF Undecided
 <2> QED BY <1>2, <2>1 DEF RegistryInv
<1>7. JournalInv(a)' BY <1>2, <1>3 DEF JournalInv, Whole
<1>8. RecordInv(a)' BY <1>2, <1>4 DEF AttemptInv, RecordInv
<1>9. IndexInv(a)' BY <1>2, <1>5 DEF IndexInv
<1>10. BirthInv(a)' BY <1>1, <1>2 DEF AttemptInv, BirthInv
<1> QED BY <1>3, <1>4, <1>6, <1>7, <1>8, <1>9, <1>10 DEF AttemptInv

\* The registry goes to the next state, with the outcome of the job.
LEMMA ReplaceStep ==
  ASSUME IInv, NEW p \in Procs, Replace(p)
  PROVE  Own(p)
<1>1. /\ at[p] = "replace" /\ Goto(p, "event") /\ UNCHANGED <<job, why, lockVars>> /\ UNCHANGED <<bornVars>>
      /\ UNCHANGED <<index, record>> /\ trouble' = trouble /\ at[p] \in Writing /\ at[p] \in Working
      /\ "event" \in Working /\ "event" \in Writing
  BY DEF Replace, At, Writing, Working
<1>2. Typed /\ LockInv(p) /\ JobInv(p) /\ OutcomeInv(p) /\ WriteInv(p) /\ StageInv(p) /\ job[p] \in Jobs BY InvOf
<1>3. PICK a \in Attempts : /\ a = Mine(p) /\ tree[a] \in Trees /\ AttemptInv(a) /\ Root(p) = tree[a]
                            /\ a \in Brothers(p) /\ index[a] \in Entries
  BY <1>1, <1>2, InvOf DEF Root, Typed, Entries
<1>4. PICK n \in Int : n = tree[a].temps - 1
 <2>1. tree[a].temps \in Int BY <1>3 DEF Trees
 <2> QED BY <2>1
<1>5. PICK s \in States, o \in Outcomes \cup {"none"} :
        s = job[p].to /\ o = job[p].outcome /\ s \in Names /\ s # "torn-down"
  BY <1>1, <1>2 DEF Jobs, JobInv, WriteInv, Names
<1> DEFINE t == [tree[a] EXCEPT !.temps = n, !.cur = Reg(s, o)]
<1>6. t \in Trees /\ t.dir = tree[a].dir /\ t.cur = Reg(s, o) /\ t.events = tree[a].events
 <2> DEFINE c == Reg(s, o)
            b == tree[a]
 <2>1. c \in [state : Names, outcome : Outcomes \cup {"none"}] /\ b \in Trees BY <1>3, <1>5 DEF Reg
 <2> HIDE DEF c, b
 <2>2. t = [b EXCEPT !.temps = n, !.cur = c] BY DEF c, b
 <2> HIDE DEF t
 <2>3. t \in Trees /\ t.dir = b.dir /\ t.events = b.events /\ t.cur = c BY <2>1, <2>2 DEF Trees
 <2> QED BY <2>3 DEF c, b
<1>7. tree' = [tree EXCEPT ![a] = t] BY <1>2, <1>3, <1>4, <1>5 DEF Replace, Typed
<1> HIDE DEF t
<1>8. /\ FilesTyped' /\ tree'[a] = t /\ index'[a] = index[a] /\ record'[a] = record[a]
      /\ \A b \in Attempts \ {a} : Untouched(b)
 <2>1. trouble' \in 0 .. MaxTrouble BY <1>1, <1>2 DEF Typed
 <2> QED BY <1>1, <1>3, <1>6, <1>7, <2>1, TreeSet
<1>9. tree[a].dir BY <1>1, <1>2, <1>3 DEF WriteInv
<1>10. \/ s = "allocated" /\ o = "none" /\ tree[a].cur = None /\ tree[a].events = << >> /\ index[a] = None
       \/ s = "active" /\ o = "none" /\ tree[a].cur = Reg("allocated", "none") /\ ChainHolds(tree[a])
       \/ s = "finalizing" /\ o \in Outcomes /\ Undecided(tree[a].cur) /\ ChainHolds(tree[a])
       \/ /\ s = "record-published" /\ o \in Outcomes /\ tree[a].cur = Reg("finalizing", o)
          /\ ChainHolds(tree[a]) /\ record[a] # NoTree
 <2>1. s \in {"allocated", "active", "finalizing", "record-published"} BY <1>5 DEF States
 <2>2. s \in {"allocated", "active"} => o = "none" BY <1>1, <1>2, <1>5 DEF OutcomeInv
 <2>3. s \in {"finalizing", "record-published"} => o \in Outcomes BY <1>1, <1>2, <1>5 DEF OutcomeInv
 <2> QED BY <1>1, <1>2, <1>3, <1>5, <2>1, <2>2, <2>3 DEF WriteInv
<1>11. o = "interrupted" => a \in dead
 <2>1. o = "interrupted" => s \in {"finalizing", "record-published"} BY <1>10
 <2> QED BY <1>1, <1>2, <1>3, <2>1, <1>5 DEF OutcomeInv
<1>12. AttemptInv(a)' /\ tree[a].events # Gap /\ Legal(LastOf(tree[a].events), s)
       /\ (s # "record-published" => record[a] = NoTree)
  BY <1>1, <1>3, <1>5, <1>6, <1>8, <1>9, <1>10, <1>11, RegistryPut
<1>13. /\ ProcTyped' /\ Alone(p) /\ at'[p] = "event" /\ job'[p] = job[p] /\ Mine(p)' = a /\ Root(p)' = t
       /\ LockInv(p)' /\ JobInv(p)' /\ SettleInv(p)'
 <2>1. \A b \in Brothers(p) \ {Mine(p)} : Untouched(b) BY <1>2, <1>3, <1>8 DEF Brothers, Typed
 <2> QED BY <1>1, <1>3, <1>8, <2>1, GoesOn
<1>14. EventInv(p)' BY <1>5, <1>6, <1>8, <1>9, <1>12, <1>13 DEF EventInv
<1>15. OutcomeInv(p)' /\ WriteInv(p)' /\ StageInv(p)'
 <2>1. OutcomeInv(p)' BY <1>1, <1>2, <1>3, <1>13 DEF OutcomeInv, bornVars
 <2>2. WriteInv(p)' BY <1>13 DEF WriteInv
 <2>3. StageInv(p)' BY <1>2, <1>3, <1>8, <1>13 DEF StageInv
 <2> QED BY <2>1, <2>2, <2>3
<1>16. CalmOwn(p)
 <2>1. \A b \in Attempts : tree'[b].dir => tree[b].dir BY <1>6, <1>8 DEF Untouched
 <2>2. job'[p].attempt = Mine(p) BY <1>13 DEF Mine
 <2> QED BY <1>1, <1>13, <2>1, <2>2 DEF CalmOwn
<1> QED BY <1>1, <1>3, <1>8, <1>12, <1>13, <1>14, <1>15, <1>16, TouchedOwn DEF ProcInv

\* The event of the transition is written, and the journal is whole again.
LEMMA EventStep ==
  ASSUME IInv, NEW p \in Procs, Event(p)
  PROVE  Own(p)
<1>1. /\ at[p] = "event" /\ Goto(p, "index") /\ UNCHANGED <<job, why, lockVars>> /\ UNCHANGED <<bornVars>>
      /\ UNCHANGED <<index, record>> /\ trouble' = trouble /\ at[p] \in Writing /\ at[p] \in Working
      /\ "index" \in Working /\ "index" \in Writing
  BY DEF Event, At, Writing, Working
<1>2. Typed /\ LockInv(p) /\ JobInv(p) /\ OutcomeInv(p) /\ EventInv(p) /\ StageInv(p) /\ job[p] \in Jobs BY InvOf
<1>3. PICK a \in Attempts : /\ a = Mine(p) /\ tree[a] \in Trees /\ AttemptInv(a) /\ Root(p) = tree[a]
                            /\ a \in Brothers(p)
  BY <1>1, <1>2, InvOf DEF Root
<1> DEFINE s == job[p].to
           e == Append(tree[a].events, s)
           t == [tree[a] EXCEPT !.events = e]
<1>4. s \in States /\ s # "torn-down" /\ tree[a].dir /\ tree[a].cur = Reg(s, job[p].outcome)
      /\ tree[a].cur.state = s
 <2>1. s \in States /\ s # "torn-down" /\ tree[a].dir /\ tree[a].cur = Reg(s, job[p].outcome)
   BY <1>1, <1>2, <1>3 DEF Jobs, JobInv, EventInv
 <2> QED BY <2>1, RegFields
<1>5. e \in Seq(Names) /\ LastOf(e) = s /\ e # Gap
 <2>1. tree[a].events \in Seq(Names) BY <1>3 DEF Trees
 <2> QED BY <1>4, <2>1, LastAppended
<1> HIDE DEF e
<1>6. t \in Trees /\ t.dir = tree[a].dir /\ t.cur = tree[a].cur /\ t.temps = tree[a].temps /\ t.events = e
  BY <1>3, <1>5, TreeFields
<1>7. tree' = [tree EXCEPT ![a] = t] BY <1>2, <1>3 DEF Event, Typed, e
<1> HIDE DEF s, t
<1>8. /\ FilesTyped' /\ tree'[a] = t /\ index'[a] = index[a] /\ record'[a] = record[a]
      /\ \A b \in Attempts \ {a} : Untouched(b)
 <2>1. trouble' \in 0 .. MaxTrouble BY <1>1, <1>2 DEF Typed
 <2> QED BY <1>1, <1>3, <1>6, <1>7, <2>1, TreeSet
<1>9. ChainHolds(t) BY <1>4, <1>5, <1>6 DEF ChainHolds
<1>10. s = "finalizing" => record[a] = NoTree BY <1>1, <1>2, <1>3 DEF EventInv, s
<1>11. AttemptInv(a)'
 <2>1. tree[a] # NoTree /\ UNCHANGED <<recipeOf, maker, dead>> BY <1>1, <1>4, NoTreeTyped DEF bornVars
 <2>2. RegistryInv(a)' BY <1>3, <1>6, <1>8 DEF AttemptInv, RegistryInv
 <2>3. JournalInv(a)' BY <1>4, <1>6, <1>8, <1>9, HoldsWhole DEF JournalInv
 <2>4. RecordInv(a)' BY <1>3, <1>4, <1>6, <1>8, <1>10 DEF AttemptInv, RecordInv
 <2>5. IndexInv(a)' BY <1>3, <1>6, <1>8, <2>1 DEF AttemptInv, IndexInv
 <2>6. BirthInv(a)' BY <1>3, <1>6, <1>8, <2>1 DEF AttemptInv, BirthInv
 <2> QED BY <2>2, <2>3, <2>4, <2>5, <2>6 DEF AttemptInv
<1>12. /\ ProcTyped' /\ Alone(p) /\ at'[p] = "index" /\ job'[p] = job[p] /\ Mine(p)' = a /\ Root(p)' = t
       /\ LockInv(p)' /\ JobInv(p)' /\ SettleInv(p)'
 <2>1. \A b \in Brothers(p) \ {Mine(p)} : Untouched(b) BY <1>2, <1>3, <1>8 DEF Brothers, Typed
 <2> QED BY <1>1, <1>3, <1>8, <2>1, GoesOn
<1>13. EventInv(p)' BY <1>4, <1>6, <1>8, <1>9, <1>10, <1>12 DEF EventInv, s
<1>14. OutcomeInv(p)' /\ WriteInv(p)' /\ StageInv(p)'
 <2>1. OutcomeInv(p)' BY <1>1, <1>2, <1>3, <1>12 DEF OutcomeInv, bornVars
 <2>2. WriteInv(p)' BY <1>12 DEF WriteInv
 <2>3. StageInv(p)' BY <1>2, <1>3, <1>8, <1>12 DEF StageInv
 <2> QED BY <2>1, <2>2, <2>3
<1>15. CalmOwn(p)
 <2>1. \A b \in Attempts : tree'[b].dir => tree[b].dir BY <1>6, <1>8 DEF Untouched
 <2>2. job'[p].attempt = Mine(p) BY <1>12 DEF Mine
 <2> QED BY <1>1, <1>12, <2>1, <2>2 DEF CalmOwn
<1> QED BY <1>1, <1>3, <1>8, <1>11, <1>12, <1>13, <1>14, <1>15, TouchedOwn DEF ProcInv

\* The index may say what the registry says.
LEMMA EntryStored ==
  ASSUME NEW a \in Attempts, AttemptInv(a), tree[a].dir, NEW s \in States \ {"torn-down"},
         NEW o \in Outcomes \cup {"none"}, tree[a].cur = Reg(s, o), ChainHolds(tree[a]),
         index'[a] = Reg(s, o), tree'[a] = tree[a], record'[a] = record[a], UNCHANGED bornVars
  PROVE  AttemptInv(a)'
<1>1. /\ tree[a] # NoTree /\ UNCHANGED <<recipeOf, maker, dead>> /\ tree[a].cur # None
      /\ tree[a].cur.state = s /\ tree[a].cur.outcome = o /\ index'[a].state = s /\ index'[a].outcome = o
      /\ s \notin {"none", "gap", "torn-down"}
  BY RegFields, NoTreeTyped DEF bornVars, States
<1>2. RegistryInv(a)' /\ JournalInv(a)' BY <1>1, HoldsWhole DEF AttemptInv, RegistryInv, JournalInv
<1>3. RecordInv(a)' BY <1>1 DEF AttemptInv, RecordInv
<1>4. IndexInv(a)' BY <1>1 DEF AttemptInv, IndexInv, RecordInv
<1>5. BirthInv(a)' BY <1>1 DEF AttemptInv, BirthInv
<1> QED BY <1>2, <1>3, <1>4, <1>5 DEF AttemptInv

\* The index has the state of the registry, and the next stage begins.
LEMMA StoreStep ==
  ASSUME IInv, NEW p \in Procs, Store(p)
  PROVE  Own(p)
<1>1. /\ at[p] = "index" /\ UNCHANGED <<bornVars>> /\ UNCHANGED <<why, recipeLock>>
      /\ UNCHANGED <<tree, record>> /\ trouble' = trouble /\ at[p] \in Writing /\ at[p] \in Working
      /\ at[p] \notin {"idle", "sweep"} /\ Goto(p, NextOf(p))
  BY DEF Store, At, Writing, Working
<1>2. Typed /\ LockInv(p) /\ JobInv(p) /\ OutcomeInv(p) /\ EventInv(p) /\ StageInv(p) /\ SettleInv(p)
      /\ job[p] \in Jobs
  BY InvOf
<1>3. PICK a \in Attempts : /\ a = Mine(p) /\ tree[a] \in Trees /\ AttemptInv(a) /\ Root(p) = tree[a]
                            /\ a \in Brothers(p)
  BY <1>1, <1>2, InvOf DEF Root
<1>4. PICK s \in States, o \in Outcomes \cup {"none"} : s = job[p].to /\ o = job[p].outcome
  BY <1>1, <1>2 DEF Jobs, JobInv
<1> DEFINE i == Reg(s, o)
<1>5. i \in Entries /\ i.state = s /\ i.outcome = o BY RegFields DEF Entries, Reg, Names, States
<1>6. index' = [index EXCEPT ![a] = i] BY <1>3, <1>4 DEF Store
<1> HIDE DEF i
<1>7. /\ FilesTyped' /\ index'[a] = i /\ tree'[a] = tree[a] /\ record'[a] = record[a]
      /\ \A b \in Attempts \ {a} : Untouched(b)
 <2>1. trouble' \in 0 .. MaxTrouble BY <1>1, <1>2 DEF Typed
 <2> QED BY <1>1, <1>5, <1>6, <2>1, IndexSet
<1>8. \A b \in Brothers(p) \ {Mine(p)} : Untouched(b) BY <1>2, <1>3, <1>7 DEF Brothers, Typed
<1>9. /\ s = "torn-down" => tree[a] = NoTree /\ index[a] = Reg("record-published", o)
      /\ s # "torn-down" => tree[a].dir /\ tree[a].cur = i /\ ChainHolds(tree[a])
      /\ s = "finalizing" => record[a] = NoTree
  BY <1>1, <1>2, <1>3, <1>4 DEF EventInv, i
<1>10. AttemptInv(a)'
 <2>1. CASE s = "torn-down"
  <3>1. index[a].state = "record-published" /\ index[a].outcome = o BY <1>9, <2>1, RegFields
  <3> QED BY <1>1, <1>3, <1>5, <1>7, <1>9, <2>1, <3>1, EntryClosed
 <2>2. CASE s # "torn-down" BY <1>1, <1>3, <1>7, <1>9, <2>2, EntryStored DEF i
 <2> QED BY <2>1, <2>2
<1>11. index'[a] # None BY <1>5, <1>7, NoTreeTyped DEF States
<1>12. \A b \in Attempts : tree'[b].dir => tree[b].dir BY <1>1
<1>13. CASE s = "allocated"
 <2> DEFINE j == [job[p] EXCEPT !.by = "session"]
 <2>1. at' = [at EXCEPT ![p] = "open"] /\ allocLock' = Nobody /\ job' = [job EXCEPT ![p] = j]
   BY <1>1, <1>4, <1>13 DEF Store, NextOf, Goto, Set
 <2>2. j \in Jobs /\ j.by = "session" /\ j.recipe = job[p].recipe /\ j.attempt = job[p].attempt
       /\ j.todo = job[p].todo /\ j.outcome = job[p].outcome /\ j.to = job[p].to
   BY <1>2, JobFields
 <2> HIDE DEF j
 <2>3. at'[p] = "open" /\ job'[p] = j /\ (\A q \in Procs \ {p} : at'[q] = at[q] /\ job'[q] = job[q])
       /\ "open" \in Labels /\ "open" \in Working /\ "open" \notin Writing
   BY <1>2, <2>1 DEF Typed, Labels, Working, Writing
 <2>4. Allocating(p) /\ allocLock = p /\ ~Allocating(p)' /\ ~Sweeping(p) /\ ~Sweeping(p)' /\ job[p].recipe \in Recipes
   BY <1>1, <1>2, <1>4, <1>13, <2>2, <2>3 DEF Allocating, Sweeping, LockInv
 <2>5. ProcTyped' BY <1>1, <1>2, <2>1, <2>2, <2>3 DEF Typed, ProcTyped
 <2>6. Alone(p) BY <1>1, <2>1, <2>3, <2>4, NamesAssumption DEF Alone
 <2>7. LockInv(p)'
  <3>1. \A x \in Recipes : recipeLock'[x] = p <=> job'[p].recipe = x BY <1>1, <1>2, <2>2, <2>3 DEF LockInv
  <3>2. job'[p] # NoJob /\ allocLock' # p BY <2>1, <2>2, <2>3, NoJobTyped, NamesAssumption
  <3> QED BY <2>2, <2>3, <2>4, <3>1, <3>2 DEF LockInv
 <2>8. JobInv(p)' BY <1>1, <2>2, <2>3, <2>4, SameJob
 <2>9. SettleInv(p)' BY <1>1, <1>8, <2>2, <2>3, <2>4, SameBrothers
 <2>10. Mine(p)' = a /\ Root(p)' = tree[a] BY <1>1, <1>3, <2>2, <2>3 DEF Mine, Root
 <2>11. job[p].outcome = "none" /\ o = "none" BY <1>1, <1>2, <1>4, <1>13 DEF OutcomeInv
 <2>12. OutcomeInv(p)' /\ WriteInv(p)' /\ EventInv(p)' BY <2>2, <2>3, <2>11 DEF OutcomeInv, WriteInv, EventInv
 <2>13. StageInv(p)' BY <1>9, <1>11, <1>13, <2>3, <2>10, <2>11 DEF StageInv, i
 <2>14. CalmOwn(p) BY <1>1, <1>12, <2>2, <2>3 DEF CalmOwn, Mine
 <2> QED BY <1>1, <1>3, <1>7, <1>10, <2>5, <2>6, <2>7, <2>8, <2>9, <2>12, <2>13, <2>14, TouchedOwn DEF ProcInv
<1>14. CASE s # "allocated"
 <2>1. UNCHANGED job /\ UNCHANGED <<why, lockVars>> /\ ~Allocating(p) /\ Set(p, job[p])
   BY <1>1, <1>2, <1>4, <1>14, SetSame DEF Store, lockVars, Allocating
 <2>2. CASE s # "torn-down"
  <3>1. PICK l \in {"active", "publish", "remove"} :
          /\ Goto(p, l) /\ (l = "active" <=> s = "active") /\ (l = "publish" <=> s = "finalizing")
          /\ (l = "remove" <=> s = "record-published")
    BY <1>1, <1>4, <1>14, <2>2 DEF NextOf, States
  <3>2. l \in Working /\ l \notin Writing /\ (l = "active" => job[p].by = "session")
    BY <1>1, <1>2, <1>4, <3>1 DEF JobInv, Working, Writing
  <3>3. /\ ProcTyped' /\ Alone(p) /\ at'[p] = l /\ job'[p] = job[p] /\ Mine(p)' = Mine(p) /\ Root(p)' = tree'[Mine(p)]
        /\ LockInv(p)' /\ JobInv(p)' /\ SettleInv(p)'
    BY <1>1, <1>8, <2>1, <3>1, <3>2, GoesOn
  <3>4. OutcomeInv(p)' BY <1>1, <1>2, <1>4, <3>1, <3>2, <3>3 DEF OutcomeInv, bornVars
  <3>5. WriteInv(p)' /\ EventInv(p)' BY <3>1, <3>3 DEF WriteInv, EventInv
  <3>6. l = "active" => o = "none" BY <1>1, <1>2, <1>4, <3>1 DEF OutcomeInv
  <3>7. StageInv(p)'
   <4>1. index'[Mine(p)'] = Reg(s, o) /\ index'[Mine(p)'] # None BY <1>3, <1>7, <1>11, <3>3 DEF i
   <4>2. Root(p)'.cur = Reg(s, o) /\ ChainHolds(Root(p)') BY <1>1, <1>3, <1>9, <2>2, <3>3 DEF i
   <4> QED BY <1>4, <3>1, <3>3, <3>6, <4>1, <4>2 DEF StageInv
  <3>8. CalmOwn(p)
   <4>1. at'[p] = "publish" => record'[job'[p].attempt] = NoTree BY <1>3, <1>7, <1>9, <3>1, <3>3 DEF Mine
   <4> QED BY <1>1, <1>12, <3>1, <3>2, <3>3, <4>1 DEF CalmOwn, Mine
  <3> QED BY <1>1, <1>3, <1>7, <1>10, <3>3, <3>4, <3>5, <3>7, <3>8, TouchedOwn DEF ProcInv
 <2>3. CASE s = "torn-down"
  <3>1. PICK l \in {"stale", "end"} : Goto(p, l) /\ (l = "stale" <=> job[p].by = "begin")
    BY <1>1, <1>4, <2>3 DEF NextOf
  <3>2. l \in Labels \ {"idle", "sweep"} /\ l \notin Working /\ l \notin Writing BY <3>1 DEF Labels, Working, Writing
  <3>3. ProcTyped' /\ Alone(p) /\ at'[p] = l /\ job'[p] = job[p] /\ LockInv(p)'
   <4>1. job[p].by # "none" BY <1>1, <1>2 DEF LockInv
   <4>2. (l \in Writing /\ job[p].to = "allocated") <=> Allocating(p) BY <2>1, <3>2
   <4> QED BY <1>1, <1>2, <2>1, <3>1, <3>2, <4>1, <4>2, Moved
  <3>4. UNCHANGED recipeOf /\ Mine(p)' = a /\ Brothers(p)' = Brothers(p)
    BY <1>1, <1>3, <3>3 DEF bornVars, Mine, Brothers
  <3>5. JobInv(p)'
   <4>1. Mine(p)' \in DOMAIN recipeOf' /\ recipeOf'[Mine(p)'] = job'[p].recipe BY <1>3, <3>3, <3>4 DEF Brothers
   <4>2. at'[p] \notin Working /\ ~Allocating(p)' BY <3>2, <3>3 DEF Allocating
   <4> QED BY <3>1, <3>2, <3>3, <4>1, <4>2 DEF JobInv, Working
  <3>6. OutcomeInv(p)' /\ WriteInv(p)' /\ EventInv(p)' /\ StageInv(p)' BY <1>11, <3>2, <3>3, <3>4, Restful
  <3>7. SettleInv(p)'
   <4>1. tree'[a].cur = None /\ Settled(a)' BY <1>5, <1>7, <1>9, <2>3, NoTreeTyped DEF Settled
   <4>2. CASE l = "stale"
    <5>1. Sweeping(p) BY <1>1, <2>1, <3>1, <4>2 DEF Sweeping
    <5>2. \A b \in Brothers(p) : tree'[b].cur # None => b \in job[p].todo
      BY <1>2, <1>3, <1>8, <4>1, <5>1 DEF SettleInv, Untouched
    <5> QED BY <3>2, <3>3, <3>4, <4>2, <5>2 DEF SettleInv
   <4>3. CASE l = "end"
    <5>1. ~Sweeping(p) BY <1>1, <3>1, <4>3 DEF Sweeping
    <5>2. \A b \in Brothers(p) : Settled(b)' BY <1>1, <1>2, <1>3, <1>8, <4>1, <5>1 DEF SettleInv, Untouched, Settled
    <5> QED BY <3>2, <3>3, <3>4, <4>3, <5>2 DEF SettleInv, Sweeping
   <4> QED BY <3>1, <4>2, <4>3
  <3>8. CalmOwn(p)
   <4>1. ~tree'[Mine(p)].dir BY <1>3, <1>7, <1>9, <2>3, NoTreeTyped
   <4> QED BY <1>1, <1>12, <3>1, <3>3, <4>1 DEF CalmOwn
  <3> QED BY <1>1, <1>3, <1>7, <1>10, <3>3, <3>5, <3>6, <3>7, <3>8, TouchedOwn DEF ProcInv
 <2> QED BY <2>2, <2>3
<1> QED BY <1>13, <1>14

----------------------------------------
(* Finalization *)

\* An undecided attempt has a whole journal.
LEMMA UndecidedWhole ==
  ASSUME NEW a \in Attempts, AttemptInv(a), Undecided(tree[a].cur)
  PROVE  Whole(tree[a])
<1>1. tree[a].cur # None /\ tree[a].cur.state # "record-published" BY RegFields, NoTreeTyped DEF Undecided
<1> QED BY <1>1 DEF AttemptInv, IndexInv, JournalInv

\* p goes on with the finalization of its attempt from where it had come to.
LEMMA FinalizeOn ==
  ASSUME IInv, NEW p \in Procs, at[p] = "finalize", NEW a \in Attempts, a = Mine(p), NEW t \in Trees,
         tree'[a] = t, index'[a] = index[a], record'[a] = record[a], \A b \in Attempts \ {a} : Untouched(b),
         FilesTyped', AttemptInv(a)', UNCHANGED <<bornVars>>, UNCHANGED <<index, record>>, trouble' = trouble,
         t.dir = tree[a].dir, t.cur = tree[a].cur, ChainHolds(t),
         NEW l \in {"index", "publish", "write"}, NEW s \in {"finalizing", "record-published"},
         Goto(p, l), Set(p, [job[p] EXCEPT !.to = s]), UNCHANGED <<why, lockVars>>,
         \/ l = "index" /\ s = "record-published" /\ t.cur = Reg("record-published", job[p].outcome)
         \/ l = "publish" /\ s = "finalizing" /\ t.cur = Reg("finalizing", job[p].outcome)
         \/ l = "write" /\ s = "finalizing" /\ Undecided(t.cur)
  PROVE  Own(p)
<1>1. /\ job[p] \in Jobs /\ JobInv(p) /\ OutcomeInv(p) /\ StageInv(p) /\ CalmInv /\ at[p] \in Working /\ at[p] \notin Writing
      /\ Root(p) = tree[a] /\ a \in Brothers(p) /\ AttemptInv(a) /\ Typed /\ at[p] \notin {"idle", "sweep"}
      /\ LockInv(p)
  BY InvOf DEF Working, Writing, Root
<1> DEFINE j == [job[p] EXCEPT !.to = s]
<1>2. j \in Jobs /\ j.recipe = job[p].recipe /\ j.by = job[p].by /\ j.todo = job[p].todo
      /\ j.attempt = job[p].attempt /\ j.outcome = job[p].outcome /\ j.to = s
 <2>1. s \in States \cup {"none"} BY DEF States
 <2> QED BY <1>1, <2>1 DEF Jobs
<1>3. Set(p, j) OBVIOUS
<1> HIDE DEF j
<1>4. l \in Labels \ {"idle", "sweep"} /\ l \in Working /\ ~Allocating(p) /\ job[p].by # "none"
      /\ l \notin {"open", "active", "finally", "end", "finalize"}
  BY <1>1 DEF Labels, Working, Writing, Allocating, LockInv
<1>5. ProcTyped' /\ Alone(p) /\ at'[p] = l /\ job'[p] = j /\ LockInv(p)' BY <1>1, <1>2, <1>3, <1>4, Moved
<1>6. ~Allocating(p)' /\ (Sweeping(p)' <=> Sweeping(p)) /\ Mine(p)' = a /\ Root(p)' = t
  BY <1>1, <1>2, <1>4, <1>5 DEF Allocating, Sweeping, Mine, Root
<1>7. JobInv(p)' BY <1>1, <1>2, <1>4, <1>5, <1>6, SameJob
<1>8. SettleInv(p)'
 <2>1. \A b \in Brothers(p) \ {Mine(p)} : Untouched(b) BY <1>1 DEF Brothers, Typed
 <2> QED BY <1>1, <1>2, <1>4, <1>5, <1>6, <2>1, SameBrothers
<1>9. OutcomeInv(p)' BY <1>1, <1>2, <1>4, <1>5, <1>6 DEF OutcomeInv, bornVars
<1>10. t.dir
 <2>1. tree[a].cur # None BY <1>1 DEF StageInv
 <2> QED BY <1>1, <2>1, NoTreeTyped DEF AttemptInv, JournalInv
<1>11. WriteInv(p)' BY <1>2, <1>5, <1>6, <1>10 DEF WriteInv
<1>12. EventInv(p)' BY <1>2, <1>5, <1>6, <1>10 DEF EventInv
<1>13. StageInv(p)' BY <1>1, <1>2, <1>5, <1>6 DEF StageInv
<1>14. CalmOwn(p)
 <2>1. \A b \in Attempts : tree'[b].dir => tree[b].dir BY DEF Untouched
 <2>2. trouble = 0 => l # "publish"
  <3>1. trouble = 0 => Undecided(t.cur) BY <1>1 DEF CalmInv
  <3>2. ~Undecided(Reg("finalizing", job[p].outcome)) BY RegFields DEF Undecided
  <3> QED BY <3>1, <3>2
 <2> QED BY <1>1, <1>2, <1>4, <1>5, <2>1, <2>2 DEF CalmOwn, Mine
<1> QED BY <1>1, <1>5, <1>7, <1>8, <1>9, <1>11, <1>12, <1>13, <1>14, TouchedOwn DEF ProcInv

\* Finalization goes on from where it had come to.
LEMMA FinalizeStep ==
  ASSUME IInv, NEW p \in Procs, Finalize(p)
  PROVE  Own(p)
<1>1. /\ at[p] = "finalize" /\ UNCHANGED <<bornVars>> /\ UNCHANGED <<index, record>> /\ trouble' = trouble
      /\ at[p] \in Working /\ at[p] # "idle" /\ at[p] # "end"
  BY DEF Finalize, At, Working, Writing
<1>2. Typed /\ JobInv(p) /\ OutcomeInv(p) /\ StageInv(p) /\ job[p] \in Jobs /\ CalmInv BY InvOf
<1>3. PICK a \in Attempts : /\ a = Mine(p) /\ tree[a] \in Trees /\ AttemptInv(a) /\ Root(p) = tree[a]
                            /\ a \in Brothers(p)
  BY <1>1, <1>2, InvOf DEF Root
<1> DEFINE t == Reconciled(tree[a])
<1>4. t \in Trees /\ t.dir = tree[a].dir /\ t.cur = tree[a].cur /\ (ChainHolds(t) <=> Whole(tree[a]))
  BY <1>3, ReconciledHolds
<1>5. tree' = [tree EXCEPT ![a] = t] BY <1>3 DEF Finalize
<1> HIDE DEF t
<1>6. /\ FilesTyped' /\ tree'[a] = t /\ index'[a] = index[a] /\ record'[a] = record[a]
      /\ \A b \in Attempts \ {a} : Untouched(b)
 <2>1. trouble' \in 0 .. MaxTrouble BY <1>1, <1>2 DEF Typed
 <2> QED BY <1>1, <1>4, <1>5, <2>1, TreeSet
<1>7. AttemptInv(a)'
 <2>1. tree'[a] = Reconciled(tree[a]) BY <1>6 DEF t
 <2> QED BY <1>1, <1>3, <1>6, <2>1, ReconciledKept
<1>8. t.cur # None /\ t.cur.outcome \in {"none", job[p].outcome} /\ job[p].outcome \in Outcomes
  BY <1>1, <1>2, <1>3, <1>4 DEF StageInv, OutcomeInv
<1>9. CASE ~ChainHolds(t)
 <2>1. Raise(p, "half gone") /\ "half gone" \in Reasons BY <1>3, <1>9 DEF Finalize, t, Reasons
 <2>2. UNCHANGED <<bornVars>> /\ \A b \in Brothers(p) : index'[b] = index[b] BY <1>1
 <2>3. ProcTyped' /\ Alone(p) /\ ProcInv(p)' BY <1>1, <2>1, <2>2, Raised
 <2>4. trouble # 0
  <3>1. trouble = 0 => Undecided(tree[a].cur) BY <1>1, <1>2, <1>3 DEF CalmInv
  <3> QED BY <1>3, <1>4, <1>9, <3>1, UndecidedWhole
 <2>5. CalmOwn(p) BY <1>1, <2>4 DEF CalmOwn
 <2> QED BY <1>1, <1>3, <1>6, <1>7, <2>3, <2>5, TouchedOwn
<1>10. CASE ChainHolds(t)
 <2>1. \/ t.cur = Reg("record-published", job[p].outcome)
       \/ t.cur = Reg("finalizing", job[p].outcome)
       \/ Undecided(t.cur)
  <3>1. Undecided(t.cur) \/ (t.cur.outcome \in Outcomes /\ t.cur.state \in {"finalizing", "record-published"})
    BY <1>3, <1>4, <1>8 DEF AttemptInv, RegistryInv
  <3>2. "none" \notin Outcomes BY DEF Outcomes
  <3>3. \A c \in [state : Names, outcome : Outcomes \cup {"none"}] : c = Reg(c.state, c.outcome) BY DEF Reg
  <3>4. t.cur = Reg(t.cur.state, t.cur.outcome) BY <1>4, <3>3 DEF Trees
  <3> QED BY <1>8, <3>1, <3>2, <3>4
 <2>2. Undecided(t.cur) => t.cur # Reg("record-published", job[p].outcome) /\ t.cur # Reg("finalizing", job[p].outcome)
   BY RegFields DEF Undecided
 <2>3. Reg("record-published", job[p].outcome) # Reg("finalizing", job[p].outcome) BY RegFields
 <2>4. PICK l \in {"index", "publish", "write"}, s \in {"finalizing", "record-published"} :
         /\ Goto(p, l) /\ Set(p, [job[p] EXCEPT !.to = s]) /\ UNCHANGED <<why, lockVars>>
         /\ \/ l = "index" /\ s = "record-published" /\ t.cur = Reg("record-published", job[p].outcome)
            \/ l = "publish" /\ s = "finalizing" /\ t.cur = Reg("finalizing", job[p].outcome)
            \/ l = "write" /\ s = "finalizing" /\ Undecided(t.cur)
  <3>1. CASE t.cur = Reg("record-published", job[p].outcome)
   <4>1. Goto(p, "index") /\ Set(p, [job[p] EXCEPT !.to = "record-published"]) /\ UNCHANGED <<why, lockVars>>
     BY <1>3, <1>8, <1>10, <2>3, <3>1 DEF Finalize, t
   <4> QED BY <3>1, <4>1
  <3>2. CASE t.cur = Reg("finalizing", job[p].outcome)
   <4>1. Goto(p, "publish") /\ Set(p, [job[p] EXCEPT !.to = "finalizing"]) /\ UNCHANGED <<why, lockVars>>
     BY <1>3, <1>8, <1>10, <2>3, <3>2 DEF Finalize, t
   <4> QED BY <3>2, <4>1
  <3>3. CASE Undecided(t.cur)
   <4>1. Goto(p, "write") /\ Set(p, [job[p] EXCEPT !.to = "finalizing"]) /\ UNCHANGED <<why, lockVars>>
     BY <1>3, <1>8, <1>10, <2>2, <3>3 DEF Finalize, t
   <4> QED BY <3>3, <4>1
  <3> QED BY <2>1, <3>1, <3>2, <3>3
 <2> QED BY <1>1, <1>3, <1>4, <1>6, <1>7, <1>10, <2>4, FinalizeOn
<1> QED BY <1>9, <1>10

\* A record is made of a root that is finalizing.
LEMMA RecordMade ==
  ASSUME NEW a \in Attempts, AttemptInv(a), tree[a] \in Trees, tree[a].dir, ChainHolds(tree[a]), NEW o \in Outcomes,
         tree[a].cur = Reg("finalizing", o), o = "interrupted" => a \in dead,
         record'[a] = tree[a], tree'[a] = tree[a], index'[a] = index[a], UNCHANGED bornVars
  PROVE  AttemptInv(a)'
<1>1. /\ UNCHANGED <<recipeOf, maker, dead>> /\ tree[a] # NoTree /\ tree[a].cur # None
      /\ tree[a].cur.state = "finalizing" /\ tree[a].cur.outcome = o /\ tree[a].temps \in Int
  BY RegFields, NoTreeTyped DEF bornVars, Trees
<1>2. RegistryInv(a)' /\ JournalInv(a)' BY DEF AttemptInv, RegistryInv, JournalInv
<1>3. RecordInv(a)' BY <1>1 DEF RecordInv
<1>4. IndexInv(a)' BY <1>1 DEF AttemptInv, IndexInv
<1>5. BirthInv(a)' BY <1>1 DEF AttemptInv, BirthInv
<1> QED BY <1>2, <1>3, <1>4, <1>5 DEF AttemptInv

\* The record is made of the root as it is.
LEMMA PublishStep ==
  ASSUME IInv, NEW p \in Procs, Publish(p)
  PROVE  Own(p)
<1>1. /\ at[p] = "publish" /\ UNCHANGED <<bornVars>> /\ UNCHANGED <<tree, index>> /\ trouble' = trouble
      /\ at[p] \in Working /\ at[p] \notin Writing /\ at[p] # "idle" /\ at[p] # "end" /\ at[p] \notin {"idle", "sweep"}
  BY DEF Publish, At, Working, Writing
<1>2. Typed /\ JobInv(p) /\ OutcomeInv(p) /\ StageInv(p) /\ job[p] \in Jobs /\ CalmInv /\ LockInv(p) BY InvOf
<1>3. PICK a \in Attempts : /\ a = Mine(p) /\ tree[a] \in Trees /\ AttemptInv(a) /\ Root(p) = tree[a]
                            /\ a \in Brothers(p)
  BY <1>1, <1>2, InvOf DEF Root
<1>4. /\ tree[a].cur = Reg("finalizing", job[p].outcome) /\ ChainHolds(tree[a])
      /\ job[p].outcome \in Outcomes /\ (job[p].outcome = "interrupted" => a \in dead)
  BY <1>1, <1>2, <1>3 DEF StageInv, OutcomeInv
<1>5. tree[a].dir BY <1>3, <1>4, RegFields, NoTreeTyped DEF AttemptInv, JournalInv
<1>6. CASE record[a] \notin {NoTree, tree[a]}
 <2>1. Raise(p, "divergent") /\ UNCHANGED record /\ "divergent" \in Reasons BY <1>3, <1>6 DEF Publish, Reasons
 <2>2. UNCHANGED <<bornVars>> /\ \A b \in Brothers(p) : index'[b] = index[b] BY <1>1
 <2>3. ProcTyped' /\ Alone(p) /\ ProcInv(p)' BY <1>1, <2>1, <2>2, Raised
 <2>4. CalmOwn(p) BY <1>1, <1>2, <1>3, <1>6 DEF CalmOwn, CalmInv
 <2>5. UNCHANGED <<bornVars, storeVars, trouble>> BY <1>1, <2>1 DEF storeVars
 <2> QED BY <2>3, <2>4, <2>5, QuietOwn
<1>7. CASE record[a] \in {NoTree, tree[a]}
 <2> DEFINE j == [job[p] EXCEPT !.to = "record-published"]
 <2>1. /\ record' = [record EXCEPT ![a] = tree[a]] /\ Goto(p, "write") /\ UNCHANGED <<why, lockVars>>
       /\ Set(p, j)
   BY <1>3, <1>7 DEF Publish
 <2>2. j \in Jobs /\ j.recipe = job[p].recipe /\ j.by = job[p].by /\ j.todo = job[p].todo
       /\ j.attempt = job[p].attempt /\ j.outcome = job[p].outcome /\ j.to = "record-published"
  <3>1. "record-published" \in States \cup {"none"} BY DEF States
  <3> QED BY <1>2, <3>1, JobFields
 <2> HIDE DEF j
 <2>3. "write" \in Labels \ {"idle", "sweep"} /\ "write" \in Working /\ ~Allocating(p) /\ job[p].by # "none"
   BY <1>1, <1>2 DEF Labels, Working, Writing, Allocating, LockInv
 <2>4. ProcTyped' /\ Alone(p) /\ at'[p] = "write" /\ job'[p] = j /\ LockInv(p)' BY <1>1, <2>1, <2>2, <2>3, Moved
 <2>5. /\ FilesTyped' /\ record'[a] = tree[a] /\ tree'[a] = tree[a] /\ index'[a] = index[a]
       /\ \A b \in Attempts \ {a} : Untouched(b)
   BY <1>1, <1>2, <1>3, <2>1 DEF Typed, FilesTyped, Entries, Untouched
 <2>6. AttemptInv(a)' BY <1>1, <1>3, <1>4, <1>5, <2>5, RecordMade
 <2>7. ~Allocating(p)' /\ (Sweeping(p)' <=> Sweeping(p)) /\ Mine(p)' = a /\ Root(p)' = tree[a]
   BY <1>1, <1>3, <2>2, <2>3, <2>4 DEF Allocating, Sweeping, Mine, Root
 <2>8. JobInv(p)' BY <1>1, <2>2, <2>3, <2>4, <2>7, SameJob
 <2>9. SettleInv(p)'
  <3>1. \A b \in Brothers(p) \ {Mine(p)} : Untouched(b) BY <1>2, <1>3, <2>5 DEF Brothers, Typed
  <3> QED BY <1>1, <2>2, <2>3, <2>4, <2>7, <3>1, SameBrothers
 <2>10. OutcomeInv(p)' /\ EventInv(p)' BY <1>1, <1>3, <1>4, <2>2, <2>4, <2>7 DEF OutcomeInv, EventInv, bornVars
 <2>11. WriteInv(p)' BY <1>4, <1>5, <2>2, <2>4, <2>5, <2>7, NoTreeTyped DEF WriteInv
 <2>12. StageInv(p)' BY <1>1, <1>2, <1>3, <2>2, <2>4, <2>7 DEF StageInv
 <2>13. CalmOwn(p) BY <1>1, <2>2, <2>3, <2>4 DEF CalmOwn, Mine
 <2> QED BY <1>1, <1>3, <2>4, <2>5, <2>6, <2>8, <2>9, <2>10, <2>11, <2>12, <2>13, TouchedOwn DEF ProcInv
<1> QED BY <1>6, <1>7

\* A root that is recorded may lose its registry, its journal, and itself.
LEMMA RootRemoved ==
  ASSUME NEW a \in Attempts, AttemptInv(a), index[a].state = "record-published",
         tree'[a] = NoTree \/ (tree'[a].dir /\ tree'[a].cur \in {None, tree[a].cur}),
         index'[a] = index[a], record'[a] = record[a], UNCHANGED bornVars, a \in DOMAIN recipeOf
  PROVE  AttemptInv(a)'
<1>1. /\ UNCHANGED <<recipeOf, maker, dead>> /\ (tree[a].cur = None \/ tree[a].cur.state = "record-published")
      /\ tree'[a].cur \in {None, tree[a].cur} /\ None.state = "none" /\ None.outcome = "none"
  BY NoTreeTyped DEF bornVars, AttemptInv, IndexInv
<1>2. RegistryInv(a)' BY <1>1 DEF AttemptInv, RegistryInv
<1>3. JournalInv(a)' BY NoTreeTyped DEF JournalInv
<1>4. RecordInv(a)' BY <1>1 DEF AttemptInv, RecordInv
<1>5. IndexInv(a)' BY <1>1 DEF AttemptInv, IndexInv
<1>6. BirthInv(a)' BY <1>1 DEF AttemptInv, BirthInv
<1> QED BY <1>2, <1>3, <1>4, <1>5, <1>6 DEF AttemptInv

\* p takes something from its root, or the root itself when nothing is left in it.
LEMMA RemoveOn ==
  ASSUME IInv, NEW p \in Procs, at[p] = "remove", NEW a \in Attempts, a = Mine(p), NEW t \in Trees,
         tree' = [tree EXCEPT ![a] = t], UNCHANGED <<index, record>>, trouble' = trouble, UNCHANGED <<bornVars>>,
         NEW j \in Jobs, j.recipe = job[p].recipe, j.attempt = job[p].attempt, j.todo = job[p].todo,
         j.outcome = job[p].outcome, j.by = job[p].by, NEW l \in {"remove", "index"},
         Goto(p, l), Set(p, j), UNCHANGED <<why, lockVars>>,
         l = "remove" => tree[a].dir /\ t.dir /\ t.cur \in {None, tree[a].cur},
         l = "index" => tree[a].dir /\ t = NoTree /\ j.to = "torn-down"
  PROVE  Own(p)
<1>1. /\ job[p] \in Jobs /\ JobInv(p) /\ OutcomeInv(p) /\ StageInv(p) /\ at[p] \in Working /\ at[p] \notin Writing
      /\ a \in Brothers(p) /\ AttemptInv(a) /\ Typed /\ at[p] \notin {"idle", "sweep"} /\ LockInv(p)
      /\ a \in DOMAIN recipeOf
  BY InvOf DEF Working, Writing
<1>2. l \in Labels \ {"idle", "sweep"} /\ l \in Working /\ ~Allocating(p) /\ job[p].by # "none"
      /\ l \notin {"open", "active", "finally", "end", "finalize"} /\ (l \in Writing => j.to = "torn-down")
  BY <1>1 DEF Labels, Working, Writing, Allocating, LockInv
<1>3. ProcTyped' /\ Alone(p) /\ at'[p] = l /\ job'[p] = j /\ LockInv(p)' BY <1>1, <1>2, Moved
<1>4. ~Allocating(p)' /\ (Sweeping(p)' <=> Sweeping(p)) /\ Mine(p)' = a /\ Root(p)' = tree'[a]
  BY <1>1, <1>2, <1>3 DEF Allocating, Sweeping, Mine, Root
<1>5. /\ FilesTyped' /\ tree'[a] = t /\ index'[a] = index[a] /\ record'[a] = record[a]
      /\ \A b \in Attempts \ {a} : Untouched(b)
 <2>1. trouble' \in 0 .. MaxTrouble BY <1>1 DEF Typed
 <2> QED BY <2>1, TreeSet
<1>6. index[a] = Reg("record-published", job[p].outcome) BY <1>1 DEF StageInv
<1>7. AttemptInv(a)'
 <2>1. index[a].state = "record-published" BY <1>6, RegFields
 <2> QED BY <1>1, <1>5, <2>1, RootRemoved
<1>8. JobInv(p)' BY <1>1, <1>2, <1>3, <1>4, SameJob
<1>9. SettleInv(p)'
 <2>1. \A b \in Brothers(p) \ {Mine(p)} : Untouched(b) BY <1>1, <1>5 DEF Brothers, Typed
 <2> QED BY <1>1, <1>2, <1>3, <1>4, <2>1, SameBrothers
<1>10. OutcomeInv(p)' BY <1>1, <1>2, <1>3, <1>4 DEF OutcomeInv, bornVars
<1>11. WriteInv(p)' /\ EventInv(p)' BY <1>2, <1>3, <1>4, <1>5, <1>6 DEF WriteInv, EventInv
<1>12. StageInv(p)' BY <1>1, <1>2, <1>3, <1>4, <1>5, <1>6 DEF StageInv
<1>13. CalmOwn(p)
 <2>1. \A b \in Attempts : tree'[b].dir => tree[b].dir BY <1>5 DEF Untouched
 <2> QED BY <1>1, <1>2, <1>3, <2>1 DEF CalmOwn, Mine
<1> QED BY <1>1, <1>3, <1>5, <1>7, <1>8, <1>9, <1>10, <1>11, <1>12, <1>13, TouchedOwn DEF ProcInv

\* The root is taken apart, the index entry last.
LEMMA RemoveStep ==
  ASSUME IInv, NEW p \in Procs, Remove(p)
  PROVE  Own(p)
<1>1. /\ at[p] = "remove" /\ UNCHANGED <<bornVars>> /\ UNCHANGED <<index, record>> /\ trouble' = trouble
      /\ at[p] \in Working /\ at[p] # "idle" /\ at[p] # "end"
  BY DEF Remove, At, Working, Writing
<1>2. Typed /\ job[p] \in Jobs /\ JobInv(p) BY InvOf
<1>3. PICK a \in Attempts : /\ a = Mine(p) /\ tree[a] \in Trees /\ Root(p) = tree[a] /\ a \in Brothers(p)
  BY <1>1, <1>2, InvOf DEF Root
<1>4. CASE ~tree[a].dir
 <2>1. Raise(p, "disturbed") /\ UNCHANGED tree /\ "disturbed" \in Reasons BY <1>3, <1>4 DEF Remove, Reasons
 <2>2. UNCHANGED <<bornVars>> /\ \A b \in Brothers(p) : index'[b] = index[b] BY <1>1
 <2>3. /\ ProcTyped' /\ Alone(p) /\ ProcInv(p)'
       /\ \/ at'[p] = "finally" /\ job'[p] = job[p] /\ job[p].by = "session" /\ at[p] \in Working
          \/ at'[p] = "idle" /\ job'[p] = NoJob /\ job[p].by # "session"
   BY <1>1, <2>1, <2>2, Raised
 <2>4. UNCHANGED <<bornVars, storeVars, trouble>> BY <1>1, <2>1 DEF storeVars
 <2>5. CalmOwn(p)
  <3>1. at'[p] = "finally" => ~Root(p)'.dir BY <1>3, <1>4, <2>1, <2>3 DEF Root, Mine
  <3> QED BY <1>3, <1>4, <2>3, <2>4, <3>1, QuietCalm
 <2> QED BY <2>3, <2>4, <2>5, QuietOwn
<1>5. CASE tree[a].dir
 <2> DEFINE left == Shrunk(tree[a]) \ {tree[a]}
 <2>1. CASE left = {}
  <3> DEFINE j == [job[p] EXCEPT !.to = "torn-down"]
  <3>1. tree' = [tree EXCEPT ![a] = NoTree] /\ Goto(p, "index") /\ Set(p, j) /\ UNCHANGED <<why, lockVars>>
    BY <1>3, <1>5, <2>1 DEF Remove
  <3>2. j \in Jobs /\ j.recipe = job[p].recipe /\ j.by = job[p].by /\ j.todo = job[p].todo
        /\ j.attempt = job[p].attempt /\ j.outcome = job[p].outcome /\ j.to = "torn-down"
   <4>1. "torn-down" \in States \cup {"none"} BY DEF States
   <4> QED BY <1>2, <4>1, JobFields
  <3> HIDE DEF j
  <3>3. NoTree \in Trees BY NoTreeTyped
  <3> QED BY <1>1, <1>3, <1>5, <3>1, <3>2, <3>3, RemoveOn
 <2>2. CASE left # {}
  <3>1. (\E t \in left : tree' = [tree EXCEPT ![a] = t]) /\ UNCHANGED <<procVars, lockVars>>
    BY <1>3, <1>5, <2>2 DEF Remove
  <3>2. PICK t \in left : tree' = [tree EXCEPT ![a] = t] BY <3>1
  <3>3. t \in Trees /\ t.dir = tree[a].dir /\ (t.cur = tree[a].cur \/ t.cur = None) BY <1>3, ShrunkTrees
  <3>4. Goto(p, "remove") /\ Set(p, job[p]) /\ UNCHANGED <<why, lockVars>> BY <1>1, <1>2, <3>1, SetSame DEF procVars
  <3> QED BY <1>1, <1>2, <1>3, <1>5, <3>2, <3>3, <3>4, RemoveOn
 <2> QED BY <2>1, <2>2
<1> QED BY <1>4, <1>5

----------------------------------------
(* Trouble *)

\* An error leaves the files as sound as they were.
LEMMA ErrorStep ==
  ASSUME IInv, NEW p \in Procs, Error(p)
  PROVE  Own(p)
<1>1. /\ at[p] # "idle" /\ at[p] # "end" /\ Raise(p, "error") /\ UNCHANGED <<bornVars>> /\ UNCHANGED <<index, record>>
      /\ trouble < MaxTrouble /\ trouble' = trouble + 1 /\ "error" \in Reasons
  BY DEF Error, Reasons
<1>2. Typed /\ WriteInv(p) /\ job[p] \in Jobs BY InvOf
<1>3. trouble' \in 0 .. MaxTrouble /\ trouble' # 0 BY <1>1, <1>2, AttemptAssumption DEF Typed
<1>4. ProcTyped' /\ Alone(p) /\ ProcInv(p)'
 <2>1. UNCHANGED <<bornVars>> /\ \A b \in Brothers(p) : index'[b] = index[b] BY <1>1
 <2> QED BY <1>1, <2>1, Raised
<1>5. CalmOwn(p) BY <1>3 DEF CalmOwn
<1>6. CASE at[p] # "replace"
 <2>1. UNCHANGED tree BY <1>6 DEF Error, At
 <2>2. Typed' BY <1>1, <1>2, <1>3, <1>4, <2>1 DEF Typed, ProcTyped, bornVars
 <2>3. \A a \in Attempts : Untouched(a) BY <1>1, <2>1 DEF Untouched
 <2>4. UNCHANGED <<recipeOf, maker, dead>> BY <1>1 DEF bornVars
 <2>5. BornAlone(p) /\ FilesAlone(p) BY <2>3, <2>4 DEF BornAlone, FilesAlone
 <2>6. \A a \in Attempts : AttemptInv(a)' BY <2>3, <2>4, AttemptKept DEF IInv
 <2> QED BY <1>1, <1>4, <1>5, <2>2, <2>5, <2>6 DEF Own, Apart
<1>7. CASE at[p] = "replace"
 <2>1. PICK a \in Attempts : /\ a = Mine(p) /\ tree[a] \in Trees /\ record[a] \in Trees /\ AttemptInv(a)
                             /\ Root(p) = tree[a] /\ a \in Brothers(p)
   BY <1>2, <1>7, InvOf DEF Root, Working, Writing
 <2>2. PICK n \in Int : n = tree[a].temps - 1 /\ (record[a].temps < tree[a].temps => record[a].temps <= n)
  <3>1. tree[a].temps \in Int /\ record[a].temps \in Int BY <2>1 DEF Trees
  <3> QED BY <3>1
 <2> DEFINE t == [tree[a] EXCEPT !.temps = n]
 <2>3. t \in Trees /\ t.dir = tree[a].dir /\ t.cur = tree[a].cur /\ t.temps = n /\ t.events = tree[a].events
   BY <2>1, TreeFields
 <2>4. tree' = [tree EXCEPT ![a] = t] BY <1>2, <1>7, <2>1, <2>2 DEF Error, At, Typed
 <2> HIDE DEF t
 <2>5. /\ FilesTyped' /\ tree'[a] = t /\ index'[a] = index[a] /\ record'[a] = record[a]
       /\ \A b \in Attempts \ {a} : Untouched(b)
   BY <1>1, <1>3, <2>3, <2>4, TreeSet
 <2>6. AttemptInv(a)'
  <3>1. tree[a].dir BY <1>2, <1>7, <2>1 DEF WriteInv
  <3>2. record[a] # NoTree /\ tree[a].cur.state = "finalizing" => record[a].temps <= n
   <4>1. /\ tree[a].cur.state = "finalizing" => tree[a].cur # None /\ tree[a].cur # Reg("allocated", "none")
                                                /\ ~Undecided(tree[a].cur)
     BY RegFields, NoTreeTyped DEF Undecided
   <4>2. job[p].to \in {"none", "allocated", "active", "finalizing", "record-published"}
     BY <1>2, <1>7 DEF Jobs, States, WriteInv
   <4>3. job[p].to # "none" BY <1>7, InvOf DEF JobInv, Writing
   <4> QED BY <1>2, <1>7, <2>1, <2>2, <4>1, <4>2, <4>3 DEF WriteInv
  <3>3. UNCHANGED <<recipeOf, maker>> /\ dead \subseteq dead' BY <1>1 DEF bornVars
  <3> QED BY <2>1, <2>3, <2>5, <3>1, <3>2, <3>3, TempsChanged
 <2> QED BY <1>1, <1>4, <1>5, <2>1, <2>5, <2>6, TouchedOwn
<1> QED BY <1>6, <1>7

\* Attempts lose their owner.
LEMMA Buried ==
  ASSUME IInv, NEW p \in Procs, Bury(p), UNCHANGED <<recipeOf, maker, storeVars>>, ProcTyped',
         trouble' \in 0 .. MaxTrouble
  PROVE  /\ Typed' /\ BornAlone(p) /\ FilesAlone(p) /\ dead \subseteq dead'
         /\ \A a \in Attempts : AttemptInv(a)' /\ Untouched(a)
<1>1. Typed /\ UNCHANGED <<recipeOf, maker, tree, index, record>>
      /\ dead' = dead \cup {a \in DOMAIN maker : maker[a] = p}
  BY DEF IInv, storeVars, Bury
<1>2. DOMAIN maker = DOMAIN recipeOf /\ dead \subseteq dead' /\ dead' \subseteq DOMAIN recipeOf' BY <1>1 DEF Typed
<1>3. Typed' BY <1>1, <1>2 DEF Typed, ProcTyped
<1>4. \A a \in Attempts : Untouched(a) BY <1>1 DEF Untouched
<1>5. BornAlone(p) /\ FilesAlone(p) BY <1>1, <1>2, <1>4 DEF BornAlone, FilesAlone
<1>6. \A a \in Attempts : AttemptInv(a)' BY <1>1, <1>2, <1>4, AttemptKept DEF IInv
<1> QED BY <1>2, <1>3, <1>4, <1>5, <1>6

\* So does a kill.
LEMMA KillStep ==
  ASSUME IInv, NEW p \in Procs, Kill(p)
  PROVE  Own(p)
<1>1. /\ at[p] # "idle" /\ trouble < MaxTrouble /\ trouble' = trouble + 1 /\ Leave(p, "none") /\ Bury(p)
      /\ UNCHANGED <<recipeOf, maker, storeVars>> /\ "none" \in Reasons
  BY DEF Kill, At, Reasons
<1>2. Typed /\ LockInv(p) BY InvOf
<1>3. ProcTyped' /\ Alone(p) /\ at'[p] = "idle" /\ ProcInv(p)' BY <1>1, <1>2, Left
<1>4. trouble' \in 0 .. MaxTrouble /\ trouble' # 0 BY <1>1, <1>2, AttemptAssumption DEF Typed
<1>5. Typed' /\ BornAlone(p) /\ FilesAlone(p) /\ \A a \in Attempts : AttemptInv(a)' BY <1>1, <1>3, <1>4, Buried
<1>6. CalmOwn(p) BY <1>4 DEF CalmOwn
<1> QED BY <1>1, <1>3, <1>5, <1>6 DEF Own, Apart

\* A process that exits leaves its attempts to the next call.
LEMMA ExitStep ==
  ASSUME IInv, NEW p \in Procs, Exit(p)
  PROVE  Own(p)
<1>1. /\ at[p] = "idle" /\ Bury(p) /\ UNCHANGED <<procVars, lockVars>> /\ trouble' = trouble
      /\ UNCHANGED <<recipeOf, maker, storeVars>> /\ at[p] \notin Working
  BY DEF Exit, At, Working, Writing
<1>2. Typed /\ ProcInv(p) /\ LockInv(p) BY InvOf DEF IInv
<1>3. UNCHANGED <<at, job, why, recipeLock, allocLock>> BY <1>1 DEF procVars, lockVars
<1>4. ProcTyped' /\ Alone(p) BY <1>2, <1>3 DEF Typed, ProcTyped, Alone
<1>5. trouble' \in 0 .. MaxTrouble BY <1>1, <1>2 DEF Typed
<1>6. Typed' /\ BornAlone(p) /\ FilesAlone(p) /\ \A a \in Attempts : AttemptInv(a)' /\ Untouched(a)
  BY <1>1, <1>4, <1>5, Buried
<1>7. ProcInv(p)'
 <2>1. job[p] = NoJob /\ job'[p].by = "none" /\ at'[p] = "idle" /\ at'[p] \notin Working
   BY <1>1, <1>2, <1>3, NoJobTyped DEF LockInv
 <2>2. LockInv(p)' BY <1>2, <1>3 DEF LockInv, Allocating
 <2>3. JobInv(p)' /\ SettleInv(p)' BY <2>1 DEF JobInv, SettleInv, Sweeping, Allocating, Working
 <2>4. OutcomeInv(p)' /\ WriteInv(p)' /\ EventInv(p)' /\ StageInv(p)' BY <2>1, Restful
 <2> QED BY <2>2, <2>3, <2>4 DEF ProcInv
<1>8. CalmOwn(p) BY <1>1, <1>3 DEF CalmOwn, storeVars
<1> QED BY <1>1, <1>4, <1>6, <1>7, <1>8 DEF Own, Apart

----------------------------------------
(* The invariant is inductive, and what follows from it *)

\* Before anything was done there is nothing.
LEMMA InitInv == Init => IInv
<1> SUFFICES ASSUME Init PROVE IInv OBVIOUS
<1>1. Typed
 <2>1. << >> \in Seq(Recipes) /\ << >> \in Seq(Procs) /\ Len(<< >>) = 0 /\ DOMAIN << >> = {} OBVIOUS
 <2>2. None \in Entries /\ 0 \in 0 .. MaxTrouble BY AttemptAssumption DEF Entries, None, Reg, Names
 <2>3. at \in [Procs -> Labels] /\ job \in [Procs -> Jobs] /\ why \in [Procs -> Reasons]
       /\ recipeLock \in [Recipes -> Procs \cup {Nobody}] /\ allocLock \in Procs \cup {Nobody}
   BY NoJobTyped DEF Init, Labels, Reasons
 <2>4. tree \in [Attempts -> Trees] /\ record \in [Attempts -> Trees] /\ index \in [Attempts -> Entries]
   BY <2>2, NoTreeTyped DEF Init
 <2> QED BY <2>1, <2>2, <2>3, <2>4 DEF Init, Typed, Entries
<1>2. \A a \in Attempts : AttemptInv(a)
 <2> SUFFICES ASSUME NEW a \in Attempts PROVE AttemptInv(a) OBVIOUS
 <2>1. tree[a] = NoTree /\ index[a] = None /\ record[a] = NoTree BY DEF Init
 <2> QED BY <2>1, NoTreeTyped DEF AttemptInv, RegistryInv, JournalInv, RecordInv, IndexInv, BirthInv
<1>3. \A p \in Procs : ProcInv(p)
 <2> SUFFICES ASSUME NEW p \in Procs PROVE ProcInv(p) OBVIOUS
 <2>1. at[p] = "idle" /\ job[p] = NoJob /\ allocLock = Nobody /\ \A r \in Recipes : recipeLock[r] = Nobody BY DEF Init
 <2>2. at[p] \notin Working /\ at[p] \notin Writing BY <2>1 DEF Working, Writing
 <2>3. LockInv(p) BY <2>1, <2>2, NoJobTyped, NamesAssumption DEF LockInv, Allocating
 <2>4. JobInv(p) /\ OutcomeInv(p) /\ WriteInv(p) /\ EventInv(p) /\ StageInv(p) /\ SettleInv(p)
   BY <2>1, <2>2, NoJobTyped DEF JobInv, OutcomeInv, WriteInv, EventInv, StageInv, SettleInv, Sweeping, Allocating,
     Working
 <2> QED BY <2>3, <2>4 DEF ProcInv
<1>4. CalmInv
 <2>1. \A a \in Attempts : ~tree[a].dir BY NoTreeTyped DEF Init
 <2>2. \A p \in Procs : at[p] = "idle" BY DEF Init
 <2> QED BY <2>1, <2>2 DEF CalmInv
<1> QED BY <1>1, <1>2, <1>3, <1>4 DEF IInv

\* Every step of a process does what is enough.
LEMMA StepOwn ==
  ASSUME IInv, NEW p \in Procs, Begin(p) \/ Step(p) \/ Error(p) \/ Kill(p) \/ Exit(p)
  PROVE  Own(p)
BY BeginStep, SweepLockStep, SweepStep, ListStaleStep, StaleCheckStep, StaleReadStep, ListTeardownsStep, TeardownStep,
  TornDownStep, AllocateStep, WriteStep, ReplaceStep, EventStep, StoreStep, MarkActiveStep, SucceedStep, FailStep,
  FinallyStep, EndStep, FinalizeStep, PublishStep, RemoveStep, ErrorStep, KillStep, ExitStep DEF Step

\* Every step keeps the invariant.
LEMMA NextInv == IInv /\ [Next]_vars => IInv'
<1> SUFFICES ASSUME IInv, [Next]_vars PROVE IInv' OBVIOUS
<1>1. CASE UNCHANGED vars
 <2>1. UNCHANGED <<at, job, why, recipeLock, allocLock, recipeOf, maker, dead, tree, index, record, trouble>>
   BY <1>1 DEF vars, procVars, lockVars, bornVars, storeVars
 <2>2. Typed' /\ CalmInv' BY <2>1 DEF IInv, Typed, CalmInv, Mine, Root, Undecided
 <2>3. \A a \in Attempts : AttemptInv(a)' BY <2>1, AttemptKept DEF IInv, Untouched
 <2>4. \A p \in Procs : ProcInv(p)'
  <3> SUFFICES ASSUME NEW p \in Procs PROVE ProcInv(p)' OBVIOUS
  <3>0. ProcInv(p) BY DEF IInv
  <3>1. LockInv(p)' BY <2>1, <3>0 DEF ProcInv, LockInv, Allocating
  <3>4. JobInv(p)' BY <2>1, <3>0 DEF ProcInv, JobInv, Allocating, Mine
  <3>5. OutcomeInv(p)' BY <2>1, <3>0 DEF ProcInv, OutcomeInv, Mine
  <3>2. WriteInv(p)' /\ EventInv(p)' /\ StageInv(p)'
    BY <2>1 DEF IInv, ProcInv, WriteInv, EventInv, StageInv, Root, Mine
  <3>3. SettleInv(p)' BY <2>1 DEF IInv, ProcInv, SettleInv, Sweeping, Allocating, Brothers, Settled, Published, Mine
  <3> QED BY <3>1, <3>2, <3>3, <3>4, <3>5 DEF ProcInv
 <2> QED BY <2>2, <2>3, <2>4 DEF IInv
<1>2. CASE Next
 <2>1. PICK p \in Procs : Begin(p) \/ Step(p) \/ Error(p) \/ Kill(p) \/ Exit(p) BY <1>2 DEF Next
 <2> QED BY <2>1, StepOwn, OwnIsEnough
<1> QED BY <1>1, <1>2

\* The invariant holds in every state.
THEOREM Invariance == Spec => []IInv
BY InitInv, NextInv, PTL DEF Spec

\* What the invariant says of the types and locks
LEMMA InvTypes == IInv => TypeOK
<1> SUFFICES ASSUME IInv PROVE TypeOK OBVIOUS
<1>1. Typed BY DEF IInv
<1>2. ASSUME NEW p \in Procs
      PROVE  /\ job[p].recipe \in Recipes \cup {"none"} /\ job[p].attempt \in 0 .. MaxAttempts
             /\ job[p].todo \subseteq Attempts /\ job[p].by \in {"none", "begin", "session", "finally"}
             /\ (At(p, "idle") <=> job[p] = NoJob)
             /\ \A r \in Recipes : recipeLock[r] = p <=> job[p].recipe = r
             /\ (allocLock = p => at[p] \in {"sweep", "write", "replace", "event", "index"})
             /\ why[p] \in {"none", "busy", "disturbed", "half gone", "divergent", "changed", "error"}
 <2>1. job[p] \in Jobs /\ LockInv(p) /\ why[p] \in Reasons BY <1>1, InvOf DEF Typed
 <2>2. /\ job[p].recipe \in Recipes \cup {"none"} /\ job[p].attempt \in 0 .. MaxAttempts
       /\ job[p].todo \subseteq Attempts /\ job[p].by \in {"none", "begin", "session", "finally"}
   BY <2>1 DEF Jobs
 <2>3. /\ (At(p, "idle") <=> job[p] = NoJob)
       /\ \A r \in Recipes : recipeLock[r] = p <=> job[p].recipe = r
       /\ (allocLock = p => at[p] \in {"sweep", "write", "replace", "event", "index"})
   BY <2>1 DEF LockInv, Allocating, Writing, At
 <2> QED BY <2>1, <2>2, <2>3 DEF Reasons
<1>3. ASSUME NEW a \in Attempts
      PROVE  /\ index[a].state \in States \cup {"none"} /\ index[a].outcome \in Outcomes \cup {"none"}
             /\ ~tree[a].dir => tree[a] = NoTree
 <2>1. index[a] \in Entries /\ IndexInv(a) /\ JournalInv(a) BY <1>1 DEF Typed, Entries, IInv, AttemptInv
 <2> QED BY <2>1 DEF Entries, Names, States, IndexInv, JournalInv
<1>4. Len(recipeOf) = Len(maker) /\ dead \subseteq DOMAIN recipeOf /\ trouble \in 0 .. MaxTrouble BY <1>1 DEF Typed
<1> QED BY <1>2, <1>3, <1>4 DEF TypeOK

\* ... of roots in session
LEMMA InvRoots == IInv => LiveRootIsKept
<1> SUFFICES ASSUME IInv, NEW p \in Procs
             PROVE  /\ InSession(p) => Root(p).cur # None /\ ChainHolds(Reconciled(Root(p))) /\ Living(Mine(p))
                    /\ at[p] \in {"write", "replace", "event"} => Root(p).dir
  BY DEF LiveRootIsKept
<1>1. WriteInv(p) /\ EventInv(p) /\ StageInv(p) /\ JobInv(p) BY InvOf
<1>2. at[p] \in {"write", "replace", "event"} => Root(p).dir BY <1>1 DEF WriteInv, EventInv
<1>3. ASSUME InSession(p)
      PROVE  Root(p).cur # None /\ ChainHolds(Reconciled(Root(p))) /\ Living(Mine(p))
 <2>1. job[p].by = "session" /\ at[p] \in {"open", "active", "finalize", "publish"} /\ at[p] \in Working
   BY <1>3 DEF InSession, Working
 <2>2. Root(p) \in Trees /\ AttemptInv(Mine(p)) /\ Mine(p) \in Attempts /\ Root(p) = tree[Mine(p)]
   BY <2>1, InvOf DEF Root
 <2>3. Living(Mine(p)) BY <1>1, <2>1 DEF JobInv, Living
 <2>4. Whole(Root(p))
  <3>1. CASE at[p] \in {"open", "active", "publish"} BY <1>1, <3>1, HoldsWhole DEF StageInv
  <3>2. CASE at[p] = "finalize"
   <4>1. Undecided(Root(p).cur) BY <1>1, <2>1, <3>2 DEF StageInv, Undecided
   <4> QED BY <2>2, <4>1, UndecidedWhole
  <3> QED BY <2>1, <3>1, <3>2
 <2>5. Root(p).cur # None BY <1>1, <2>1, RegFields, NoTreeTyped DEF StageInv
 <2> QED BY <2>2, <2>3, <2>4, <2>5, ReconciledHolds
<1> QED BY <1>2, <1>3

\* ... and of the index
LEMMA InvIndex == IInv => IndexIsBacked
<1> SUFFICES ASSUME IInv, NEW a \in Attempts
             PROVE  /\ index[a].state \in {"allocated", "active", "finalizing"} => tree[a].cur # None
                    /\ index[a].state \in {"record-published", "torn-down"} => RecordIsBound(a)
                    /\ index[a].state = "torn-down" => tree[a] = NoTree
  BY DEF IndexIsBacked
<1>1. IndexInv(a) /\ RecordInv(a) /\ record[a] \in Trees BY DEF IInv, AttemptInv, Typed
<1>2. index[a].state \in {"record-published", "torn-down"} => RecordIsBound(a)
 <2>1. \A c \in [state : Names, outcome : Outcomes \cup {"none"}] : c = Reg(c.state, c.outcome) BY DEF Reg
 <2>2. record[a].cur = Reg(record[a].cur.state, record[a].cur.outcome) BY <1>1, <2>1 DEF Trees
 <2> QED BY <1>1, <2>2 DEF IndexInv, RecordInv, RecordIsBound
<1> QED BY <1>1, <1>2 DEF IndexInv

\* Between any two steps the attempts are typed, backed by a registry or a record,
\* undisturbed in session, and never settled as interrupted while their owner lives.
THEOREM AttemptsSound == Spec => []AttemptsAreSound
<1>1. IInv => InterruptedOnlyWhenDead BY DEF IInv, AttemptInv, BirthInv, InterruptedOnlyWhenDead
<1>2. IInv => AttemptsAreSound BY <1>1, InvTypes, InvRoots, InvIndex DEF AttemptsAreSound
<1> QED BY <1>2, Invariance, PTL

----------------------------------------
(* How calls end *)

\* What a refusal has for a cause
Cause(reason) ==
  /\ reason = "half gone" =>
       trouble > 0 /\ \E a \in Attempts : tree[a].dir /\ index[a].state = "record-published"
  /\ reason = "divergent" =>
       trouble > 0 /\ \E a \in Attempts : record[a] # NoTree /\ record[a].temps < tree[a].temps
  /\ reason # "changed"

\* The inspections accept every attempt of the recipe p works for.
Accepted(p) ==
  \A a \in DOMAIN recipeOf : recipeOf[a] = job[p].recipe /\ index[a] # None =>
    Inspectable(a)' /\ AttemptInspectable(a)'

\* A step of p that ends its call ends it well, and one that has it refused has a cause.
EndsWell(p) ==
  /\ \A q \in Procs \ {p} : why'[q] = why[q] /\ (at'[q] = "idle" => at[q] = "idle")
  /\ why'[p] # why[p] => Cause(why'[p])
  /\ at[p] # "idle" /\ at'[p] = "idle" /\ why'[p] = "none" /\ trouble' = trouble => Accepted(p)

\* A call that goes on does not end.
LEMMA Onward ==
  ASSUME IInv, NEW p \in Procs, NEW l, UNCHANGED why, UNCHANGED at \/ (Goto(p, l) /\ l # "idle")
  PROVE  EndsWell(p)
<1>1. at \in [Procs -> Labels] BY DEF IInv, Typed
<1>2. /\ \A q \in Procs \ {p} : at'[q] = at[q]
      /\ at'[p] = "idle" => at[p] = "idle"
  BY <1>1 DEF Goto
<1> QED BY <1>2 DEF EndsWell

\* A call that is refused for a cause does not end in peace.
LEMMA Refused ==
  ASSUME IInv, NEW p \in Procs, NEW reason, Leave(p, reason), Cause(reason), reason # "none"
  PROVE  EndsWell(p)
<1>1. at \in [Procs -> Labels] /\ why \in [Procs -> Reasons] BY DEF IInv, Typed
<1>2. at' = [at EXCEPT ![p] = "idle"] /\ why' = [why EXCEPT ![p] = reason] BY DEF Leave, Goto
<1>3. why'[p] = reason /\ \A q \in Procs \ {p} : at'[q] = at[q] /\ why'[q] = why[q] BY <1>1, <1>2
<1> QED BY <1>3 DEF EndsWell

\* Nor does one that raises.
LEMMA RaisedOut ==
  ASSUME IInv, NEW p \in Procs, NEW reason, Raise(p, reason), Cause(reason), reason # "none"
  PROVE  EndsWell(p)
<1>1. CASE job[p].by = "session" BY <1>1, Onward DEF Raise
<1>2. CASE job[p].by # "session" BY <1>2, Refused DEF Raise
<1> QED BY <1>1, <1>2

\* A call that leaves when every attempt of its recipe is settled ends well.
LEMMA LeftSettled ==
  ASSUME IInv, NEW p \in Procs, Leave(p, "none"), \A a \in Brothers(p) : Settled(a),
         UNCHANGED <<bornVars, storeVars>>
  PROVE  EndsWell(p)
<1>1. at \in [Procs -> Labels] /\ why \in [Procs -> Reasons] BY DEF IInv, Typed
<1>2. at' = [at EXCEPT ![p] = "idle"] /\ why' = [why EXCEPT ![p] = "none"] BY DEF Leave, Goto
<1>3. why'[p] = "none" /\ \A q \in Procs \ {p} : at'[q] = at[q] /\ why'[q] = why[q] BY <1>1, <1>2
<1>4. ASSUME NEW a \in DOMAIN recipeOf, recipeOf[a] = job[p].recipe, index[a] # None
      PROVE  Inspectable(a)' /\ AttemptInspectable(a)'
 <2>1. a \in Brothers(p) /\ a \in Attempts BY <1>4 DEF Brothers, IInv, Typed
 <2>2. Settled(a) /\ IndexInv(a) BY <2>1 DEF IInv, AttemptInv
 <2>3. index[a].state = "torn-down" /\ record[a] # NoTree BY <1>4, <2>2 DEF Settled, IndexInv
 <2>4. record[a].cur = Reg("finalizing", index[a].outcome) /\ ChainHolds(record[a])
   BY <2>1, <2>3, InvIndex DEF IndexIsBacked, RecordIsBound
 <2>5. index' = index /\ record' = record BY DEF storeVars
 <2>6. RecordIsBound(a)' BY <2>4, <2>5 DEF RecordIsBound
 <2> QED BY <2>3, <2>5, <2>6 DEF Inspectable, AttemptInspectable
<1>5. Accepted(p) BY <1>4 DEF Accepted
<1>6. Cause("none") BY DEF Cause
<1> QED BY <1>3, <1>5, <1>6 DEF EndsWell

\* Steps that go on, whatever they find
LEMMA OnwardSteps ==
  ASSUME IInv, NEW p \in Procs,
         \/ ListStale(p) \/ StaleCheck(p) \/ ListTeardowns(p) \/ Write(p) \/ Replace(p) \/ Event(p)
         \/ Store(p) \/ MarkActive(p) \/ Succeed(p)
  PROVE  EndsWell(p)
<1>1. CASE ListStale(p) \/ StaleCheck(p) \/ ListTeardowns(p)
 <2>1. UNCHANGED why /\ (UNCHANGED at \/ \E l \in {"stale", "stale read", "teardowns"} : Goto(p, l))
   BY <1>1 DEF ListStale, StaleCheck, ListTeardowns
 <2> QED BY <2>1, Onward
<1>2. CASE Write(p) \/ Replace(p) \/ Event(p)
 <2>1. UNCHANGED why /\ \E l \in {"replace", "event", "index"} : Goto(p, l) BY <1>2 DEF Write, Replace, Event
 <2> QED BY <2>1, Onward
<1>3. CASE Store(p)
 <2>1. UNCHANGED why /\ Goto(p, NextOf(p)) BY <1>3 DEF Store
 <2>2. NextOf(p) # "idle" BY DEF NextOf
 <2> QED BY <2>1, <2>2, Onward
<1>4. CASE MarkActive(p) \/ Succeed(p)
 <2>1. UNCHANGED why /\ \E l \in {"write", "finalize"} : Goto(p, l) BY <1>4 DEF MarkActive, Succeed
 <2> QED BY <2>1, Onward
<1> QED BY <1>1, <1>2, <1>3, <1>4

\* Steps that are refused because somebody else was in the way
LEMMA RefusedSteps ==
  ASSUME IInv, NEW p \in Procs, SweepLock(p) \/ Sweep(p) \/ Allocate(p) \/ Remove(p) \/ Error(p)
  PROVE  EndsWell(p)
<1>1. \A r \in {"busy", "disturbed", "error"} : Cause(r) /\ r # "none" BY DEF Cause
<1>2. CASE SweepLock(p)
 <2>1. (UNCHANGED why /\ Goto(p, "sweep")) \/ Leave(p, "busy") BY <1>2 DEF SweepLock
 <2> QED BY <1>1, <2>1, Onward, Refused
<1>3. CASE Sweep(p)
 <2>1. (UNCHANGED why /\ UNCHANGED at) \/ Leave(p, "disturbed") BY <1>3 DEF Sweep
 <2> QED BY <1>1, <2>1, Onward, Refused
<1>4. CASE Allocate(p)
 <2>1. (UNCHANGED why /\ Goto(p, "write")) \/ Leave(p, "busy") BY <1>4 DEF Allocate
 <2> QED BY <1>1, <2>1, Onward, Refused
<1>5. CASE Remove(p)
 <2>1. (UNCHANGED why /\ Goto(p, "index")) \/ (UNCHANGED why /\ UNCHANGED at) \/ Raise(p, "disturbed")
   BY <1>5 DEF Remove, procVars
 <2> QED BY <1>1, <2>1, Onward, RaisedOut
<1>6. CASE Error(p)
 <2>1. Raise(p, "error") BY <1>6 DEF Error
 <2> QED BY <1>1, <2>1, RaisedOut
<1> QED BY <1>2, <1>3, <1>4, <1>5, <1>6

\* Where a session fails, and how a call ends
LEMMA EndingSteps ==
  ASSUME IInv, NEW p \in Procs, Fail(p) \/ TornDown(p) \/ End(p)
  PROVE  EndsWell(p)
<1>1. JobInv(p) /\ SettleInv(p) BY InvOf
<1>2. CASE Fail(p)
 <2>1. Goto(p, "finally") /\ UNCHANGED why BY <1>1, <1>2 DEF Fail, Raise, JobInv
 <2> QED BY <2>1, Onward
<1>3. CASE TornDown(p)
 <2>1. (UNCHANGED why /\ Goto(p, "allocate")) \/ Leave(p, "none") BY <1>3 DEF TornDown
 <2>2. (\A a \in Brothers(p) : Settled(a)) /\ UNCHANGED <<bornVars, storeVars>>
   BY <1>1, <1>3 DEF TornDown, At, SettleInv
 <2> QED BY <2>1, <2>2, Onward, LeftSettled
<1>4. CASE End(p)
 <2>1. /\ Leave(p, "none") /\ UNCHANGED <<bornVars, storeVars>>
       /\ \A a \in Brothers(p) : Settled(a)
   BY <1>1, <1>4 DEF End, At, SettleInv
 <2> QED BY <2>1, LeftSettled
<1> QED BY <1>2, <1>3, <1>4

\* A call begins, is killed, or leaves its attempts behind.
LEMMA OtherEnds ==
  ASSUME IInv, NEW p \in Procs, Begin(p) \/ Kill(p) \/ Exit(p)
  PROVE  EndsWell(p)
<1>1. /\ at \in [Procs -> Labels] /\ why \in [Procs -> Reasons] /\ Cause("none")
      /\ trouble \in Nat
  BY AttemptAssumption DEF IInv, Typed, Cause
<1>2. CASE Begin(p)
 <2>1. /\ at[p] = "idle" /\ at' = [at EXCEPT ![p] = "sweep lock"] /\ why' = [why EXCEPT ![p] = "none"]
   BY <1>2 DEF Begin, At, Goto
 <2>2. why'[p] = "none" /\ \A q \in Procs \ {p} : at'[q] = at[q] /\ why'[q] = why[q] BY <1>1, <2>1
 <2> QED BY <1>1, <2>1, <2>2 DEF EndsWell
<1>3. CASE Kill(p)
 <2>1. /\ at' = [at EXCEPT ![p] = "idle"] /\ why' = [why EXCEPT ![p] = "none"] /\ trouble' = trouble + 1
   BY <1>3 DEF Kill, Leave, Goto
 <2>2. /\ why'[p] = "none" /\ trouble' # trouble
       /\ \A q \in Procs \ {p} : at'[q] = at[q] /\ why'[q] = why[q]
   BY <1>1, <2>1
 <2> QED BY <1>1, <2>2 DEF EndsWell
<1>4. CASE Exit(p) BY <1>4, Onward DEF Exit, procVars
<1> QED BY <1>2, <1>3, <1>4

\* A root whose journal is broken is one whose removal was struck.
LEMMA HalfGone ==
  ASSUME IInv, NEW a \in Attempts, trouble # 0, tree[a].dir, index[a] # None,
         tree[a].cur = None \/ ~Whole(tree[a])
  PROVE  Cause("half gone")
<1>1. JournalInv(a) /\ IndexInv(a) /\ trouble \in Nat /\ index[a].state \in Names \cup {"torn-down"}
  BY AttemptAssumption DEF IInv, AttemptInv, Typed
<1>2. index[a].state = "record-published"
 <2>1. CASE tree[a].cur # None BY <1>1, <2>1 DEF JournalInv
 <2>2. CASE tree[a].cur = None BY <1>1, <2>2, NoTreeTyped DEF IndexInv, Names, States
 <2> QED BY <2>1, <2>2
<1> QED BY <1>1, <1>2 DEF Cause

\* A stale attempt is refused when it is half gone, or its owner lives.
LEMMA StaleReadEnds ==
  ASSUME IInv, NEW p \in Procs, StaleRead(p)
  PROVE  EndsWell(p)
<1>1. at[p] = "stale read" /\ at[p] \notin Working BY DEF StaleRead, At, Working, Writing
<1>2. PICK a \in Attempts : /\ a = Mine(p) /\ tree[a] \in Trees /\ AttemptInv(a) /\ Root(p) = tree[a]
  BY <1>1, InvOf DEF JobInv, Typed, IInv, Root
<1>3. \A r \in {"busy", "disturbed", "half gone"} : r # "none" /\ (r # "half gone" => Cause(r)) BY DEF Cause
<1>4. CASE Root(p).cur = None
 <2>1. Leave(p, "disturbed") BY <1>4 DEF StaleRead
 <2> QED BY <1>3, <2>1, Refused
<1>5. CASE Root(p).cur # None /\ recipeOf[a] # job[p].recipe
 <2>1. Goto(p, "stale") /\ UNCHANGED why BY <1>2, <1>5 DEF StaleRead
 <2> QED BY <2>1, Onward
<1>6. CASE Root(p).cur # None /\ recipeOf[a] = job[p].recipe
 <2>1. CASE ~ChainHolds(Reconciled(Root(p)))
  <3>1. Leave(p, "half gone") BY <1>2, <1>6, <2>1 DEF StaleRead
  <3>2. ~Whole(tree[a]) BY <1>2, <2>1, ReconciledHolds
  <3>3. tree[a].dir /\ index[a] # None BY <1>2, <1>6, <3>2, NoTreeTyped DEF AttemptInv, JournalInv
  <3>4. a \in Brothers(p) BY <1>2, <1>6, NoTreeTyped DEF AttemptInv, BirthInv, Brothers
  <3>5. trouble # 0 BY <1>1, <3>3, <3>4, CalmAlone
  <3>6. Cause("half gone") BY <3>2, <3>3, <3>5, HalfGone
  <3> QED BY <1>3, <3>1, <3>6, Refused
 <2>2. CASE ChainHolds(Reconciled(Root(p))) /\ Living(a)
  <3>1. Leave(p, "busy") BY <1>2, <1>6, <2>2 DEF StaleRead
  <3> QED BY <1>3, <3>1, Refused
 <2>3. CASE ChainHolds(Reconciled(Root(p))) /\ ~Living(a)
  <3>1. Goto(p, "finalize") /\ UNCHANGED why BY <1>2, <1>6, <2>3 DEF StaleRead
  <3> QED BY <3>1, Onward
 <2> QED BY <2>1, <2>2, <2>3
<1> QED BY <1>4, <1>5, <1>6

\* An entry whose root is still there is of one that is half gone.
LEMMA TeardownEnds ==
  ASSUME IInv, NEW p \in Procs, Teardown(p)
  PROVE  EndsWell(p)
<1>1. at[p] = "teardowns" /\ at[p] \notin Working BY DEF Teardown, At, Working, Writing
<1>2. PICK a \in job[p].todo : (tree[a].dir /\ Leave(p, "half gone")) \/ (UNCHANGED at /\ UNCHANGED why)
  BY DEF Teardown
<1>3. CASE tree[a].dir /\ Leave(p, "half gone")
 <2>1. a \in Brothers(p) /\ a \in Attempts /\ index[a].state = "record-published"
   BY <1>1, InvOf DEF SettleInv, Published, Brothers, Jobs
 <2>2. trouble # 0 BY <1>1, <1>3, <2>1, CalmAlone
 <2>3. trouble > 0 BY <2>2, AttemptAssumption DEF IInv, Typed
 <2>4. Cause("half gone")
  <3>1. tree[a].dir BY <1>3
  <3> QED BY <2>1, <2>3, <3>1 DEF Cause
 <2> QED BY <1>3, <2>4, Refused
<1>4. CASE UNCHANGED at /\ UNCHANGED why BY <1>4, Onward
<1> QED BY <1>2, <1>3, <1>4

\* The finally of a session finds its root half gone only if its removal was struck.
LEMMA FinallyEnds ==
  ASSUME IInv, NEW p \in Procs, Finally(p)
  PROVE  EndsWell(p)
<1>1. at[p] = "finally" /\ at[p] \in Working BY DEF Finally, At, Working
<1>2. PICK a \in Attempts : a = Mine(p) /\ Root(p) = tree[a] /\ index[a] # None
  BY <1>1, InvOf DEF JobInv, StageInv, Root
<1>3. CASE Root(p).dir /\ Root(p).cur = None
 <2>1. Leave(p, "half gone")
  <3>1. Root(p).dir /\ Root(p).cur = None BY <1>3
  <3>2. Root(p).cur.outcome = "none" BY <1>3, NoTreeTyped
  <3> QED BY <3>1, <3>2 DEF Finally
 <2>2. trouble # 0
  <3>1. ~Undecided(None) BY RegFields DEF Undecided, None
  <3> QED BY <1>1, <1>3, <3>1, InvOf DEF CalmInv
 <2>3. Cause("half gone") BY <1>2, <1>3, <2>2, HalfGone
 <2> QED BY <2>1, <2>3, Refused
<1>4. CASE ~Root(p).dir
 <2>1. Goto(p, "teardowns") /\ UNCHANGED why BY <1>4 DEF Finally
 <2> QED BY <2>1, Onward
<1>5. CASE Root(p).dir /\ Root(p).cur # None
 <2>1. Goto(p, "finalize") /\ UNCHANGED why BY <1>5 DEF Finally
 <2> QED BY <2>1, Onward
<1> QED BY <1>3, <1>4, <1>5

\* A finalization is refused only for an attempt whose removal was struck.
LEMMA FinalizeEnds ==
  ASSUME IInv, NEW p \in Procs, Finalize(p)
  PROVE  EndsWell(p)
<1> DEFINE t == Reconciled(Root(p))
<1>1. at[p] = "finalize" /\ at[p] \in Working BY DEF Finalize, At, Working
<1>2. PICK a \in Attempts : a = Mine(p) /\ Root(p) = tree[a] /\ tree[a] \in Trees /\ AttemptInv(a)
  BY <1>1, InvOf DEF Root
<1>3. Root(p).cur # None /\ Root(p).cur.outcome \in {"none", job[p].outcome} BY <1>1, InvOf DEF StageInv
<1>4. t.cur = Root(p).cur /\ (ChainHolds(t) <=> Whole(tree[a])) BY <1>2, ReconciledHolds
<1>5. CASE ~ChainHolds(t)
 <2>1. Raise(p, "half gone") BY <1>5 DEF Finalize
 <2>2. tree[a].dir /\ index[a] # None BY <1>2, <1>3, <1>4, <1>5, NoTreeTyped DEF AttemptInv, JournalInv
 <2>3. trouble # 0
  <3>1. ~Undecided(tree[a].cur) BY <1>2, <1>4, <1>5, UndecidedWhole
  <3> QED BY <1>1, <1>2, <3>1, InvOf DEF CalmInv
 <2>4. Cause("half gone") BY <1>4, <1>5, <2>2, <2>3, HalfGone
 <2> QED BY <2>1, <2>4, RaisedOut
<1>6. CASE ChainHolds(t)
 <2>1. \E l \in {"index", "publish", "write"} : Goto(p, l) /\ UNCHANGED why BY <1>3, <1>4, <1>6 DEF Finalize
 <2> QED BY <2>1, Onward
<1> QED BY <1>5, <1>6

\* A record that is there already is of the tree, but for temps of a write that was struck.
LEMMA PublishEnds ==
  ASSUME IInv, NEW p \in Procs, Publish(p)
  PROVE  EndsWell(p)
<1>1. at[p] = "publish" /\ at[p] \in Working BY DEF Publish, At, Working
<1>2. PICK a \in Attempts : /\ a = Mine(p) /\ Root(p) = tree[a] /\ tree[a] \in Trees /\ record[a] \in Trees
                             /\ AttemptInv(a)
  BY <1>1, InvOf DEF Root
<1>3. CASE record[a] \in {NoTree, Root(p)}
 <2>1. Goto(p, "write") /\ UNCHANGED why BY <1>2, <1>3 DEF Publish
 <2> QED BY <2>1, Onward
<1>4. CASE record[a] \notin {NoTree, Root(p)}
 <2>1. Raise(p, "divergent") BY <1>2, <1>4 DEF Publish
 <2>2. trouble # 0 /\ trouble \in Nat BY <1>1, <1>2, <1>4, InvOf, AttemptAssumption DEF CalmInv, Typed
 <2>3. tree[a].cur = Reg("finalizing", job[p].outcome) BY <1>1, <1>2, InvOf DEF StageInv
 <2>4. tree[a].cur.state = "finalizing" /\ tree[a].cur # None BY <2>3, RegFields, NoTreeTyped
 <2>5. tree[a].dir /\ record[a].dir /\ record[a].events = tree[a].events
       /\ record[a].cur.state = tree[a].cur.state /\ record[a].cur.outcome = tree[a].cur.outcome
       /\ record[a].temps <= tree[a].temps
   BY <1>2, <1>4, <2>4, NoTreeTyped DEF AttemptInv, RecordInv, JournalInv
 <2>6. record[a].cur = tree[a].cur BY <1>2, <2>5 DEF Trees
 <2>7. record[a].temps # tree[a].temps BY <1>2, <1>4, <2>5, <2>6 DEF Trees
 <2>8. record[a].temps < tree[a].temps BY <1>2, <2>5, <2>7 DEF Trees
 <2>9. Cause("divergent") BY <1>4, <2>2, <2>8 DEF Cause
 <2> QED BY <2>1, <2>9, RaisedOut
<1> QED BY <1>3, <1>4

\* A call leaves attempts that the inspections accept, or refuses for a cause.
THEOREM CallsEnd == Spec => CallsEndWell
<1> DEFINE Sound == \A p \in Procs : ~At(p, "idle") /\ at'[p] = "idle" /\ why'[p] = "none" /\ trouble' = trouble =>
                      \A a \in DOMAIN recipeOf : recipeOf[a] = job[p].recipe /\ index[a] # None =>
                        Inspectable(a)' /\ AttemptInspectable(a)'
           Caused == \A p \in Procs : why'[p] # why[p] =>
                       /\ why'[p] = "half gone" =>
                            trouble > 0 /\ \E a \in Attempts : tree[a].dir /\ index[a].state = "record-published"
                       /\ why'[p] = "divergent" =>
                            trouble > 0 /\ \E a \in Attempts : record[a] # NoTree /\ record[a].temps < tree[a].temps
                       /\ why'[p] # "changed"
<1>1. IInv /\ [Next]_vars => [Sound]_vars /\ [Caused]_vars
 <2> SUFFICES ASSUME IInv, Next PROVE Sound /\ Caused OBVIOUS
 <2>1. PICK p \in Procs : Begin(p) \/ Step(p) \/ Error(p) \/ Kill(p) \/ Exit(p) BY DEF Next
 <2>2. EndsWell(p)
   BY <2>1, OnwardSteps, RefusedSteps, EndingSteps, OtherEnds, StaleReadEnds, TeardownEnds, FinallyEnds,
     FinalizeEnds, PublishEnds DEF Step
 <2>3. Sound BY <2>2 DEF EndsWell, Accepted, At
 <2>4. Caused BY <2>2 DEF EndsWell, Cause
 <2> QED BY <2>3, <2>4
<1>2. Spec => [][Sound]_vars BY <1>1, Invariance, PTL DEF Spec
<1>3. Spec => [][Caused]_vars BY <1>1, Invariance, PTL DEF Spec
<1> QED BY <1>2, <1>3 DEF CallsEndWell, InspectionAccepts, RefusalsHaveACause

----------------------------------------
(* The lifecycle of an attempt *)

\* What RunLifecycle lets a step do to an attempt
Promised(a) == Lifecycle(a)!Next \/ UNCHANGED Lifecycle(a)!vars

\* One that has its record, or keeps its registry, stays where it is unless it is torn down.
LEMMA Stays ==
  ASSUME NEW a \in Attempts, record'[a] = record[a], record[a] # NoTree \/ tree'[a].cur = tree[a].cur,
         index'[a].state = "torn-down" <=> index[a].state = "torn-down"
  PROVE  Promised(a)
<1>1. Phase(a)' = Phase(a) BY DEF Phase
<1>2. OutcomeOf(a)' = OutcomeOf(a) BY DEF OutcomeOf
<1> QED BY <1>1, <1>2 DEF Promised, Lifecycle!vars

\* Its registry comes into being, or the build goes on.
LEMMA Opens ==
  ASSUME NEW a \in Attempts, record[a] = NoTree, record'[a] = NoTree, index[a].state # "torn-down",
         index'[a] = index[a], tree[a].cur = None \/ Undecided(tree[a].cur), Undecided(tree'[a].cur)
  PROVE  Promised(a)
<1>1. tree[a].cur.outcome = "none" /\ tree'[a].cur.outcome = "none" /\ tree'[a].cur # None
  BY RegFields, NoTreeTyped DEF Undecided, None
<1>2. Phase(a)' = "open" BY <1>1 DEF Phase
<1>3. Phase(a) = IF tree[a].cur = None THEN "unborn" ELSE "open" BY <1>1 DEF Phase
<1>4. OutcomeOf(a) = "none" /\ OutcomeOf(a)' = "none" BY <1>1 DEF OutcomeOf
<1> QED BY <1>2, <1>3, <1>4 DEF Promised, Lifecycle!Next, Lifecycle!Open, Lifecycle!vars

\* Its outcome is decided.
LEMMA Decides ==
  ASSUME NEW a \in Attempts, record[a] = NoTree, record'[a] = NoTree, index[a].state # "torn-down",
         index'[a] = index[a], Undecided(tree[a].cur), tree'[a].cur.outcome \in Outcomes
  PROVE  Promised(a)
<1>1. tree[a].cur.outcome = "none" /\ tree[a].cur # None /\ tree'[a].cur.outcome # "none"
  BY RegFields, NoTreeTyped DEF Undecided, None, Outcomes
<1>2. Phase(a)' = "decided" BY <1>1 DEF Phase
<1>3. Phase(a) = "open" BY <1>1 DEF Phase
<1>4. OutcomeOf(a)' \in Outcomes BY DEF OutcomeOf
<1> QED BY <1>2, <1>3, <1>4 DEF Promised, Lifecycle!Next, Lifecycle!Decide

\* Its record is published.
LEMMA Seals ==
  ASSUME NEW a \in Attempts, record[a] = NoTree, record'[a] # NoTree, index[a].state # "torn-down",
         index'[a] = index[a], tree[a].cur.outcome \in Outcomes, record'[a].cur = tree[a].cur
  PROVE  Promised(a)
<1>1. tree[a].cur.outcome # "none" BY DEF Outcomes
<1>2. Phase(a)' = "sealed" BY DEF Phase
<1>3. Phase(a) = "decided" BY <1>1 DEF Phase
<1>4. OutcomeOf(a)' = OutcomeOf(a) /\ OutcomeOf(a) \in Outcomes BY DEF OutcomeOf
<1> QED BY <1>2, <1>3, <1>4 DEF Promised, Lifecycle!Next, Lifecycle!Seal

\* Its index entry is closed.
LEMMA Closes ==
  ASSUME NEW a \in Attempts, record[a] # NoTree, record'[a] = record[a], index[a].state # "torn-down",
         index'[a].state = "torn-down"
  PROVE  Promised(a)
<1>1. Phase(a)' = "closed" BY DEF Phase
<1>2. Phase(a) = "sealed" BY DEF Phase
<1>3. OutcomeOf(a)' = OutcomeOf(a) BY DEF OutcomeOf
<1> QED BY <1>1, <1>2, <1>3 DEF Promised, Lifecycle!Next, Lifecycle!Close

\* A step that leaves index and records alone, and every registry.
LEMMA Holds ==
  ASSUME UNCHANGED <<index, record>>, \A a \in Attempts : tree'[a].cur = tree[a].cur
  PROVE  \A a \in Attempts : Promised(a)
BY Stays

\* Steps that write no registry, no record and no index entry
LEMMA HoldingSteps ==
  ASSUME IInv, NEW p \in Procs,
         \/ Begin(p) \/ SweepLock(p) \/ ListStale(p) \/ StaleCheck(p) \/ ListTeardowns(p) \/ TornDown(p)
         \/ MarkActive(p) \/ Succeed(p) \/ Fail(p) \/ Finally(p) \/ End(p) \/ Kill(p) \/ Exit(p)
  PROVE  \A a \in Attempts : Promised(a)
<1>1. UNCHANGED storeVars
  BY DEF Begin, SweepLock, ListStale, StaleCheck, ListTeardowns, TornDown, MarkActive, Succeed, Fail, Finally, End,
    Kill, Exit
<1> QED BY <1>1, Holds DEF storeVars

\* Steps that touch one root, and leave its registry
LEMMA RootSteps ==
  ASSUME IInv, NEW p \in Procs, Sweep(p) \/ Allocate(p) \/ Write(p) \/ Event(p) \/ Error(p)
  PROVE  \A a \in Attempts : Promised(a)
<1>1. tree \in [Attempts -> Trees] BY DEF IInv, Typed
<1>2. UNCHANGED <<index, record>> BY DEF Sweep, Allocate, Write, Event, Error, storeVars
<1>3. CASE Sweep(p)
 <2>1. UNCHANGED tree \/ \E a \in Attempts : tree' = [tree EXCEPT ![a] = IF Orphaned(@) THEN NoTree ELSE @]
   BY <1>3, InvOf DEF Sweep, storeVars, Jobs
 <2>2. \A t : Orphaned(t) => t.cur = NoTree.cur BY NoTreeTyped DEF Orphaned
 <2>3. \A a \in Attempts : tree'[a].cur = tree[a].cur BY <1>1, <2>1, <2>2
 <2> QED BY <1>2, <2>3, Holds
<1>4. CASE Allocate(p)
 <2>1. UNCHANGED tree \/ \E b : tree' = [tree EXCEPT ![b].dir = TRUE] BY <1>4 DEF Allocate
 <2>2. CASE UNCHANGED tree BY <1>2, <2>2, Holds
 <2>3. CASE \E b : tree' = [tree EXCEPT ![b].dir = TRUE]
  <3>1. PICK b : tree' = [tree EXCEPT ![b].dir = TRUE] BY <2>3
  <3>2. \A t \in Trees : [t EXCEPT !.dir = TRUE].cur = t.cur BY DEF Trees
  <3>3. ASSUME NEW a \in Attempts PROVE tree'[a].cur = tree[a].cur
   <4>1. tree'[a] = IF a = b THEN [tree[a] EXCEPT !.dir = TRUE] ELSE tree[a] BY <1>1, <3>1
   <4> QED BY <1>1, <3>2, <4>1
  <3> QED BY <1>2, <3>3, Holds
 <2> QED BY <2>1, <2>2, <2>3
<1>5. CASE Write(p) \/ Error(p)
 <2>1. UNCHANGED tree \/ \E b, n : tree' = [tree EXCEPT ![b].temps = n] BY <1>5 DEF Write, Error
 <2>2. CASE UNCHANGED tree BY <1>2, <2>2, Holds
 <2>3. CASE \E b, n : tree' = [tree EXCEPT ![b].temps = n]
  <3>1. PICK b, n : tree' = [tree EXCEPT ![b].temps = n] BY <2>3
  <3>2. \A t \in Trees : [t EXCEPT !.temps = n].cur = t.cur BY DEF Trees
  <3>3. ASSUME NEW a \in Attempts PROVE tree'[a].cur = tree[a].cur
   <4>1. tree'[a] = IF a = b THEN [tree[a] EXCEPT !.temps = n] ELSE tree[a] BY <1>1, <3>1
   <4> QED BY <1>1, <3>2, <4>1
  <3> QED BY <1>2, <3>3, Holds
 <2> QED BY <2>1, <2>2, <2>3
<1>6. CASE Event(p)
 <2>1. \E b, e : tree' = [tree EXCEPT ![b].events = e] BY <1>6 DEF Event
 <2>2. \A t \in Trees : \A e : [t EXCEPT !.events = e].cur = t.cur BY DEF Trees
 <2>3. ASSUME NEW a \in Attempts PROVE tree'[a].cur = tree[a].cur BY <1>1, <2>1, <2>2
 <2> QED BY <1>2, <2>3, Holds
<1> QED BY <1>3, <1>4, <1>5, <1>6

\* The missing event is written when a registry is read.
LEMMA ReadingSteps ==
  ASSUME IInv, NEW p \in Procs, StaleRead(p) \/ Finalize(p)
  PROVE  \A a \in Attempts : Promised(a)
<1>1. tree \in [Attempts -> Trees] BY DEF IInv, Typed
<1>2. UNCHANGED <<index, record>> BY DEF StaleRead, Finalize
<1>3. at[p] \in {"stale read", "finalize"} BY DEF StaleRead, Finalize, At
<1>4. PICK b \in Attempts : b = Mine(p) /\ Root(p) = tree[b] BY <1>3, InvOf DEF JobInv, Root, Working
<1>5. UNCHANGED tree \/ tree' = [tree EXCEPT ![b] = Reconciled(tree[b])]
 <2>1. CASE Finalize(p) BY <1>4, <2>1 DEF Finalize
 <2>2. CASE StaleRead(p) /\ Root(p).cur = None BY <2>2 DEF StaleRead
 <2>3. CASE StaleRead(p) /\ Root(p).cur # None /\ recipeOf[b] # job[p].recipe BY <1>4, <2>3 DEF StaleRead
 <2>4. CASE StaleRead(p) /\ Root(p).cur # None /\ recipeOf[b] = job[p].recipe BY <1>1, <1>4, <2>4 DEF StaleRead
 <2> QED BY <2>1, <2>2, <2>3, <2>4
<1>6. Reconciled(tree[b]).cur = tree[b].cur BY <1>1, ReconciledHolds
<1>7. \A a \in Attempts : tree'[a].cur = tree[a].cur BY <1>1, <1>5, <1>6
<1> QED BY <1>2, <1>7, Holds

\* The registry is replaced: the attempt is opened, goes on or is decided.
LEMMA ReplacePromised ==
  ASSUME IInv, NEW p \in Procs, Replace(p)
  PROVE  \A a \in Attempts : Promised(a)
<1>1. /\ at[p] = "replace" /\ at[p] \in Working /\ at[p] \in Writing /\ UNCHANGED <<index, record>>
      /\ tree' = [tree EXCEPT ![Mine(p)].temps = @ - 1, ![Mine(p)].cur = Reg(job[p].to, job[p].outcome)]
  BY DEF Replace, At, Working, Writing
<1>2. PICK b \in Attempts : /\ b = Mine(p) /\ Root(p) = tree[b] /\ AttemptInv(b)
                             /\ tree \in [Attempts -> Trees]
  BY <1>1, InvOf DEF Root, Typed
<1>3. tree'[b].cur = Reg(job[p].to, job[p].outcome) /\ \A a \in Attempts \ {b} : tree'[a] = tree[a]
  BY <1>1, <1>2 DEF Trees
<1>4. \A a \in Attempts \ {b} : Promised(a) BY <1>1, <1>3, Stays
<1>5. WriteInv(p) /\ OutcomeInv(p) /\ JobInv(p) /\ job[p] \in Jobs BY InvOf
<1>6. tree[b] # NoTree /\ index[b].state # "torn-down"
  BY <1>1, <1>2, <1>5, NoTreeTyped DEF WriteInv, AttemptInv, IndexInv
<1>7. Promised(b)
 <2>1. CASE record[b] # NoTree BY <1>1, <2>1, Stays
 <2>2. CASE record[b] = NoTree /\ job[p].to \in {"allocated", "active"}
  <3>1. job[p].outcome = "none" BY <1>1, <1>5, <2>2 DEF OutcomeInv
  <3>2. Undecided(tree'[b].cur) BY <1>3, <2>2, <3>1 DEF Undecided
  <3>3. tree[b].cur = None \/ Undecided(tree[b].cur) BY <1>1, <1>2, <1>5, <2>2 DEF WriteInv, Undecided
  <3> QED BY <1>1, <1>6, <2>2, <3>2, <3>3, Opens
 <2>3. CASE record[b] = NoTree /\ job[p].to = "finalizing"
  <3>1. job[p].outcome \in Outcomes BY <1>1, <1>5, <2>3 DEF OutcomeInv
  <3>2. tree'[b].cur.outcome \in Outcomes BY <1>3, <3>1, RegFields
  <3>3. Undecided(tree[b].cur) BY <1>1, <1>2, <1>5, <2>3 DEF WriteInv
  <3> QED BY <1>1, <1>6, <2>3, <3>2, <3>3, Decides
 <2>4. CASE record[b] = NoTree /\ job[p].to = "record-published" BY <1>1, <1>2, <1>5, <2>4 DEF WriteInv
 <2>5. job[p].to \in {"allocated", "active", "finalizing", "record-published"}
   BY <1>1, <1>5 DEF WriteInv, JobInv, Jobs, States
 <2> QED BY <2>1, <2>2, <2>3, <2>4, <2>5
<1> QED BY <1>4, <1>7

\* The record is published: the attempt is sealed.
LEMMA PublishPromised ==
  ASSUME IInv, NEW p \in Procs, Publish(p)
  PROVE  \A a \in Attempts : Promised(a)
<1>1. at[p] = "publish" /\ at[p] \in Working /\ UNCHANGED <<tree, index>> BY DEF Publish, At, Working
<1>2. PICK b \in Attempts : /\ b = Mine(p) /\ Root(p) = tree[b] /\ AttemptInv(b)
                             /\ record \in [Attempts -> Trees]
  BY <1>1, InvOf DEF Root, Typed
<1>3. tree[b].cur = Reg("finalizing", job[p].outcome) /\ job[p].outcome \in Outcomes
  BY <1>1, <1>2, InvOf DEF StageInv, OutcomeInv
<1>4. tree[b] # NoTree /\ tree[b].cur.outcome \in Outcomes BY <1>3, RegFields, NoTreeTyped
<1>5. index[b].state # "torn-down" BY <1>2, <1>4 DEF AttemptInv, IndexInv
<1>6. UNCHANGED record \/ record' = [record EXCEPT ![b] = tree[b]] BY <1>2 DEF Publish
<1>7. CASE record[b] = NoTree /\ record' = [record EXCEPT ![b] = tree[b]]
 <2>1. record'[b] = tree[b] /\ \A a \in Attempts \ {b} : record'[a] = record[a] BY <1>2, <1>7
 <2>2. Promised(b) BY <1>1, <1>4, <1>5, <1>7, <2>1, Seals
 <2>3. \A a \in Attempts \ {b} : Promised(a) BY <1>1, <2>1, Stays
 <2> QED BY <2>2, <2>3
<1>8. CASE record[b] # NoTree \/ UNCHANGED record
 <2>1. UNCHANGED record
  <3>1. ASSUME record[b] # NoTree, record[b] # tree[b] PROVE UNCHANGED record BY <1>2, <3>1 DEF Publish
  <3>2. ASSUME record[b] = tree[b] PROVE UNCHANGED record BY <1>2, <1>6, <3>2
  <3> QED BY <1>8, <3>1, <3>2
 <2> QED BY <1>1, <2>1, Holds
<1> QED BY <1>6, <1>7, <1>8

\* The index learns of a transition: one that is torn down is closed.
LEMMA StorePromised ==
  ASSUME IInv, NEW p \in Procs, Store(p)
  PROVE  \A a \in Attempts : Promised(a)
<1>1. /\ at[p] = "index" /\ at[p] \in Working /\ UNCHANGED <<tree, record>>
      /\ index' = [index EXCEPT ![Mine(p)] = Reg(job[p].to, job[p].outcome)]
  BY DEF Store, At, Working, Writing
<1>2. PICK b \in Attempts : /\ b = Mine(p) /\ Root(p) = tree[b] /\ AttemptInv(b)
                             /\ index \in [Attempts -> Entries]
  BY <1>1, InvOf DEF Root, Typed, Entries
<1>3. index'[b].state = job[p].to /\ \A a \in Attempts \ {b} : index'[a] = index[a] BY <1>1, <1>2, RegFields
<1>4. \A a \in Attempts \ {b} : Promised(a) BY <1>1, <1>3, Stays
<1>5. EventInv(p) BY InvOf
<1>6. CASE job[p].to = "torn-down"
 <2>1. index[b].state = "record-published" BY <1>1, <1>2, <1>5, <1>6, RegFields DEF EventInv
 <2>2. record[b] # NoTree BY <1>2, <2>1 DEF AttemptInv, IndexInv
 <2>3. Promised(b) BY <1>1, <1>3, <1>6, <2>1, <2>2, Closes
 <2> QED BY <1>4, <2>3
<1>7. CASE job[p].to # "torn-down"
 <2>1. tree[b] # NoTree BY <1>1, <1>2, <1>5, <1>7, NoTreeTyped DEF EventInv
 <2>2. index[b].state # "torn-down" BY <1>2, <2>1 DEF AttemptInv, IndexInv
 <2>3. Promised(b) BY <1>1, <1>3, <1>7, <2>2, Stays
 <2> QED BY <1>4, <2>3
<1> QED BY <1>6, <1>7

\* What is recorded can go, and its index entry be closed.
LEMMA RemovingSteps ==
  ASSUME IInv, NEW p \in Procs, Remove(p) \/ Teardown(p)
  PROVE  \A a \in Attempts : Promised(a)
<1>1. Typed BY InvOf
<1>2. CASE Remove(p)
 <2>1. at[p] = "remove" /\ at[p] \in Working /\ UNCHANGED <<index, record>> BY <1>2 DEF Remove, At, Working
 <2>2. PICK b \in Attempts : b = Mine(p) /\ AttemptInv(b) /\ index[b].state = "record-published"
   BY <2>1, InvOf, RegFields DEF StageInv
 <2>3. record[b] # NoTree BY <2>2 DEF AttemptInv, IndexInv
 <2>4. UNCHANGED tree \/ \E t : tree' = [tree EXCEPT ![b] = t] BY <1>2, <2>2 DEF Remove
 <2>5. \A a \in Attempts \ {b} : tree'[a] = tree[a] BY <1>1, <2>4 DEF Typed
 <2> QED BY <2>1, <2>3, <2>5, Stays
<1>3. CASE Teardown(p)
 <2>1. at[p] = "teardowns" /\ UNCHANGED <<tree, record>> BY <1>3 DEF Teardown, At
 <2>2. PICK b \in job[p].todo : UNCHANGED index \/ index' = [index EXCEPT ![b].state = "torn-down"]
   BY <1>3 DEF Teardown
 <2>3. b \in Attempts /\ index[b].state = "record-published" BY <2>1, InvOf DEF SettleInv, Published, Jobs
 <2>4. record[b] # NoTree BY <2>3 DEF IInv, AttemptInv, IndexInv
 <2>5. CASE index' = [index EXCEPT ![b].state = "torn-down"]
  <3>1. index'[b].state = "torn-down" /\ \A a \in Attempts \ {b} : index'[a] = index[a] BY <1>1, <2>3, <2>5 DEF Typed
  <3>2. Promised(b) BY <2>1, <2>3, <2>4, <3>1, Closes
  <3>3. \A a \in Attempts \ {b} : Promised(a) BY <2>1, <3>1, Stays
  <3> QED BY <3>2, <3>3
 <2>6. CASE UNCHANGED index BY <2>1, <2>6, Holds
 <2> QED BY <2>2, <2>5, <2>6
<1> QED BY <1>2, <1>3

\* Each attempt keeps the promises of RunLifecycle: one outcome is decided for it, its
\* record is of that outcome and never replaced, and its index entry is closed last.
THEOREM LifecycleKept == Spec => ImplementsLifecycle
<1>1. Init => \A a \in Attempts : Lifecycle(a)!Init
 <2> SUFFICES ASSUME Init, NEW a \in Attempts PROVE Lifecycle(a)!Init OBVIOUS
 <2>1. tree[a] = NoTree /\ index[a] = None /\ record[a] = NoTree BY DEF Init
 <2>2. Phase(a) = "unborn" BY <2>1, NoTreeTyped DEF Phase
 <2>3. OutcomeOf(a) = "none" BY <2>1, NoTreeTyped DEF OutcomeOf
 <2> QED BY <2>2, <2>3 DEF Lifecycle!Init
<1>2. IInv /\ [Next]_vars => [\A a \in Attempts : Lifecycle(a)!Next \/ UNCHANGED Lifecycle(a)!vars]_vars
 <2> SUFFICES ASSUME IInv, Next PROVE \A a \in Attempts : Promised(a) BY DEF Promised
 <2>1. PICK p \in Procs : Begin(p) \/ Step(p) \/ Error(p) \/ Kill(p) \/ Exit(p) BY DEF Next
 <2> QED BY <2>1, HoldingSteps, RootSteps, ReadingSteps, ReplacePromised, PublishPromised, StorePromised,
   RemovingSteps DEF Step
<1>3. Spec => [][\A a \in Attempts : Lifecycle(a)!Next \/ UNCHANGED Lifecycle(a)!vars]_vars
  BY <1>2, Invariance, PTL DEF Spec
<1> QED BY <1>1, <1>3 DEF ImplementsLifecycle, Spec
=============================================================================

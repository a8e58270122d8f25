--------------------------- MODULE Campaign_proofs ---------------------------
(***************************************************************************)
(* Theorems about Campaign, for every plan, budget and number of           *)
(* processes: its state is sound and its slots are reserved before they    *)
(* are spent, promotion is earned, and history is final.                   *)
(***************************************************************************)
EXTENDS Campaign, FiniteSetTheorems, TLAPS

\* The steps of a phase that is in execution
Executions == {"execute", "link", "suite_failed", "correctness_failed"}

----------------------------------------
(* What a saved state is, besides well typed *)

\* Only the phase admitted last can be running, and it is undecided.
LastOnly(s) ==
  \A j \in DOMAIN s.phases :
    s.phases[j].status = "running" => j = Len(s.phases) /\ s.phases[j].decision = "none"

\* The calibration comes first and lets the others in; no phase comes twice.
Ordered(s) ==
  /\ \A j \in DOMAIN s.phases :
       /\ s.phases[j].phase = "calibration" <=> j = 1
       /\ j > 1 => s.phases[j].candidate \in Candidates /\ s.phases[1].decision = "inconclusive"
  /\ \A j, k \in DOMAIN s.phases :
       s.phases[j].candidate = s.phases[k].candidate /\ s.phases[j].phase = s.phases[k].phase => j = k

\* A confirmation follows right upon the screening that earned it.
Followed(s) ==
  /\ \A j \in DOMAIN s.phases : s.phases[j].phase = "confirmation" =>
       /\ j > 1
       /\ s.phases[j - 1].candidate = s.phases[j].candidate
       /\ s.phases[j - 1].phase = "screening" /\ s.phases[j - 1].decision = "met"
  /\ \A j \in DOMAIN s.phases :
       s.phases[j].phase = "screening" /\ s.phases[j].decision = "met" /\ j < Len(s.phases) =>
         /\ s.phases[j + 1].candidate = s.phases[j].candidate
         /\ s.phases[j + 1].phase = "confirmation"

\* Nothing more is wanted of the candidates before one that had its turn, and none
\* of them is in execution.
InTurn(s) ==
  \A j \in DOMAIN s.phases : \A i, k \in DOMAIN Plan :
    s.phases[j].candidate = Plan[i] /\ k < i =>
      Wanted(s, Plan[k]) = {} /\ Current(s).candidate # Plan[k]

\* The phases of a state are in the order in which they are earned.
Earned(s) == LastOnly(s) /\ Ordered(s) /\ Followed(s) /\ InTurn(s)

\* What a phase rests on: suite runs of the baseline and of its build, in their
\* order, and comparisons when it has them all.
Fed(ph, baseline, runs) ==
  /\ ph.decision = "met" => ph.status = "completed" /\ ph.comparisons = <<"met", "met">>
  /\ ph.comparisons # << >> => Len(ph.runs) = Slots(ph.phase)
  /\ \A i \in DOMAIN ph.comparisons : ph.comparisons[i] \in Verdicts(ph.phase)
  /\ ph.runs # << >> => ph.build # 0 /\ baseline # 0
  /\ \A i \in DOMAIN ph.runs :
       /\ ph.runs[i] \in DOMAIN runs
       /\ runs[ph.runs[i]].build = IF i \in {1, 4} THEN baseline ELSE ph.build

\* Every phase has such evidence, a confirmation the build that was screened, and
\* no two phases share a run.
Evidenced(s, runs) ==
  /\ \A j \in DOMAIN s.phases :
       /\ Fed(s.phases[j], s.baseline, runs)
       /\ s.phases[j].phase = "confirmation" =>
            s.phases[j].build \in {0, s.phases[j - 1].build}
  /\ \A j, k \in DOMAIN s.phases : j # k =>
       \A a \in DOMAIN s.phases[j].runs, b \in DOMAIN s.phases[k].runs :
         s.phases[j].runs[a] # s.phases[k].runs[b]

----------------------------------------
(* The inductive invariant *)

\* Whoever is in an operation holds the campaign's lock.
LockInv == \A p \in Procs : pc[p] # "idle" <=> lock = p

\* What a process holds in memory is what it saved last.
MemInv ==
  /\ root # "created" => disk = NewState
  /\ \A p \in Procs :
       /\ pc[p] = "create" => root = "bare"
       /\ pc[p] \notin {"idle", "create"} => root = "created" /\ mem[p] = disk

\* A phase is running in execution, or was when its process was killed.
RunningInv ==
  /\ disk.status \in Final => Pending(disk) = {}
  /\ \A p \in Procs :
       /\ pc[p] = "next" => disk.status \notin Final /\ Pending(disk) = {}
       /\ pc[p] \in Executions =>
            /\ disk.status = "running" /\ disk.phases # << >>
            /\ Current(disk).status = "running"

\* A run that is about to be linked is new and was made for this place, or is one
\* that is linked already.
LinkInv ==
  \A p \in Procs : pc[p] = "link" =>
    LET ph == Current(disk)
    IN /\ ph.build # 0 /\ disk.baseline # 0 /\ Len(ph.runs) < Slots(ph.phase)
       /\ \/ result[p] \in Linked(disk)
          \/ /\ result[p] \in DOMAIN suites
             /\ suites[result[p]].build = IF Len(ph.runs) \in {0, 3} THEN disk.baseline ELSE ph.build

\* The inductive invariant
IInv ==
  /\ TypeOK /\ LockInv /\ MemInv /\ RunningInv /\ LinkInv
  /\ Earned(disk) /\ Evidenced(disk, suites)

----------------------------------------
(* Types *)

\* A new campaign is a state, and so is one with its last phase replaced.
LEMMA NewStateType == NewState \in CampaignState
BY DEF NewState, CampaignState, Final

\* The last phase of a state with phases, and where it stands
LEMMA CurrentType ==
  ASSUME NEW s \in CampaignState, s.phases # << >>
  PROVE  /\ s.phases \in Seq(CampaignPhase) /\ Len(s.phases) \in DOMAIN s.phases
         /\ DOMAIN s.phases = 1 .. Len(s.phases) /\ Len(s.phases) \in Nat
         /\ Current(s) \in CampaignPhase /\ Current(s) = s.phases[Len(s.phases)]
<1>1. s.phases \in Seq(CampaignPhase) BY DEF CampaignState
<1> QED BY <1>1 DEF Current

\* What WithCurrent replaces, and what it leaves
LEMMA WithCurrentIs ==
  ASSUME NEW s \in CampaignState, s.phases # << >>, NEW ph \in CampaignPhase
  PROVE  /\ WithCurrent(s, ph) \in CampaignState
         /\ WithCurrent(s, ph).phases = [s.phases EXCEPT ![Len(s.phases)] = ph]
         /\ WithCurrent(s, ph).baseline = s.baseline
         /\ WithCurrent(s, ph).status = s.status /\ WithCurrent(s, ph).reserved = s.reserved
<1>1. s.phases \in Seq(CampaignPhase) /\ Len(s.phases) \in DOMAIN s.phases BY CurrentType
<1>2. [s.phases EXCEPT ![Len(s.phases)] = ph] \in Seq(CampaignPhase) BY <1>1
<1>3. WithCurrent(s, ph) = [s EXCEPT !.phases = [s.phases EXCEPT ![Len(s.phases)] = ph]] BY Zenon DEF WithCurrent
<1> QED BY <1>2, <1>3 DEF CampaignState

\* Nothing but the status, or nothing but the baseline
LEMMA StatusIs ==
  ASSUME NEW s \in CampaignState, NEW x \in {"ready", "running"} \cup Final
  PROVE  LET t == [s EXCEPT !.status = x]
         IN /\ t \in CampaignState /\ t.status = x
            /\ t.phases = s.phases /\ t.baseline = s.baseline /\ t.reserved = s.reserved
BY DEF CampaignState

\* The same when the baseline is fixed
LEMMA BaselineIs ==
  ASSUME NEW s \in CampaignState, NEW b \in Nat
  PROVE  LET t == [s EXCEPT !.baseline = b]
         IN /\ t \in CampaignState /\ t.status = s.status
            /\ t.phases = s.phases /\ t.baseline = b /\ t.reserved = s.reserved
BY DEF CampaignState

\* The phase that is reserved for what is due
NewPhase(d) ==
  [candidate |-> d[1], phase |-> d[2], status |-> "running", decision |-> "none",
   build |-> 0, runs |-> << >>, comparisons |-> << >>]

\* What is due is a phase of the baseline or of a candidate.
LEMMA DueIs ==
  ASSUME NEW s, NEW d \in Due(s)
  PROVE  /\ d[1] \in Candidates \cup {"baseline"} /\ d[2] \in Names
         /\ s.phases = << >> => d = <<"baseline", "calibration">>
         /\ s.phases # << >> =>
              /\ ~CalibrationFailed(s)
              /\ \E i \in DOMAIN Plan :
                   /\ d[1] = Plan[i] /\ d[2] \in Wanted(s, Plan[i])
                   /\ \A j \in 1 .. i - 1 : Wanted(s, Plan[j]) = {}
<1>1. CASE s.phases = << >> BY <1>1 DEF Due, Names
<1>2. CASE s.phases # << >>
 <2>1. ~CalibrationFailed(s) BY <1>2 DEF Due
 <2>2. PICK i \in {k \in DOMAIN Plan : \A j \in 1 .. k - 1 : Wanted(s, Plan[j]) = {}} :
         d \in {<<Plan[i], n>> : n \in Wanted(s, Plan[i])}
   BY <1>2, <2>1, Zenon DEF Due
 <2>3. PICK n \in Wanted(s, Plan[i]) : d = <<Plan[i], n>> BY <2>2
 <2>4. n \in Names /\ d[1] = Plan[i] /\ d[2] = n BY <2>3 DEF Wanted, Names
 <2> QED BY <1>2, <2>1, <2>2, <2>3, <2>4 DEF Candidates
<1> QED BY <1>1, <1>2

\* A reservation adds one phase and takes its slots.
LEMMA ReservedIs ==
  ASSUME NEW s \in CampaignState, NEW d \in Due(s)
  PROVE  /\ NewPhase(d) \in CampaignPhase
         /\ Reserved(s, d) \in CampaignState
         /\ Reserved(s, d).status = "running"
         /\ Reserved(s, d).phases = Append(s.phases, NewPhase(d))
         /\ Reserved(s, d).reserved = s.reserved + Slots(d[2])
         /\ Reserved(s, d).baseline = s.baseline
<1>1. NewPhase(d) \in CampaignPhase BY DueIs DEF NewPhase, CampaignPhase, Decisions
<1>2. s.phases \in Seq(CampaignPhase) /\ s.reserved \in Nat BY DEF CampaignState
<1>3. Append(s.phases, NewPhase(d)) \in Seq(CampaignPhase) BY <1>1, <1>2
<1>4. s.reserved + Slots(d[2]) \in Nat BY <1>2 DEF Slots
<1>5. Reserved(s, d) = [s EXCEPT !.status = "running", !.reserved = s.reserved + Slots(d[2]),
                                 !.phases = Append(s.phases, NewPhase(d))]
  BY DEF Reserved, NewPhase, CampaignState
<1> DEFINE more == s.reserved + Slots(d[2])
           new  == Append(s.phases, NewPhase(d))
<1> HIDE DEF more, new
<1>6. Reserved(s, d) = [s EXCEPT !.status = "running", !.reserved = more, !.phases = new] BY <1>5 DEF more, new
<1>7. more \in Nat /\ new \in Seq(CampaignPhase) BY <1>3, <1>4 DEF more, new
<1>8. /\ Reserved(s, d) \in CampaignState /\ Reserved(s, d).status = "running"
      /\ Reserved(s, d).phases = new /\ Reserved(s, d).reserved = more
      /\ Reserved(s, d).baseline = s.baseline
  BY <1>6, <1>7 DEF CampaignState
<1> QED BY <1>1, <1>8 DEF more, new

\* What was left running is the last phase, and is interrupted.
LEMMA InterruptedIs ==
  ASSUME NEW s \in CampaignState, LastOnly(s), Pending(s) # {}
  PROVE  LET ph == [Current(s) EXCEPT !.status = "interrupted", !.decision = "interrupted"]
         IN /\ s.phases # << >> /\ Current(s).status = "running" /\ ph \in CampaignPhase
            /\ Interrupted(s) \in CampaignState
            /\ Interrupted(s).phases = [s.phases EXCEPT ![Len(s.phases)] = ph]
            /\ Interrupted(s).baseline = s.baseline /\ Interrupted(s).reserved = s.reserved
<1> DEFINE ph == [Current(s) EXCEPT !.status = "interrupted", !.decision = "interrupted"]
           n == Len(s.phases)
           new == [j \in DOMAIN s.phases |->
                     IF j \in Pending(s)
                       THEN [s.phases[j] EXCEPT !.status = "interrupted", !.decision = "interrupted"]
                       ELSE s.phases[j]]
<1>1. s.phases \in Seq(CampaignPhase) BY DEF CampaignState
<1>2. Pending(s) = {n} BY DEF Pending, LastOnly
<1>3. n \in DOMAIN s.phases /\ s.phases # << >> /\ s.phases[n].status = "running" BY <1>1, <1>2 DEF Pending
<1>4. ph \in CampaignPhase
 <2>1. Current(s) \in CampaignPhase BY <1>1, <1>3 DEF Current
 <2> QED BY <2>1 DEF CampaignPhase, Decisions
<1>5. new = [s.phases EXCEPT ![n] = ph] BY <1>2, <1>3 DEF Current
<1>6. [s.phases EXCEPT ![n] = ph] \in Seq(CampaignPhase) BY <1>1, <1>3, <1>4
<1>7. Interrupted(s) = [s EXCEPT !.phases = new] BY DEF Interrupted, CampaignState
<1> HIDE DEF new, ph
<1>8. Interrupted(s) \in CampaignState /\ Interrupted(s).phases = new
      /\ Interrupted(s).baseline = s.baseline /\ Interrupted(s).reserved = s.reserved
  BY <1>5, <1>6, <1>7 DEF CampaignState
<1> QED BY <1>3, <1>4, <1>5, <1>8 DEF Current, ph

----------------------------------------
(* How a step changes what is saved *)

\* The status at most, or the baseline that was open
Kept(s, t) ==
  /\ t.phases = s.phases /\ t.reserved = s.reserved
  /\ t.baseline = s.baseline \/ s.baseline = 0

\* The phase in execution goes on as ph, by at most one run more.
Progressed(s, t, ph) ==
  /\ s.phases # << >> /\ Current(s).status = "running" /\ ph \in CampaignPhase
  /\ ph.candidate = Current(s).candidate /\ ph.phase = Current(s).phase
  /\ ph.status = "running" => ph.decision = "none"
  /\ \/ ph.runs = Current(s).runs
     \/ \E r \in Nat \ Linked(s) : ph.runs = Append(Current(s).runs, r)
  /\ t.phases = [s.phases EXCEPT ![Len(s.phases)] = ph]
  /\ t.baseline = s.baseline /\ t.reserved = s.reserved

\* Its evidence is as it must be.
Rests(s, ph, runs) ==
  /\ Fed(ph, s.baseline, runs)
  /\ ph.phase = "confirmation" => ph.build \in {0, s.phases[Len(s.phases) - 1].build}

\* From s to t a phase that is due and fits is reserved.
Admitted(s, t) == Pending(s) = {} /\ \E d \in Due(s) : Fits(s, d[2]) /\ t = Reserved(s, d)

\* A suite run more, or none
Grown(runs, more) == more = runs \/ \E r \in Suites : more = Append(runs, r)

----------------------------------------
(* Admission is in the order of the plan *)

\* Nothing is disturbed where the phases stay as they are.
LEMMA EarnedKept ==
  ASSUME NEW s, NEW t, Earned(s), t.phases = s.phases
  PROVE  Earned(t)
<1>1. \A c, name : Phases(t, c, name) = Phases(s, c, name) BY DEF Phases
<1>2. \A c : Wanted(t, c) = Wanted(s, c) BY <1>1 DEF Wanted, Promoted
<1>3. LastOnly(t) /\ Ordered(t) /\ Followed(t) BY DEF Earned, LastOnly, Ordered, Followed
<1>4. InTurn(t) BY <1>2 DEF Earned, InTurn, Current
<1> QED BY <1>3, <1>4 DEF Earned

\* Nothing is disturbed by progress of the phase in execution.
LEMMA EarnedProgressed ==
  ASSUME NEW s \in CampaignState, NEW t \in CampaignState, NEW ph,
         Earned(s), Progressed(s, t, ph)
  PROVE  Earned(t)
<1> DEFINE n == Len(s.phases)
<1>1. s.phases \in Seq(CampaignPhase) /\ n \in DOMAIN s.phases /\ Current(s) = s.phases[n]
      /\ DOMAIN s.phases = 1 .. n /\ n \in Nat
  BY CurrentType DEF Progressed
<1>2. /\ DOMAIN t.phases = 1 .. n /\ Len(t.phases) = n
      /\ t.phases[n] = ph /\ \A j \in 1 .. n : j # n => t.phases[j] = s.phases[j]
      /\ ph.candidate = s.phases[n].candidate /\ ph.phase = s.phases[n].phase
      /\ ph.status = "running" => ph.decision = "none"
  BY <1>1 DEF Progressed
<1>3. \A j \in 1 .. n : t.phases[j].candidate = s.phases[j].candidate
                        /\ t.phases[j].phase = s.phases[j].phase
  BY <1>2
<1>4. LastOnly(t) BY <1>1, <1>2 DEF LastOnly, Earned
<1>5. Ordered(t)
 <2>1. n > 1 => t.phases[1] = s.phases[1] BY <1>1, <1>2
 <2> QED BY SMTT(40), <1>1, <1>2, <1>3, <2>1 DEF Ordered, Earned
<1>6. Followed(t)
 <2>1. \A j \in 1 .. n : t.phases[j].phase = "confirmation" =>
         /\ j > 1 /\ t.phases[j - 1].candidate = t.phases[j].candidate
         /\ t.phases[j - 1].phase = "screening" /\ t.phases[j - 1].decision = "met"
  <3>1. SUFFICES ASSUME NEW j \in 1 .. n, t.phases[j].phase = "confirmation"
                 PROVE  /\ j > 1 /\ t.phases[j - 1].candidate = t.phases[j].candidate
                        /\ t.phases[j - 1].phase = "screening" /\ t.phases[j - 1].decision = "met"
    OBVIOUS
  <3>2. /\ j > 1 /\ s.phases[j - 1].candidate = s.phases[j].candidate
        /\ s.phases[j - 1].phase = "screening" /\ s.phases[j - 1].decision = "met"
    BY <1>1, <1>3, <3>1 DEF Followed, Earned
  <3>3. j - 1 \in 1 .. n /\ j - 1 # n BY <1>1, <3>2
  <3>4. t.phases[j - 1] = s.phases[j - 1] BY <1>2, <3>3
  <3> QED BY <1>3, <3>2, <3>4
 <2>2. \A j \in 1 .. n : t.phases[j].phase = "screening" /\ t.phases[j].decision = "met" /\ j < n =>
         t.phases[j + 1].candidate = t.phases[j].candidate /\ t.phases[j + 1].phase = "confirmation"
  <3>1. SUFFICES ASSUME NEW j \in 1 .. n, j < n,
                        t.phases[j].phase = "screening", t.phases[j].decision = "met"
                 PROVE  /\ t.phases[j + 1].candidate = t.phases[j].candidate
                        /\ t.phases[j + 1].phase = "confirmation"
    OBVIOUS
  <3>2. t.phases[j] = s.phases[j] /\ j + 1 \in 1 .. n BY <1>1, <1>2, <3>1
  <3>3. s.phases[j + 1].candidate = s.phases[j].candidate /\ s.phases[j + 1].phase = "confirmation"
    BY <1>1, <3>1, <3>2 DEF Followed, Earned
  <3> QED BY <1>3, <3>2, <3>3
 <2> QED BY <1>2, <2>1, <2>2 DEF Followed
<1>7. InTurn(t)
 <2>1. Current(t).candidate = Current(s).candidate BY <1>1, <1>2 DEF Current
 <2>2. ASSUME NEW c, c # Current(s).candidate, NEW name
       PROVE  Phases(t, c, name) = Phases(s, c, name)
   BY <1>1, <1>2, <1>3, <2>2 DEF Phases
 <2>3. ASSUME NEW c, c # Current(s).candidate
       PROVE  Wanted(t, c) = Wanted(s, c)
   BY <2>2, <2>3 DEF Wanted, Promoted
 <2> QED BY <1>1, <1>2, <1>3, <2>1, <2>3 DEF InTurn, Earned
<1> QED BY <1>4, <1>5, <1>6, <1>7 DEF Earned

\* What is due, and only that, may be admitted.
LEMMA EarnedAdmitted ==
  ASSUME NEW s \in CampaignState, NEW t, Earned(s), Admitted(s, t)
  PROVE  Earned(t)
<1>1. PICK d \in Due(s) : t = Reserved(s, d) BY DEF Admitted
<1> DEFINE n  == Len(s.phases)
           ph == NewPhase(d)
<1>2. s.phases \in Seq(CampaignPhase) /\ DOMAIN s.phases = 1 .. n /\ n \in Nat BY DEF CampaignState
<1>3. /\ DOMAIN t.phases = 1 .. n + 1 /\ Len(t.phases) = n + 1
      /\ t.phases[n + 1] = ph /\ \A j \in 1 .. n : t.phases[j] = s.phases[j]
  BY SMTT(40), <1>1, <1>2, ReservedIs
<1>4. ph.candidate = d[1] /\ ph.phase = d[2] /\ ph.status = "running" /\ ph.decision = "none" BY DEF NewPhase
<1> HIDE DEF ph
<1>5. LastOnly(t) BY SMTT(40), <1>2, <1>3, <1>4 DEF LastOnly, Admitted, Pending
<1>6. CASE s.phases = << >>
 <2>1. n = 0 /\ d = <<"baseline", "calibration">> BY <1>2, <1>6, DueIs
 <2>2. ph.candidate = "baseline" /\ ph.phase = "calibration" BY <1>4, <2>1
 <2>3. Ordered(t) /\ Followed(t) BY <1>3, <1>4, <2>1, <2>2 DEF Ordered, Followed
 <2>4. InTurn(t) BY <1>3, <2>1, <2>2, PlanAssumption DEF InTurn, Candidates
 <2> QED BY <1>5, <2>3, <2>4 DEF Earned
<1>7. CASE s.phases # << >>
 <2>1. n > 0 /\ s.phases[1].decision = "inconclusive" BY <1>2, <1>7, DueIs DEF CalibrationFailed
 <2>2. PICK i \in DOMAIN Plan : /\ d[1] = Plan[i] /\ d[2] \in Wanted(s, Plan[i])
                                /\ \A j \in 1 .. i - 1 : Wanted(s, Plan[j]) = {}
   BY <1>7, DueIs
 <2>3. /\ ph.candidate = Plan[i] /\ ph.candidate \in Candidates
       /\ ph.phase \in {"screening", "confirmation"} /\ Phases(s, Plan[i], ph.phase) = {}
       /\ ph.phase = "confirmation" => Promoted(s, Plan[i])
   BY <1>4, <2>2 DEF Wanted, Candidates
 <2>4. \A j \in 1 .. n : ~(s.phases[j].candidate = Plan[i] /\ s.phases[j].phase = ph.phase) BY <1>2, <2>3 DEF Phases
 <2>5. Ordered(t)
  <3>1. \A j \in 1 .. n + 1 :
          /\ t.phases[j].phase = "calibration" <=> j = 1
          /\ j > 1 => t.phases[j].candidate \in Candidates /\ t.phases[1].decision = "inconclusive"
   <4>1. t.phases[1] = s.phases[1] BY <1>2, <1>3, <2>1
   <4>2. \A j \in 1 .. n : /\ s.phases[j].phase = "calibration" <=> j = 1
                           /\ j > 1 => s.phases[j].candidate \in Candidates
     BY <1>2 DEF Ordered, Earned
   <4>3. ASSUME NEW j \in 1 .. n + 1
         PROVE  /\ t.phases[j].phase = "calibration" <=> j = 1
                /\ j > 1 => t.phases[j].candidate \in Candidates
    <5>1. CASE j = n + 1 BY <1>2, <1>3, <2>1, <2>3, <5>1
    <5>2. CASE j # n + 1
     <6>1. j \in 1 .. n BY <1>2, <5>2
     <6> QED BY <1>3, <4>2, <6>1
    <5> QED BY <5>1, <5>2
   <4> QED BY <2>1, <4>1, <4>3
  <3>2. ASSUME NEW j \in 1 .. n + 1, NEW k \in 1 .. n + 1,
               t.phases[j].candidate = t.phases[k].candidate, t.phases[j].phase = t.phases[k].phase
        PROVE  j = k
   <4>1. CASE j # n + 1 /\ k # n + 1
    <5>1. j \in 1 .. n /\ k \in 1 .. n BY <1>2, <4>1
    <5> QED BY <1>2, <1>3, <3>2, <5>1 DEF Ordered, Earned
   <4>2. ASSUME NEW a \in 1 .. n
         PROVE  ~(t.phases[a].candidate = ph.candidate /\ t.phases[a].phase = ph.phase)
     BY <1>3, <2>3, <2>4
   <4>3. CASE j = n + 1 /\ k # n + 1
    <5>1. k \in 1 .. n BY <1>2, <4>3
    <5> QED BY <1>3, <3>2, <4>2, <4>3, <5>1
   <4>4. CASE j # n + 1 /\ k = n + 1
    <5>1. j \in 1 .. n BY <1>2, <4>4
    <5> QED BY <1>3, <3>2, <4>2, <4>4, <5>1
   <4> QED BY <4>1, <4>3, <4>4
  <3> QED BY <1>3, <3>1, <3>2 DEF Ordered
 <2>6. ph.phase = "confirmation" =>
         /\ s.phases[n].candidate = Plan[i] /\ s.phases[n].phase = "screening"
         /\ s.phases[n].decision = "met"
  <3>1. SUFFICES ASSUME ph.phase = "confirmation"
                 PROVE  /\ s.phases[n].candidate = Plan[i] /\ s.phases[n].phase = "screening"
                        /\ s.phases[n].decision = "met"
    OBVIOUS
  <3>2. PICK j \in 1 .. n : /\ s.phases[j].candidate = Plan[i] /\ s.phases[j].phase = "screening"
                            /\ s.phases[j].decision = "met"
    BY <1>2, <2>3, <3>1 DEF Promoted, Phases
  <3>3. ~(j < n)
   <4>1. SUFFICES ASSUME j < n PROVE FALSE OBVIOUS
   <4>2. s.phases[j + 1].candidate = Plan[i] /\ s.phases[j + 1].phase = "confirmation"
     BY <1>2, <3>2, <4>1 DEF Followed, Earned
   <4>3. j + 1 \in 1 .. n BY <1>2, <4>1
   <4> QED BY <2>4, <3>1, <4>2, <4>3
  <3> QED BY <1>2, <3>2, <3>3
 <2>7. s.phases[n].phase = "screening" /\ s.phases[n].decision = "met" =>
         ph.candidate = s.phases[n].candidate /\ ph.phase = "confirmation"
  <3>1. SUFFICES ASSUME s.phases[n].phase = "screening", s.phases[n].decision = "met"
                 PROVE  ph.candidate = s.phases[n].candidate /\ ph.phase = "confirmation"
    OBVIOUS
  <3>2. n > 1 /\ s.phases[n].candidate \in Candidates BY <1>2, <2>1, <3>1 DEF Ordered, Earned
  <3>3. PICK k \in DOMAIN Plan : s.phases[n].candidate = Plan[k] BY <3>2 DEF Candidates
  <3>4. Phases(s, Plan[k], "confirmation") = {}
   <4>1. ASSUME NEW j \in 1 .. n, s.phases[j].candidate = Plan[k], s.phases[j].phase = "confirmation"
         PROVE  FALSE
    <5>1. j > 1 /\ s.phases[j - 1].candidate = Plan[k] /\ s.phases[j - 1].phase = "screening"
      BY <1>2, <4>1 DEF Followed, Earned
    <5>2. j - 1 = n BY SMTT(40), <1>2, <2>1, <3>1, <3>3, <5>1 DEF Ordered, Earned
    <5> QED BY <1>2, <5>2
   <4> QED BY <1>2, <4>1 DEF Phases
  <3>5. Promoted(s, Plan[k]) BY <1>2, <2>1, <3>1, <3>3 DEF Promoted, Phases
  <3>6. "confirmation" \in Wanted(s, Plan[k]) BY <3>4, <3>5 DEF Wanted
  <3>7. i \in Nat /\ k \in Nat /\ i > 0 /\ k > 0 BY PlanAssumption
  <3>8. ~(k < i) BY <2>2, <3>6, <3>7
  <3>9. ~(i < k) BY <1>2, <2>1, <2>2, <3>3 DEF InTurn, Earned
  <3>10. i = k BY <3>7, <3>8, <3>9
  <3> QED BY <1>2, <2>1, <2>3, <2>4, <3>1, <3>3, <3>10
 <2>8. Followed(t)
  <3>1. \A j \in 1 .. n + 1 : t.phases[j].phase = "confirmation" =>
          /\ j > 1 /\ t.phases[j - 1].candidate = t.phases[j].candidate
          /\ t.phases[j - 1].phase = "screening" /\ t.phases[j - 1].decision = "met"
   <4>1. SUFFICES ASSUME NEW j \in 1 .. n + 1, t.phases[j].phase = "confirmation"
                  PROVE  /\ j > 1 /\ t.phases[j - 1].candidate = t.phases[j].candidate
                         /\ t.phases[j - 1].phase = "screening" /\ t.phases[j - 1].decision = "met"
     OBVIOUS
   <4>2. CASE j = n + 1
    <5>1. t.phases[j - 1] = s.phases[n] /\ t.phases[j] = ph BY <1>2, <1>3, <2>1, <4>2
    <5> QED BY <1>2, <2>1, <2>3, <2>6, <4>1, <4>2, <5>1
   <4>3. CASE j # n + 1
    <5>1. j \in 1 .. n /\ t.phases[j] = s.phases[j] BY <1>2, <1>3, <4>3
    <5>2. /\ j > 1 /\ s.phases[j - 1].candidate = s.phases[j].candidate
          /\ s.phases[j - 1].phase = "screening" /\ s.phases[j - 1].decision = "met"
      BY <1>2, <4>1, <5>1 DEF Followed, Earned
    <5>3. t.phases[j - 1] = s.phases[j - 1] BY SMTT(40), <1>2, <1>3, <5>1, <5>2
    <5> QED BY <5>1, <5>2, <5>3
   <4> QED BY <4>2, <4>3
  <3>2. \A j \in 1 .. n + 1 :
          t.phases[j].phase = "screening" /\ t.phases[j].decision = "met" /\ j < n + 1 =>
            t.phases[j + 1].candidate = t.phases[j].candidate /\ t.phases[j + 1].phase = "confirmation"
   <4>1. SUFFICES ASSUME NEW j \in 1 .. n + 1, j < n + 1,
                         t.phases[j].phase = "screening", t.phases[j].decision = "met"
                  PROVE  /\ t.phases[j + 1].candidate = t.phases[j].candidate
                         /\ t.phases[j + 1].phase = "confirmation"
     OBVIOUS
   <4>2. j \in 1 .. n /\ t.phases[j] = s.phases[j] BY <1>2, <1>3, <4>1
   <4>3. CASE j = n BY <1>3, <2>7, <4>1, <4>2, <4>3
   <4>4. CASE j # n
    <5>1. /\ s.phases[j + 1].candidate = s.phases[j].candidate
          /\ s.phases[j + 1].phase = "confirmation"
      BY <1>2, <4>1, <4>2, <4>4 DEF Followed, Earned
    <5>2. t.phases[j + 1] = s.phases[j + 1] BY SMTT(40), <1>2, <1>3, <4>2, <4>4
    <5> QED BY <4>2, <5>1, <5>2
   <4> QED BY <4>3, <4>4
  <3> QED BY <1>3, <3>1, <3>2 DEF Followed
 <2>9. InTurn(t)
  <3>1. ASSUME NEW c, c # Plan[i], NEW name
        PROVE  Phases(t, c, name) = Phases(s, c, name)
   <4>1. {j \in 1 .. n + 1 : t.phases[j].candidate = c /\ t.phases[j].phase = name}
           = {j \in 1 .. n : s.phases[j].candidate = c /\ s.phases[j].phase = name}
     BY SMTT(40), <1>2, <1>3, <2>3, <3>1
   <4> QED BY <1>2, <1>3, <4>1 DEF Phases
  <3>2. ASSUME NEW c, c # Plan[i]
        PROVE  Wanted(t, c) = Wanted(s, c)
    BY <3>1, <3>2 DEF Wanted, Promoted
  <3>3. Current(t).candidate = Plan[i] BY <1>3, <2>3 DEF Current
  <3>4. ASSUME NEW j \in 1 .. n + 1, NEW a \in DOMAIN Plan, NEW k \in DOMAIN Plan,
               t.phases[j].candidate = Plan[a], k < a
        PROVE  Wanted(t, Plan[k]) = {} /\ Current(t).candidate # Plan[k]
   <4>1. Wanted(s, Plan[k]) = {}
    <5>1. CASE j = n + 1
     <6>1. a = i BY <1>3, <2>3, <3>4, <5>1, PlanAssumption
     <6> QED BY <2>2, <3>4, <6>1, PlanAssumption
    <5>2. CASE j # n + 1 BY SMTT(40), <1>2, <1>3, <3>4, <5>2 DEF InTurn, Earned
    <5> QED BY <5>1, <5>2
   <4>2. Plan[k] # Plan[i] BY <2>2, <4>1
   <4> QED BY <3>2, <3>3, <4>1, <4>2
  <3> QED BY <1>3, <3>4 DEF InTurn
 <2> QED BY <1>5, <2>5, <2>8, <2>9 DEF Earned
<1> QED BY <1>6, <1>7

----------------------------------------
(* The evidence of the phases *)

\* An element of a sequence with one more
LEMMA AppendedAt ==
  ASSUME NEW old \in Seq(Nat), NEW r \in Nat
  PROVE  \A a \in DOMAIN Append(old, r) :
           Append(old, r)[a] = r \/ (a \in DOMAIN old /\ Append(old, r)[a] = old[a])
<1> DEFINE new == Append(old, r)
<1>1. /\ Len(old) \in Nat /\ DOMAIN old = 1 .. Len(old) /\ DOMAIN new = 1 .. Len(old) + 1
      /\ new[Len(old) + 1] = r /\ \A i \in 1 .. Len(old) : new[i] = old[i]
  OBVIOUS
<1> HIDE DEF new
<1>2. ASSUME NEW a \in 1 .. Len(old) + 1
      PROVE  new[a] = r \/ (a \in 1 .. Len(old) /\ new[a] = old[a])
 <2>1. CASE a = Len(old) + 1 BY <1>1, <2>1
 <2>2. CASE a # Len(old) + 1
  <3>1. a \in 1 .. Len(old) BY <1>1, <2>2
  <3> QED BY <1>1, <3>1
 <2> QED BY <2>1, <2>2
<1> QED BY <1>1, <1>2 DEF new

\* The evidence of a phase stays when more runs are made or the baseline is fixed.
LEMMA FedKept ==
  ASSUME NEW ph \in CampaignPhase, NEW b, NEW c, NEW runs \in Seq(Suites), NEW more,
         Fed(ph, b, runs), Grown(runs, more), c = b \/ b = 0
  PROVE  Fed(ph, c, more)
<1>1. \A i \in DOMAIN runs : i \in DOMAIN more /\ more[i] = runs[i] BY DEF Grown
<1>2. ph.runs \in Seq(Nat) BY DEF CampaignPhase
<1>3. c = b \/ ph.runs = << >> BY DEF Fed
<1> QED BY <1>1, <1>2, <1>3 DEF Fed

\* So does that of all phases, where they stay as they are.
LEMMA EvidencedKept ==
  ASSUME NEW s \in CampaignState, NEW t, NEW runs \in Seq(Suites), NEW more,
         Evidenced(s, runs), Kept(s, t), Grown(runs, more)
  PROVE  Evidenced(t, more)
<1>1. t.phases = s.phases /\ s.phases \in Seq(CampaignPhase) BY DEF Kept, CampaignState
<1>2. ASSUME NEW j \in DOMAIN s.phases
      PROVE  Fed(s.phases[j], t.baseline, more)
 <2>1. s.phases[j] \in CampaignPhase BY <1>1
 <2> QED BY <2>1, FedKept DEF Evidenced, Kept
<1> QED BY <1>1, <1>2 DEF Evidenced

\* The phase in execution may go on where its own evidence is as it must be.
LEMMA EvidencedProgressed ==
  ASSUME NEW s \in CampaignState, NEW t \in CampaignState, NEW ph,
         NEW runs \in Seq(Suites), NEW more,
         Evidenced(s, runs), Earned(s), Progressed(s, t, ph), Rests(s, ph, more), Grown(runs, more)
  PROVE  Evidenced(t, more)
<1> DEFINE n == Len(s.phases)
<1>1. s.phases \in Seq(CampaignPhase) /\ n \in DOMAIN s.phases /\ Current(s) = s.phases[n]
      /\ DOMAIN s.phases = 1 .. n /\ n \in Nat
  BY CurrentType DEF Progressed
<1>2. /\ DOMAIN t.phases = 1 .. n
      /\ t.phases[n] = ph /\ \A j \in 1 .. n : j # n => t.phases[j] = s.phases[j]
      /\ t.baseline = s.baseline
  BY <1>1 DEF Progressed
<1>3. ASSUME NEW j \in 1 .. n
      PROVE  /\ Fed(t.phases[j], t.baseline, more)
             /\ t.phases[j].phase = "confirmation" =>
                  t.phases[j].build \in {0, t.phases[j - 1].build}
 <2>1. CASE j = n
  <3>1. ph.phase = "confirmation" => n - 1 \in 1 .. n /\ n - 1 # n BY <1>1 DEF Followed, Earned, Progressed
  <3> QED BY <1>2, <2>1, <3>1 DEF Rests
 <2>2. CASE j # n
  <3>1. Fed(s.phases[j], s.baseline, runs) /\ s.phases[j] \in CampaignPhase BY <1>1 DEF Evidenced
  <3>2. Fed(s.phases[j], s.baseline, more) BY <3>1, FedKept
  <3>3. s.phases[j].phase = "confirmation" =>
          j - 1 \in 1 .. n /\ j - 1 # n /\ s.phases[j].build \in {0, s.phases[j - 1].build}
    BY SMTT(40), <1>1, <2>2 DEF Evidenced, Followed, Earned
  <3> QED BY <1>2, <2>2, <3>2, <3>3
 <2> QED BY <2>1, <2>2
<1>4. ASSUME NEW k \in 1 .. n, k # n, NEW a \in DOMAIN ph.runs, NEW b \in DOMAIN s.phases[k].runs
      PROVE  ph.runs[a] # s.phases[k].runs[b]
 <2>1. s.phases[n].runs \in Seq(Nat)
  <3>1. s.phases[n] \in CampaignPhase BY <1>1
  <3> QED BY <3>1 DEF CampaignPhase
 <2>2. \A i \in DOMAIN s.phases[n].runs : s.phases[n].runs[i] # s.phases[k].runs[b] BY <1>1, <1>4 DEF Evidenced
 <2>3. s.phases[k].runs[b] \in Linked(s) BY <1>1 DEF Linked, Range
 <2>4. CASE ph.runs = s.phases[n].runs BY <2>2, <2>4
 <2>5. ASSUME NEW r \in Nat \ Linked(s), ph.runs = Append(s.phases[n].runs, r)
       PROVE  ph.runs[a] # s.phases[k].runs[b]
  <3>1. ph.runs[a] = r \/ (a \in DOMAIN s.phases[n].runs /\ ph.runs[a] = s.phases[n].runs[a])
    BY SMTT(40), <2>1, <2>5, AppendedAt
  <3> QED BY <2>2, <2>3, <2>5, <3>1
 <2> QED BY <1>1, <2>4, <2>5 DEF Progressed
<1>5. ASSUME NEW j \in 1 .. n, NEW k \in 1 .. n, j # k,
             NEW a \in DOMAIN t.phases[j].runs, NEW b \in DOMAIN t.phases[k].runs
      PROVE  t.phases[j].runs[a] # t.phases[k].runs[b]
 <2>1. CASE j = n BY <1>2, <1>4, <1>5, <2>1
 <2>2. CASE k = n BY <1>2, <1>4, <1>5, <2>2
 <2>3. CASE j # n /\ k # n
  <3>1. t.phases[j] = s.phases[j] /\ t.phases[k] = s.phases[k] BY <1>2, <2>3
  <3>2. s.phases[j].runs[a] # s.phases[k].runs[b] BY SMTT(40), <1>1, <1>5, <3>1 DEF Evidenced
  <3> QED BY <3>1, <3>2
 <2> QED BY <2>1, <2>2, <2>3
<1>6. \A j \in DOMAIN t.phases :
        /\ Fed(t.phases[j], t.baseline, more)
        /\ t.phases[j].phase = "confirmation" => t.phases[j].build \in {0, t.phases[j - 1].build}
  BY <1>2, <1>3
<1>7. \A j, k \in DOMAIN t.phases : j # k =>
        \A a \in DOMAIN t.phases[j].runs, b \in DOMAIN t.phases[k].runs :
          t.phases[j].runs[a] # t.phases[k].runs[b]
  BY <1>2, <1>5
<1> QED BY <1>6, <1>7 DEF Evidenced

\* A phase that is new has no evidence yet.
LEMMA EvidencedAdmitted ==
  ASSUME NEW s \in CampaignState, NEW t, NEW runs \in Seq(Suites),
         Evidenced(s, runs), Earned(s), Admitted(s, t)
  PROVE  Evidenced(t, runs)
<1>1. PICK d \in Due(s) : t = Reserved(s, d) BY DEF Admitted
<1> DEFINE n  == Len(s.phases)
           ph == NewPhase(d)
<1>2. s.phases \in Seq(CampaignPhase) /\ DOMAIN s.phases = 1 .. n /\ n \in Nat BY DEF CampaignState
<1>3. /\ DOMAIN t.phases = 1 .. n + 1 /\ t.baseline = s.baseline
      /\ t.phases[n + 1] = ph /\ \A j \in 1 .. n : t.phases[j] = s.phases[j]
 <2>1. t.phases = Append(s.phases, ph) /\ t.baseline = s.baseline BY <1>1, ReservedIs
 <2> HIDE DEF ph
 <2> QED BY <1>2, <2>1
<1>4. ph.decision = "none" /\ ph.build = 0 /\ ph.runs = << >> /\ ph.comparisons = << >> BY DEF NewPhase
<1> HIDE DEF ph
<1>5. ASSUME NEW j \in 1 .. n + 1
      PROVE  /\ Fed(t.phases[j], t.baseline, runs)
             /\ t.phases[j].phase = "confirmation" =>
                  t.phases[j].build \in {0, t.phases[j - 1].build}
 <2>1. CASE j = n + 1 BY <1>3, <1>4, <2>1 DEF Fed
 <2>2. CASE j # n + 1
  <3>1. j \in 1 .. n /\ t.phases[j] = s.phases[j] BY <1>2, <1>3, <2>2
  <3>2. s.phases[j].phase = "confirmation" => t.phases[j - 1] = s.phases[j - 1]
    BY <1>2, <1>3, <3>1 DEF Followed, Earned
  <3> QED BY <1>2, <1>3, <3>1, <3>2 DEF Evidenced
 <2> QED BY SMTT(40), <2>1, <2>2
<1>6. ASSUME NEW j \in 1 .. n + 1, NEW k \in 1 .. n + 1, j # k,
             NEW a \in DOMAIN t.phases[j].runs, NEW b \in DOMAIN t.phases[k].runs
      PROVE  t.phases[j].runs[a] # t.phases[k].runs[b]
 <2>1. j # n + 1 /\ k # n + 1 BY SMTT(40), <1>3, <1>4
 <2>2. j \in 1 .. n /\ k \in 1 .. n BY <1>2, <2>1
 <2>3. t.phases[j] = s.phases[j] /\ t.phases[k] = s.phases[k] BY <1>3, <2>2
 <2>4. s.phases[j].runs[a] # s.phases[k].runs[b] BY SMTT(40), <1>2, <1>6, <2>2, <2>3 DEF Evidenced
 <2> QED BY <2>3, <2>4
<1>7. \A j \in DOMAIN t.phases :
        /\ Fed(t.phases[j], t.baseline, runs)
        /\ t.phases[j].phase = "confirmation" => t.phases[j].build \in {0, t.phases[j - 1].build}
  BY <1>3, <1>5
<1>8. \A j, k \in DOMAIN t.phases : j # k =>
        \A a \in DOMAIN t.phases[j].runs, b \in DOMAIN t.phases[k].runs :
          t.phases[j].runs[a] # t.phases[k].runs[b]
  BY <1>3, <1>6
<1> QED BY <1>7, <1>8 DEF Evidenced

\* The phase may be concluded without evidence of an improvement, with what it has.
LEMMA FedConcluded ==
  ASSUME NEW ph \in CampaignPhase, NEW b, NEW runs \in Seq(Suites), NEW more, NEW new,
         Fed(ph, b, runs), Grown(runs, more), new.decision # "met",
         new.phase = ph.phase, new.build = ph.build, new.runs = ph.runs,
         new.comparisons = ph.comparisons
  PROVE  Fed(new, b, more)
<1>1. Fed(ph, b, more) BY FedKept
<1> QED BY <1>1 DEF Fed

\* A run may be linked that was made for the place it gets.
LEMMA FedLinked ==
  ASSUME NEW ph \in CampaignPhase, NEW b, NEW runs \in Seq(Suites), NEW more, NEW new,
         NEW r \in Nat, Fed(ph, b, runs), Grown(runs, more), new.decision # "met",
         new.phase = ph.phase, new.build = ph.build, new.runs = Append(ph.runs, r),
         new.comparisons = ph.comparisons, ph.build # 0, b # 0, Len(ph.runs) < Slots(ph.phase),
         r \in DOMAIN more,
         more[r].build = IF Len(ph.runs) \in {0, 3} THEN b ELSE ph.build
  PROVE  Fed(new, b, more)
<1> DEFINE n == Len(ph.runs)
<1>1. Fed(ph, b, more) BY FedKept
<1>2. ph.runs \in Seq(Nat) /\ n \in Nat /\ DOMAIN ph.runs = 1 .. n BY DEF CampaignPhase
<1>3. /\ DOMAIN new.runs = 1 .. n + 1 /\ new.runs[n + 1] = r
      /\ \A i \in 1 .. n : new.runs[i] = ph.runs[i]
  BY <1>2
<1>4. ph.comparisons = << >> BY <1>2 DEF Fed, Slots
<1>5. ASSUME NEW i \in 1 .. n + 1
      PROVE  /\ new.runs[i] \in DOMAIN more
             /\ more[new.runs[i]].build = IF i \in {1, 4} THEN b ELSE new.build
 <2>1. CASE i = n + 1
  <3>1. new.runs[i] = r BY <1>3, <2>1
  <3>2. (i = 1 <=> n = 0) /\ (i = 4 <=> n = 3)
   <4>1. n \in Nat /\ i = n + 1 BY <1>2, <2>1
   <4> HIDE DEF n
   <4> QED BY <4>1
  <3>3. i \in {1, 4} <=> n \in {0, 3} BY <3>2
  <3> QED BY <3>1, <3>3
 <2>2. CASE i # n + 1
  <3>1. i \in 1 .. n BY <1>2, <2>2
  <3> QED BY ZenonT(60), <1>1, <1>2, <1>3, <3>1 DEF Fed
 <2> QED BY <2>1, <2>2
<1> QED BY <1>3, <1>4, <1>5 DEF Fed

----------------------------------------
(* Every step is one of these *)

\* What a process in execution can count on
LEMMA InExecution ==
  ASSUME IInv, NEW p \in Procs, pc[p] \in Executions
  PROVE  /\ mem[p] = disk /\ disk \in CampaignState /\ disk.phases # << >>
         /\ disk.status = "running" /\ root = "created"
         /\ Current(disk) \in CampaignPhase /\ Current(disk) = disk.phases[Len(disk.phases)]
         /\ Len(disk.phases) \in DOMAIN disk.phases
         /\ Current(disk).status = "running" /\ Current(disk).decision = "none"
         /\ suites \in Seq(Suites) /\ disk.baseline \in Nat
         /\ Fed(Current(disk), disk.baseline, suites)
         /\ Current(disk).phase = "confirmation" =>
              Current(disk).build \in {0, disk.phases[Len(disk.phases) - 1].build}
<1>1. /\ mem[p] = disk /\ disk \in CampaignState /\ disk.phases # << >>
      /\ disk.status = "running" /\ root = "created" /\ Current(disk).status = "running"
      /\ suites \in Seq(Suites)
  BY DEF IInv, MemInv, RunningInv, TypeOK, Executions
<1>2. disk.baseline \in Nat BY <1>1 DEF CampaignState
<1>3. /\ Current(disk) \in CampaignPhase /\ Current(disk) = disk.phases[Len(disk.phases)]
      /\ Len(disk.phases) \in DOMAIN disk.phases
  BY <1>1, CurrentType
<1> QED BY <1>1, <1>2, <1>3 DEF IInv, Earned, LastOnly, Evidenced

\* The last phase is replaced by one with evidence of its own.
LEMMA Replaced ==
  ASSUME IInv, NEW p \in Procs, pc[p] \in Executions, Grown(suites, suites'),
         NEW ph \in CampaignPhase,
         ph.candidate = Current(disk).candidate, ph.phase = Current(disk).phase,
         ph.status = "running" => ph.decision = "none",
         \/ ph.runs = Current(disk).runs
         \/ \E r \in Nat \ Linked(disk) : ph.runs = Append(Current(disk).runs, r),
         Fed(ph, disk.baseline, suites'),
         ph.phase = "confirmation" => ph.build \in {0, disk.phases[Len(disk.phases) - 1].build},
         disk' = WithCurrent(disk, ph)
  PROVE  disk' \in CampaignState /\ Progressed(disk, disk', ph) /\ Rests(disk, ph, suites')
BY InExecution, WithCurrentIs DEF Progressed, Rests

\* The last phase is concluded without an improvement.
LEMMA Failed ==
  ASSUME IInv, NEW p \in Procs, pc[p] \in Executions, Grown(suites, suites'),
         NEW x \in {"completed", "failed"}, NEW y \in Decisions \ {"met"},
         disk' = WithCurrent(disk, [Current(disk) EXCEPT !.status = x, !.decision = y])
  PROVE  disk' \in CampaignState
         /\ \E ph : Progressed(disk, disk', ph) /\ Rests(disk, ph, suites')
<1> DEFINE ph == [Current(disk) EXCEPT !.status = x, !.decision = y]
<1>1. Current(disk) \in CampaignPhase BY InExecution
<1>2. /\ ph \in CampaignPhase /\ ph.status = x /\ ph.decision = y
      /\ ph.candidate = Current(disk).candidate /\ ph.phase = Current(disk).phase
      /\ ph.build = Current(disk).build /\ ph.runs = Current(disk).runs
      /\ ph.comparisons = Current(disk).comparisons
  BY <1>1 DEF CampaignPhase
<1> HIDE DEF ph
<1>3. Fed(ph, disk.baseline, suites') BY <1>2, InExecution, FedConcluded
<1>4. disk' = WithCurrent(disk, ph) BY DEF ph
<1> QED BY <1>2, <1>3, <1>4, InExecution, Replaced

\* All runs that are linked were executed.
LEMMA LinkedIs ==
  ASSUME IInv
  PROVE  Linked(disk) \subseteq DOMAIN suites
BY DEF IInv, Evidenced, Fed, Linked, Range

\* The run a phase makes next is made for its place.
LEMMA NextSuiteIs ==
  ASSUME IInv, NEW p \in Procs, ReadyToRun(p), suites' = Append(suites, NextSuite(p))
  PROVE  /\ NextSuite(p) \in Suites /\ Grown(suites, suites')
         /\ Len(suites') \in Nat \ Linked(disk) /\ Len(suites') \in DOMAIN suites'
         /\ suites'[Len(suites')].build =
              IF Len(Current(disk).runs) \in {0, 3} THEN disk.baseline ELSE Current(disk).build
         /\ Current(disk).build # 0 /\ disk.baseline # 0
         /\ Len(Current(disk).runs) < Slots(Current(disk).phase)
<1>1. /\ mem[p] = disk /\ Current(disk) \in CampaignPhase /\ suites \in Seq(Suites)
      /\ disk.baseline \in Nat
  BY InExecution DEF ReadyToRun, At, Executions
<1>2. NextSuite(p) \in Suites BY <1>1 DEF NextSuite, Suites, CampaignPhase
<1>3. /\ Len(suites') = Len(suites) + 1 /\ suites'[Len(suites')] = NextSuite(p)
      /\ Len(suites) \in Nat /\ DOMAIN suites = 1 .. Len(suites)
      /\ DOMAIN suites' = 1 .. Len(suites')
  BY <1>1, <1>2
<1>4. Len(suites') \in Nat \ Linked(disk) /\ Len(suites') \in DOMAIN suites' BY <1>3, LinkedIs
<1>5. NextSuite(p).build =
        IF Len(Current(disk).runs) \in {0, 3} THEN disk.baseline ELSE Current(disk).build
  BY <1>1 DEF NextSuite
<1>6. /\ Current(disk).build # 0 /\ disk.baseline # 0
      /\ Len(Current(disk).runs) < Slots(Current(disk).phase)
  BY <1>1 DEF ReadyToRun
<1>7. Grown(suites, suites') BY <1>2 DEF Grown
<1> QED BY <1>2, <1>3, <1>4, <1>5, <1>6, <1>7

\* What a step saves, and what runs it adds
Moved ==
  /\ disk' \in CampaignState /\ Grown(suites, suites')
  /\ \/ Kept(disk, disk')
     \/ \E ph : Progressed(disk, disk', ph) /\ Rests(disk, ph, suites')
     \/ Admitted(disk, disk')

\* A step that saves nothing
LEMMA Unmoved ==
  ASSUME IInv, disk' = disk, Grown(suites, suites')
  PROVE  Moved
BY DEF Moved, Kept, IInv, TypeOK

\* A step that saves a final status only
LEMMA Ended ==
  ASSUME IInv, suites' = suites, NEW x \in Final, disk' = [disk EXCEPT !.status = x]
  PROVE  Moved
<1>1. disk \in CampaignState BY DEF IInv, TypeOK
<1> QED BY <1>1, StatusIs DEF Moved, Kept, Grown

\* Settle interrupts the phase that was left running.
LEMMA SettleMoves ==
  ASSUME IInv, NEW p \in Procs, Settle(p)
  PROVE  Moved
<1> DEFINE ph == [Current(disk) EXCEPT !.status = "interrupted", !.decision = "interrupted"]
           s  == Interrupted(disk)
<1>1. disk \in CampaignState /\ mem[p] = disk /\ Pending(disk) # {} /\ suites' = suites
      /\ suites \in Seq(Suites)
  BY DEF Settle, At, IInv, TypeOK, MemInv, worldVars
<1>2. /\ disk.phases # << >> /\ Current(disk).status = "running" /\ ph \in CampaignPhase
      /\ s \in CampaignState /\ s.phases = [disk.phases EXCEPT ![Len(disk.phases)] = ph]
      /\ s.baseline = disk.baseline /\ s.reserved = disk.reserved
  BY <1>1, InterruptedIs DEF IInv, Earned
<1>3. \E x \in {"interrupted", "running"} : disk' = [s EXCEPT !.status = x] BY <1>1 DEF Settle, Save, SaveAndLeave
<1> HIDE DEF s
<1>4. /\ disk' \in CampaignState /\ disk'.phases = s.phases
      /\ disk'.baseline = s.baseline /\ disk'.reserved = s.reserved
 <2>1. PICK x \in {"interrupted", "running"} : disk' = [s EXCEPT !.status = x] BY <1>3
 <2>2. x \in {"ready", "running"} \cup Final BY DEF Final
 <2> QED BY <1>2, <2>1, <2>2, StatusIs
<1>5. /\ Current(disk) \in CampaignPhase /\ Current(disk) = disk.phases[Len(disk.phases)]
      /\ Len(disk.phases) \in DOMAIN disk.phases
  BY <1>1, <1>2, CurrentType
<1>6. /\ ph.candidate = Current(disk).candidate /\ ph.phase = Current(disk).phase
      /\ ph.status = "interrupted" /\ ph.decision = "interrupted"
      /\ ph.build = Current(disk).build /\ ph.runs = Current(disk).runs
      /\ ph.comparisons = Current(disk).comparisons
  BY <1>5 DEF CampaignPhase
<1> HIDE DEF ph
<1>7. Progressed(disk, disk', ph) BY <1>2, <1>4, <1>6 DEF Progressed
<1>8. Fed(Current(disk), disk.baseline, suites)
      /\ (ph.phase = "confirmation" =>
           ph.build \in {0, disk.phases[Len(disk.phases) - 1].build})
  BY <1>5, <1>6 DEF IInv, Evidenced
<1>9. Fed(ph, disk.baseline, suites') BY <1>1, <1>5, <1>6, <1>8, FedConcluded DEF Grown
<1> QED BY <1>1, <1>4, <1>7, <1>8, <1>9 DEF Moved, Rests, Grown

\* Admit reserves what is due and fits.
LEMMA AdmitMoves ==
  ASSUME IInv, NEW p \in Procs, Admit(p)
  PROVE  Moved /\ Admitted(disk, disk')
<1>1. /\ disk \in CampaignState /\ mem[p] = disk /\ Pending(disk) = {} /\ suites' = suites
  BY DEF Admit, At, IInv, TypeOK, MemInv, RunningInv, worldVars
<1>2. \E d \in Due(disk) : Fits(disk, d[2]) /\ disk' = Reserved(disk, d) BY <1>1 DEF Admit, Save
<1> QED BY <1>1, <1>2, ReservedIs DEF Moved, Admitted, Grown

\* Prepare gives a build to a phase that has no runs yet.
LEMMA PrepareMoves ==
  ASSUME IInv, NEW p \in Procs, Prepare(p)
  PROVE  Moved
<1> DEFINE ph == [Current(disk) EXCEPT !.build = builds']
<1>1. /\ pc[p] \in Executions /\ Current(disk).phase # "confirmation" /\ Current(disk).build = 0
      /\ builds' \in Nat /\ suites' = suites /\ disk' = WithCurrent(disk, ph)
      /\ Current(disk) \in CampaignPhase
 <2>1. pc[p] \in Executions BY DEF Prepare, At, Executions
 <2>2. mem[p] = disk /\ Current(disk) \in CampaignPhase BY <2>1, InExecution
 <2>3. builds' \in Nat BY DEF Prepare, IInv, TypeOK
 <2> QED BY <2>1, <2>2, <2>3 DEF Prepare, Save
<1>2. /\ ph \in CampaignPhase /\ ph.status = Current(disk).status
      /\ ph.decision = Current(disk).decision /\ ph.candidate = Current(disk).candidate
      /\ ph.phase = Current(disk).phase /\ ph.runs = Current(disk).runs
      /\ ph.comparisons = Current(disk).comparisons
  BY <1>1 DEF CampaignPhase
<1> HIDE DEF ph
<1>3. ph.decision = "none" /\ Fed(Current(disk), disk.baseline, suites) /\ ph.runs = << >>
  BY <1>1, <1>2, InExecution DEF Fed
<1>4. Fed(ph, disk.baseline, suites') /\ Grown(suites, suites') BY <1>1, <1>2, <1>3 DEF Fed, Grown
<1> QED BY <1>1, <1>2, <1>3, <1>4, Replaced DEF Moved

\* FixBaseline fixes a baseline that was open.
LEMMA FixBaselineMoves ==
  ASSUME IInv, NEW p \in Procs, FixBaseline(p)
  PROVE  Moved
<1>1. /\ mem[p] = disk /\ disk \in CampaignState /\ Current(disk) \in CampaignPhase
  BY InExecution DEF FixBaseline, Executing, At, Executions
<1>2. /\ disk' = [disk EXCEPT !.baseline = Current(disk).build] /\ disk.baseline = 0
      /\ suites' = suites
  BY <1>1 DEF FixBaseline, Save, worldVars
<1>3. Current(disk).build \in Nat BY <1>1 DEF CampaignPhase
<1> QED BY <1>1, <1>2, <1>3, BaselineIs DEF Moved, Kept, Grown

\* ReuseBuild takes the build of the screening right before.
LEMMA ReuseBuildMoves ==
  ASSUME IInv, NEW p \in Procs, ReuseBuild(p)
  PROVE  Moved
<1> DEFINE n == Len(disk.phases)
<1>1. /\ pc[p] \in Executions /\ Current(disk).phase = "confirmation" /\ Current(disk).build = 0
      /\ Current(disk) \in CampaignPhase /\ suites' = suites
  BY InExecution DEF ReuseBuild, Executing, At, Executions, worldVars
<1>2. PICK old \in Phases(disk, Current(disk).candidate, "screening") :
        disk' = WithCurrent(disk, [Current(disk) EXCEPT !.build = old.build])
  BY <1>1, InExecution DEF ReuseBuild, Save
<1> DEFINE ph == [Current(disk) EXCEPT !.build = old.build]
<1>3. /\ disk.phases \in Seq(CampaignPhase) /\ n \in DOMAIN disk.phases
      /\ DOMAIN disk.phases = 1 .. n /\ n \in Nat /\ Current(disk) = disk.phases[n]
  BY <1>1, InExecution, CurrentType
<1>4. old = disk.phases[n - 1]
 <2>1. /\ n - 1 \in 1 .. n /\ disk.phases[n - 1].candidate = Current(disk).candidate
       /\ disk.phases[n - 1].phase = "screening"
   BY <1>1, <1>3 DEF IInv, Earned, Followed
 <2>2. PICK j \in 1 .. n : /\ old = disk.phases[j] /\ old.phase = "screening"
                           /\ old.candidate = Current(disk).candidate
   BY <1>2, <1>3 DEF Phases
 <2>3. j = n - 1 BY ZenonT(60), <1>3, <2>1, <2>2 DEF IInv, Earned, Ordered
 <2> QED BY <2>2, <2>3
<1>5. old.build \in Nat
 <2>1. old \in CampaignPhase BY <1>2, <1>3 DEF Phases
 <2> QED BY <2>1 DEF CampaignPhase
<1>6. /\ ph \in CampaignPhase /\ ph.status = Current(disk).status
      /\ ph.decision = Current(disk).decision /\ ph.candidate = Current(disk).candidate
      /\ ph.phase = Current(disk).phase /\ ph.runs = Current(disk).runs
      /\ ph.comparisons = Current(disk).comparisons /\ ph.build = old.build
  BY <1>1, <1>5 DEF CampaignPhase
<1>7. disk' = WithCurrent(disk, ph) BY <1>2
<1> HIDE DEF ph
<1>8. ph.decision = "none" /\ Fed(Current(disk), disk.baseline, suites) /\ ph.runs = << >>
  BY <1>1, <1>6, InExecution DEF Fed
<1>9. Fed(ph, disk.baseline, suites') /\ Grown(suites, suites') BY <1>1, <1>6, <1>8 DEF Fed, Grown
<1>10. ph.build \in {0, disk.phases[n - 1].build} BY <1>4, <1>6
<1> QED BY <1>1, <1>6, <1>7, <1>8, <1>9, <1>10, Replaced DEF Moved

\* LinkRun adds a run that was made for its place.
LEMMA LinkRunMoves ==
  ASSUME IInv, NEW p \in Procs, LinkRun(p)
  PROVE  Moved
<1> DEFINE ph == [Current(disk) EXCEPT !.runs = Append(Current(disk).runs, result[p])]
<1>1. /\ pc[p] = "link" /\ pc[p] \in Executions /\ Current(disk) \in CampaignPhase
      /\ mem[p] = disk /\ suites' = suites /\ result[p] \in Nat \ Linked(disk)
  BY InExecution DEF LinkRun, At, Executions, Reused, worldVars, IInv, TypeOK
<1>2. Current(disk).runs \in Seq(Nat) BY <1>1 DEF CampaignPhase
<1>3. Append(Current(disk).runs, result[p]) \in Seq(Nat) BY <1>1, <1>2
<1>4. disk' = WithCurrent(disk, ph) BY <1>1 DEF LinkRun, Save
<1>5. /\ ph \in CampaignPhase /\ ph.status = Current(disk).status
      /\ ph.decision = Current(disk).decision /\ ph.candidate = Current(disk).candidate
      /\ ph.phase = Current(disk).phase /\ ph.runs = Append(Current(disk).runs, result[p])
      /\ ph.comparisons = Current(disk).comparisons /\ ph.build = Current(disk).build
  BY <1>1, <1>3 DEF CampaignPhase
<1> HIDE DEF ph
<1>6. /\ Current(disk).build # 0 /\ disk.baseline # 0
      /\ Len(Current(disk).runs) < Slots(Current(disk).phase)
      /\ result[p] \in DOMAIN suites
      /\ suites[result[p]].build =
           IF Len(Current(disk).runs) \in {0, 3} THEN disk.baseline ELSE Current(disk).build
  BY <1>1 DEF IInv, LinkInv
<1>7. Grown(suites, suites') BY <1>1 DEF Grown
<1>8. Fed(ph, disk.baseline, suites') BY <1>1, <1>5, <1>6, <1>7, InExecution, FedLinked
<1> QED BY <1>1, <1>4, <1>5, <1>7, <1>8, InExecution, Replaced DEF Moved

\* RunSuiteRaises ends the phase, with the run it made or without.
LEMMA RunSuiteRaisesMoves ==
  ASSUME IInv, NEW p \in Procs, RunSuiteRaises(p)
  PROVE  Moved
<1> DEFINE cur == Current(disk)
<1>1. /\ pc[p] \in Executions /\ ReadyToRun(p) /\ cur \in CampaignPhase /\ mem[p] = disk
  BY InExecution DEF RunSuiteRaises, ReadyToRun, At, Executions
<1>2. CASE suites' = suites /\ Conclude(p, cur, "failed", "execution_failed")
 <2>1. disk' = WithCurrent(disk, [cur EXCEPT !.status = "failed", !.decision = "execution_failed"])
   BY <1>1, <1>2 DEF Conclude, Save
 <2> QED BY <1>1, <1>2, <2>1, Failed DEF Moved, Grown, Decisions
<1>3. ASSUME suites' = Append(suites, NextSuite(p)),
             NEW linked \in {cur.runs, Append(cur.runs, Len(suites'))},
             Conclude(p, [cur EXCEPT !.runs = linked], "failed", "execution_failed")
      PROVE  Moved
 <2>1. /\ Grown(suites, suites') /\ Len(suites') \in Nat \ Linked(disk)
       /\ Len(suites') \in DOMAIN suites'
       /\ suites'[Len(suites')].build =
            IF Len(cur.runs) \in {0, 3} THEN disk.baseline ELSE cur.build
       /\ cur.build # 0 /\ disk.baseline # 0 /\ Len(cur.runs) < Slots(cur.phase)
   BY <1>1, <1>3, NextSuiteIs
 <2> DEFINE ph == [[cur EXCEPT !.runs = linked]
                     EXCEPT !.status = "failed", !.decision = "execution_failed"]
 <2>2. disk' = WithCurrent(disk, ph) BY <1>1, <1>3 DEF Conclude, Save
 <2>3. cur.runs \in Seq(Nat) BY <1>1 DEF CampaignPhase
 <2>4. linked \in Seq(Nat)
  <3>1. Append(cur.runs, Len(suites')) \in Seq(Nat) BY <2>1, <2>3
  <3> QED BY <1>3, <2>3, <3>1
 <2>5. /\ ph \in CampaignPhase /\ ph.status = "failed" /\ ph.decision = "execution_failed"
       /\ ph.candidate = cur.candidate /\ ph.phase = cur.phase /\ ph.runs = linked
       /\ ph.comparisons = cur.comparisons /\ ph.build = cur.build
   BY <1>1, <2>4 DEF CampaignPhase, Decisions
 <2> HIDE DEF ph
 <2>6. CASE linked = cur.runs
  <3>1. Fed(ph, disk.baseline, suites') BY <1>1, <2>1, <2>5, <2>6, InExecution, FedConcluded
  <3> QED BY <1>1, <2>1, <2>2, <2>5, <2>6, <3>1, InExecution, Replaced DEF Moved
 <2>7. CASE linked = Append(cur.runs, Len(suites'))
  <3>1. Fed(ph, disk.baseline, suites') BY SMTT(40), <1>1, <2>1, <2>5, <2>7, InExecution, FedLinked
  <3> QED BY ZenonT(60), <1>1, <2>1, <2>2, <2>5, <2>7, <3>1, InExecution, Replaced DEF Moved
 <2> QED BY <1>3, <2>6, <2>7
<1> QED BY <1>1, <1>2, <1>3 DEF RunSuiteRaises

\* Compare adds a verdict to a phase with all its runs.
LEMMA CompareMoves ==
  ASSUME IInv, NEW p \in Procs, Compare(p)
  PROVE  Moved
<1> DEFINE cur == Current(disk)
<1>1. /\ pc[p] \in Executions /\ cur \in CampaignPhase /\ mem[p] = disk /\ suites' = suites
      /\ Len(cur.runs) = Slots(cur.phase) /\ cur.build # 0 /\ disk.baseline # 0
  BY InExecution DEF Compare, ReadyToCompare, At, Executions, worldVars
<1>2. CASE disk' = disk BY <1>1, <1>2, Unmoved DEF Grown
<1>3. ASSUME NEW v \in Verdicts(cur.phase),
             disk' = WithCurrent(disk, [cur EXCEPT !.comparisons = Append(cur.comparisons, v)])
      PROVE  Moved
 <2> DEFINE ph == [cur EXCEPT !.comparisons = Append(cur.comparisons, v)]
            Seen == {"inconclusive", "decisive", "met", "not_met"}
 <2>1. cur.comparisons \in Seq(Seen) BY <1>1 DEF CampaignPhase
 <2>2. v \in Seen BY DEF Verdicts
 <2>3. /\ Append(cur.comparisons, v) \in Seq(Seen) /\ Append(cur.comparisons, v) # << >>
       /\ \A i \in DOMAIN Append(cur.comparisons, v) :
            Append(cur.comparisons, v)[i] = v
            \/ (i \in DOMAIN cur.comparisons /\ Append(cur.comparisons, v)[i] = cur.comparisons[i])
   BY <2>1, <2>2
 <2>4. /\ ph \in CampaignPhase /\ ph.status = cur.status /\ ph.decision = cur.decision
       /\ ph.candidate = cur.candidate /\ ph.phase = cur.phase /\ ph.runs = cur.runs
       /\ ph.comparisons = Append(cur.comparisons, v) /\ ph.build = cur.build
   BY <1>1, <2>3 DEF CampaignPhase
 <2>5. disk' = WithCurrent(disk, ph) BY <1>3
 <2> HIDE DEF ph
 <2>6. /\ cur.decision = "none" /\ Fed(cur, disk.baseline, suites)
       /\ cur.phase = "confirmation" => cur.build \in {0, disk.phases[Len(disk.phases) - 1].build}
   BY <1>1, InExecution
 <2>7. Fed(ph, disk.baseline, suites')
  <3>1. \A i \in DOMAIN ph.comparisons : ph.comparisons[i] \in Verdicts(ph.phase) BY <2>3, <2>4, <2>6 DEF Fed
  <3> QED BY <1>1, <2>3, <2>4, <2>6, <3>1 DEF Fed
 <2> QED BY <1>1, <2>4, <2>5, <2>6, <2>7, Replaced DEF Moved, Grown
<1>4. disk' = disk
      \/ \E v \in Verdicts(cur.phase) :
           disk' = WithCurrent(disk, [cur EXCEPT !.comparisons = Append(cur.comparisons, v)])
  BY <1>1 DEF Compare, Save
<1> QED BY <1>2, <1>3, <1>4

\* Only comparisons that all say so decide that the objective is met.
LEMMA VerdictIs ==
  ASSUME NEW ph \in CampaignPhase, Len(ph.comparisons) = Len(Pairs(ph.phase)),
         \A i \in DOMAIN ph.comparisons : ph.comparisons[i] \in Verdicts(ph.phase)
  PROVE  /\ Verdict(ph) \in Decisions
         /\ Verdict(ph) = "met" => ph.comparisons = <<"met", "met">>
<1>1. ph.comparisons \in Seq({"inconclusive", "decisive", "met", "not_met"}) BY DEF CampaignPhase
<1>2. /\ DOMAIN ph.comparisons = 1 .. Len(ph.comparisons)
      /\ Len(ph.comparisons) = 1 \/ Len(ph.comparisons) = 2
      /\ ph.phase # "calibration" => Len(ph.comparisons) = 2
  BY <1>1 DEF Pairs
<1>3. 1 \in DOMAIN ph.comparisons
 <2> DEFINE n == Len(ph.comparisons)
 <2>1. (n = 1 \/ n = 2) /\ DOMAIN ph.comparisons = 1 .. n BY <1>2
 <2> HIDE DEF n
 <2>2. 1 \in 1 .. n BY <2>1
 <2> QED BY <2>1, <2>2
<1>4. Verdict(ph) \in Decisions BY <1>1, <1>3 DEF Verdict, Decisions
<1>5. ASSUME Verdict(ph) = "met"
      PROVE  ph.comparisons = <<"met", "met">>
 <2>1. ph.comparisons[1] = "met" /\ \A i \in DOMAIN ph.comparisons : ph.comparisons[i] = "met" BY <1>5 DEF Verdict
 <2>2. ph.phase # "calibration" BY <1>3, <2>1 DEF Verdicts
 <2>3. Len(ph.comparisons) = 2 /\ ph.comparisons[2] = "met" BY <1>2, <2>1, <2>2
 <2> QED BY <1>1, <2>1, <2>3
<1> QED BY <1>4, <1>5

\* Decide completes the phase with what its comparisons say.
LEMMA DecideMoves ==
  ASSUME IInv, NEW p \in Procs, Decide(p)
  PROVE  Moved
<1> DEFINE cur == Current(disk)
<1>1. /\ pc[p] \in Executions /\ cur \in CampaignPhase /\ mem[p] = disk /\ suites' = suites
  BY InExecution DEF Decide, At, Executions, worldVars
<1>2. CASE /\ Len(cur.comparisons) = Len(Pairs(cur.phase))
           /\ Conclude(p, cur, "completed", Verdict(cur))
 <2> DEFINE ph == [cur EXCEPT !.status = "completed", !.decision = Verdict(cur)]
 <2>1. /\ Fed(cur, disk.baseline, suites)
       /\ cur.phase = "confirmation" => cur.build \in {0, disk.phases[Len(disk.phases) - 1].build}
   BY <1>1, InExecution
 <2>2. Verdict(cur) \in Decisions /\ (Verdict(cur) = "met" => cur.comparisons = <<"met", "met">>)
   BY <1>1, <1>2, <2>1, VerdictIs DEF Fed
 <2>3. disk' = WithCurrent(disk, ph) BY <1>1, <1>2 DEF Conclude, Save
 <2>4. /\ ph \in CampaignPhase /\ ph.status = "completed" /\ ph.decision = Verdict(cur)
       /\ ph.candidate = cur.candidate /\ ph.phase = cur.phase /\ ph.runs = cur.runs
       /\ ph.comparisons = cur.comparisons /\ ph.build = cur.build
   BY <1>1, <2>2 DEF CampaignPhase
 <2> HIDE DEF ph
 <2>5. Fed(ph, disk.baseline, suites') BY <1>1, <2>1, <2>2, <2>4 DEF Fed
 <2> QED BY <1>1, <2>1, <2>3, <2>4, <2>5, Replaced DEF Moved, Grown
<1>3. CASE /\ pc[p] \in {"suite_failed", "correctness_failed"}
           /\ Conclude(p, cur, "completed", pc[p])
 <2>1. pc[p] \in Decisions \ {"met"} BY <1>3 DEF Decisions
 <2>2. disk' = WithCurrent(disk, [cur EXCEPT !.status = "completed", !.decision = pc[p]])
   BY <1>1, <1>3 DEF Conclude, Save
 <2> QED BY <1>1, <2>1, <2>2, Failed DEF Moved, Grown
<1> QED BY <1>1, <1>2, <1>3 DEF Decide

\* A phase that cannot go on is concluded as it is.
LEMMA Surrendered ==
  ASSUME IInv, NEW p \in Procs, pc[p] \in Executions, suites' = suites,
         Conclude(p, Current(mem[p]), "failed", "execution_failed")
  PROVE  Moved
<1>1. mem[p] = disk BY InExecution
<1>2. disk' = WithCurrent(disk, [Current(disk) EXCEPT !.status = "failed",
                                                      !.decision = "execution_failed"])
  BY <1>1 DEF Conclude, Save
<1> QED BY <1>2, Failed DEF Moved, Grown, Decisions

\* Every step keeps what is saved, progresses or admits.
LEMMA MoveStep ==
  ASSUME IInv, [Next]_vars
  PROVE  Moved
<1>1. CASE UNCHANGED vars BY <1>1, Unmoved DEF vars, worldVars, Grown
<1>2. CASE InspectRun \/ InspectEnd \/ ChangeInputs BY <1>2, Unmoved DEF InspectRun, InspectEnd, ChangeInputs, Grown
<1>3. ASSUME NEW p \in Procs,
             CreateDirectory(p) \/ Resume(p) \/ Crash(p) \/ ReturnFinal(p) \/ AdmitDrifted(p)
             \/ RunSuiteStale(p)
      PROVE  Moved
 <2>1. disk' = disk /\ suites' = suites
   BY <1>3 DEF CreateDirectory, Resume, Crash, ReturnFinal, AdmitDrifted, RunSuiteStale, worldVars
 <2> QED BY <2>1, Unmoved DEF Grown
<1>4. ASSUME NEW p \in Procs, CreateState(p)
      PROVE  Moved
 <2>1. disk = NewState /\ disk' = NewState /\ suites' = suites
   BY <1>4 DEF CreateState, At, SaveAndLeave, worldVars, IInv, MemInv
 <2> QED BY <2>1, Unmoved DEF Grown
<1>5. ASSUME NEW p \in Procs, Block(p) \/ Exhaust(p) \/ Complete(p)
      PROVE  Moved
 <2>1. mem[p] = disk /\ suites' = suites BY <1>5 DEF Block, Exhaust, Complete, At, worldVars, IInv, MemInv
 <2>2. \E x \in Final : disk' = [disk EXCEPT !.status = x]
   BY <1>5, <2>1 DEF Block, Exhaust, Complete, SaveAndLeave, Final
 <2> QED BY <2>1, <2>2, Ended
<1>6. ASSUME NEW p \in Procs, RunSuite(p)
      PROVE  Moved
 <2>1. Grown(suites, suites') /\ disk' = disk BY <1>6, NextSuiteIs DEF RunSuite
 <2> QED BY <2>1, Unmoved
<1>7. ASSUME NEW p \in Procs, RejectReused(p) \/ RunDrifted(p) \/ CompareBusy(p) \/ Raise(p)
      PROVE  Moved
 <2>1. /\ pc[p] \in Executions /\ suites' = suites
       /\ Conclude(p, Current(mem[p]), "failed", "execution_failed")
   BY <1>7 DEF RejectReused, RunDrifted, ReadyToRun, CompareBusy, ReadyToCompare, Raise, At, Executions, worldVars
 <2> QED BY <2>1, Surrendered
<1> QED BY <1>1, <1>2, <1>3, <1>4, <1>5, <1>6, <1>7, SettleMoves, AdmitMoves, PrepareMoves, FixBaselineMoves,
  ReuseBuildMoves, LinkRunMoves, RunSuiteRaisesMoves, CompareMoves, DecideMoves DEF Next, Create, Control, Execute

----------------------------------------
(* The other parts of the invariant *)

\* What an operation that ends leaves, and one that saves
LEMMA LeaveTypes ==
  ASSUME TypeOK, NEW p \in Procs, Leave(p)
  PROVE  /\ lock' \in Procs \cup {Nobody} /\ pc' \in [Procs -> Labels]
         /\ mem' \in [Procs -> CampaignState] /\ result' \in [Procs -> Nat]
<1>1. pc' = [pc EXCEPT ![p] = "idle"] /\ pc' \in [Procs -> Labels] BY DEF Leave, TypeOK, Labels
<1>2. mem' \in [Procs -> CampaignState] BY NewStateType DEF Leave, TypeOK
<1>3. result' \in [Procs -> Nat] BY DEF Leave, TypeOK
<1> QED BY <1>1, <1>2, <1>3 DEF Leave

\* A step that saves keeps the types of the local state.
LEMMA SaveTypes ==
  ASSUME TypeOK, NEW p \in Procs, disk' \in CampaignState, NEW l \in Labels, NEW s, Save(p, s, l)
  PROVE  /\ lock' \in Procs \cup {Nobody} /\ pc' \in [Procs -> Labels]
         /\ mem' \in [Procs -> CampaignState] /\ result' \in [Procs -> Nat]
<1>1. pc' = [pc EXCEPT ![p] = l] /\ mem' = [mem EXCEPT ![p] = disk']
      /\ lock' = lock /\ result' = result
  BY DEF Save
<1>2. /\ pc \in [Procs -> Labels] /\ mem \in [Procs -> CampaignState]
      /\ lock \in Procs \cup {Nobody} /\ result \in [Procs -> Nat]
  BY DEF TypeOK
<1>3. pc' \in [Procs -> Labels] BY <1>1, <1>2
<1>4. mem' \in [Procs -> CampaignState] BY <1>1, <1>2
<1> QED BY <1>1, <1>2, <1>3, <1>4

\* Every variable keeps its type.
LEMMA TypeStep ==
  ASSUME IInv, [Next]_vars
  PROVE  TypeOK'
<1>1. TypeOK /\ disk' \in CampaignState BY MoveStep DEF IInv, Moved
<1>2. suites' \in Seq(Suites)
 <2>1. suites \in Seq(Suites) /\ Grown(suites, suites') BY MoveStep DEF IInv, TypeOK, Moved
 <2> QED BY <2>1 DEF Grown
<1> DEFINE Local == /\ lock' \in Procs \cup {Nobody} /\ pc' \in [Procs -> Labels]
                    /\ mem' \in [Procs -> CampaignState] /\ result' \in [Procs -> Nat]
           World == /\ root' \in {"absent", "bare", "created"}
                    /\ inputs' \in {"frozen", "changed"} /\ builds' \in Nat /\ inspecting' \in Nat
                    /\ crashes' \in 0 .. MaxCrashes /\ changes' \in 0 .. MaxChanges
                    /\ raises' \in 0 .. MaxRaises
<1>3. CASE UNCHANGED vars BY <1>1, <1>2, <1>3 DEF vars, procVars, worldVars, faultVars, TypeOK
<1>4. CASE InspectRun \/ InspectEnd \/ ChangeInputs
 <2>1. Local BY <1>1, <1>4 DEF InspectRun, InspectEnd, ChangeInputs, procVars, TypeOK
 <2>2. ASSUME InspectRun
       PROVE  inspecting' \in Nat
  <3>1. inspecting' \in Linked(disk) /\ suites \in Seq(Suites) BY <1>1, <2>2 DEF InspectRun, TypeOK
  <3> QED BY <3>1, LinkedIs
 <2>3. World
   BY SMTT(40), <1>1, <1>4, <2>2, BoundsAssumption DEF InspectRun, InspectEnd, ChangeInputs, faultVars, TypeOK
 <2> QED BY <1>1, <1>2, <2>1, <2>3 DEF TypeOK
<1>5. ASSUME NEW p \in Procs, CreateDirectory(p)
      PROVE  TypeOK'
 <2>1. Local BY <1>1, <1>5 DEF CreateDirectory, TypeOK, Labels
 <2>2. World BY <1>1, <1>5, BoundsAssumption DEF CreateDirectory, worldVars, faultVars, TypeOK
 <2> QED BY <1>1, <1>2, <2>1, <2>2 DEF TypeOK
<1>6. ASSUME NEW p \in Procs, CreateState(p)
      PROVE  TypeOK'
 <2>1. Local
  <3>1. Leave(p) BY <1>6 DEF CreateState, SaveAndLeave
  <3> QED BY <1>1, <3>1, LeaveTypes
 <2>2. World BY <1>1, <1>6, BoundsAssumption DEF CreateState, worldVars, faultVars, TypeOK
 <2> QED BY <1>1, <1>2, <2>1, <2>2 DEF TypeOK
<1>7. ASSUME NEW p \in Procs, Resume(p)
      PROVE  TypeOK'
 <2>1. Local BY <1>1, <1>7 DEF Resume, TypeOK, Labels
 <2>2. World BY <1>1, <1>7, BoundsAssumption DEF Resume, worldVars, faultVars, TypeOK
 <2> QED BY <1>1, <1>2, <2>1, <2>2 DEF TypeOK
<1>8. ASSUME NEW p \in Procs, Settle(p)
      PROVE  TypeOK'
 <2>1. Local
  <3>1. Leave(p) \/ \E s, l : l \in Labels /\ Save(p, s, l) BY <1>8 DEF Settle, SaveAndLeave, Labels
  <3> QED BY <1>1, <3>1, LeaveTypes, SaveTypes
 <2>2. World BY <1>1, <1>8, BoundsAssumption DEF Settle, worldVars, faultVars, TypeOK
 <2> QED BY <1>1, <1>2, <2>1, <2>2 DEF TypeOK
<1>9. ASSUME NEW p \in Procs, ReturnFinal(p)
      PROVE  TypeOK'
 <2>1. Local
  <3>1. CASE Leave(p) BY <1>1, <3>1, LeaveTypes
  <3>2. CASE Goto(p, "next") BY <1>1, <3>2 DEF Goto, TypeOK, Labels
  <3> QED BY <1>9, <3>1, <3>2 DEF ReturnFinal
 <2>2. World BY <1>1, <1>9, BoundsAssumption DEF ReturnFinal, worldVars, faultVars, TypeOK
 <2> QED BY <1>1, <1>2, <2>1, <2>2 DEF TypeOK
<1>10. ASSUME NEW p \in Procs, Block(p)
      PROVE  TypeOK'
 <2>1. Local
  <3>1. Leave(p) BY <1>10 DEF Block, SaveAndLeave
  <3> QED BY <1>1, <3>1, LeaveTypes
 <2>2. World BY <1>1, <1>10, BoundsAssumption DEF Block, worldVars, faultVars, TypeOK
 <2> QED BY <1>1, <1>2, <2>1, <2>2 DEF TypeOK
<1>11. ASSUME NEW p \in Procs, Exhaust(p)
      PROVE  TypeOK'
 <2>1. Local
  <3>1. Leave(p) BY <1>11 DEF Exhaust, SaveAndLeave
  <3> QED BY <1>1, <3>1, LeaveTypes
 <2>2. World BY <1>1, <1>11, BoundsAssumption DEF Exhaust, worldVars, faultVars, TypeOK
 <2> QED BY <1>1, <1>2, <2>1, <2>2 DEF TypeOK
<1>12. ASSUME NEW p \in Procs, Admit(p)
      PROVE  TypeOK'
 <2>1. Local
  <3>1. \E s, l : l \in Labels /\ Save(p, s, l) BY <1>12 DEF Admit, Conclude, Labels
  <3> QED BY <1>1, <3>1, SaveTypes
 <2>2. World BY <1>1, <1>12, BoundsAssumption DEF Admit, worldVars, faultVars, TypeOK
 <2> QED BY <1>1, <1>2, <2>1, <2>2 DEF TypeOK
<1>13. ASSUME NEW p \in Procs, AdmitDrifted(p)
      PROVE  TypeOK'
 <2>1. Local
  <3>1. Leave(p) BY <1>13 DEF AdmitDrifted, SaveAndLeave
  <3> QED BY <1>1, <3>1, LeaveTypes
 <2>2. World BY <1>1, <1>13, BoundsAssumption DEF AdmitDrifted, worldVars, faultVars, TypeOK
 <2> QED BY <1>1, <1>2, <2>1, <2>2 DEF TypeOK
<1>14. ASSUME NEW p \in Procs, Complete(p)
      PROVE  TypeOK'
 <2>1. Local
  <3>1. Leave(p) BY <1>14 DEF Complete, SaveAndLeave
  <3> QED BY <1>1, <3>1, LeaveTypes
 <2>2. World BY <1>1, <1>14, BoundsAssumption DEF Complete, worldVars, faultVars, TypeOK
 <2> QED BY <1>1, <1>2, <2>1, <2>2 DEF TypeOK
<1>15. ASSUME NEW p \in Procs, Prepare(p)
      PROVE  TypeOK'
 <2>1. Local
  <3>1. \E s, l : l \in Labels /\ Save(p, s, l) BY <1>15 DEF Prepare, Conclude, Labels
  <3> QED BY <1>1, <3>1, SaveTypes
 <2>2. World BY SMTT(40), <1>1, <1>15, BoundsAssumption DEF Prepare, worldVars, faultVars, TypeOK
 <2> QED BY <1>1, <1>2, <2>1, <2>2 DEF TypeOK
<1>16. ASSUME NEW p \in Procs, FixBaseline(p)
      PROVE  TypeOK'
 <2>1. Local
  <3>1. \E s, l : l \in Labels /\ Save(p, s, l) BY <1>16 DEF FixBaseline, Conclude, Labels
  <3> QED BY <1>1, <3>1, SaveTypes
 <2>2. World BY <1>1, <1>16, BoundsAssumption DEF FixBaseline, worldVars, faultVars, TypeOK
 <2> QED BY <1>1, <1>2, <2>1, <2>2 DEF TypeOK
<1>17. ASSUME NEW p \in Procs, ReuseBuild(p)
      PROVE  TypeOK'
 <2>1. Local
  <3>1. \E s, l : l \in Labels /\ Save(p, s, l) BY <1>17 DEF ReuseBuild, Conclude, Labels
  <3> QED BY <1>1, <3>1, SaveTypes
 <2>2. World BY <1>1, <1>17, BoundsAssumption DEF ReuseBuild, worldVars, faultVars, TypeOK
 <2> QED BY <1>1, <1>2, <2>1, <2>2 DEF TypeOK
<1>18. ASSUME NEW p \in Procs, RunSuite(p)
      PROVE  TypeOK'
 <2>1. Local
  <3>1. Len(suites') \in Nat BY <1>2
  <3> QED BY <1>1, <1>18, <3>1 DEF RunSuite, TypeOK, Labels
 <2>2. World BY <1>1, <1>18, BoundsAssumption DEF RunSuite, worldVars, faultVars, TypeOK
 <2> QED BY <1>1, <1>2, <2>1, <2>2 DEF TypeOK
<1>19. ASSUME NEW p \in Procs, RunSuiteStale(p)
      PROVE  TypeOK'
 <2>1. Local
  <3>1. Linked(mem[p]) \subseteq Nat
   <4>1. mem[p] = disk /\ suites \in Seq(Suites) BY <1>19, InExecution DEF RunSuiteStale, ReadyToRun, At, Executions
   <4> QED BY <4>1, LinkedIs
  <3> QED BY <1>1, <1>19, <3>1 DEF RunSuiteStale, TypeOK, Labels
 <2>2. World BY <1>1, <1>19, BoundsAssumption DEF RunSuiteStale, worldVars, faultVars, TypeOK
 <2> QED BY <1>1, <1>2, <2>1, <2>2 DEF TypeOK
<1>20. ASSUME NEW p \in Procs, RejectReused(p)
      PROVE  TypeOK'
 <2>1. Local
  <3>1. \E s, l : l \in Labels /\ Save(p, s, l) BY <1>20 DEF RejectReused, Conclude, Labels
  <3> QED BY <1>1, <3>1, SaveTypes
 <2>2. World BY <1>1, <1>20, BoundsAssumption DEF RejectReused, worldVars, faultVars, TypeOK
 <2> QED BY <1>1, <1>2, <2>1, <2>2 DEF TypeOK
<1>21. ASSUME NEW p \in Procs, LinkRun(p)
      PROVE  TypeOK'
 <2>1. Local
  <3>1. \E s, l : l \in Labels /\ Save(p, s, l) BY <1>21 DEF LinkRun, Conclude, Labels
  <3> QED BY <1>1, <3>1, SaveTypes
 <2>2. World BY <1>1, <1>21, BoundsAssumption DEF LinkRun, worldVars, faultVars, TypeOK
 <2> QED BY <1>1, <1>2, <2>1, <2>2 DEF TypeOK
<1>22. ASSUME NEW p \in Procs, RunSuiteRaises(p)
      PROVE  TypeOK'
 <2>1. Local
  <3>1. \E s, l : l \in Labels /\ Save(p, s, l) BY <1>22 DEF RunSuiteRaises, Conclude, Labels
  <3> QED BY <1>1, <3>1, SaveTypes
 <2>2. World BY SMTT(40), <1>1, <1>22, BoundsAssumption DEF RunSuiteRaises, worldVars, faultVars, TypeOK
 <2> QED BY <1>1, <1>2, <2>1, <2>2 DEF TypeOK
<1>23. ASSUME NEW p \in Procs, RunDrifted(p)
      PROVE  TypeOK'
 <2>1. Local
  <3>1. \E s, l : l \in Labels /\ Save(p, s, l) BY <1>23 DEF RunDrifted, Conclude, Labels
  <3> QED BY <1>1, <3>1, SaveTypes
 <2>2. World BY <1>1, <1>23, BoundsAssumption DEF RunDrifted, worldVars, faultVars, TypeOK
 <2> QED BY <1>1, <1>2, <2>1, <2>2 DEF TypeOK
<1>24. ASSUME NEW p \in Procs, Compare(p)
      PROVE  TypeOK'
 <2>1. Local
  <3>1. CASE Goto(p, "correctness_failed") BY <1>1, <3>1 DEF Goto, TypeOK, Labels
  <3>2. CASE \E s : Save(p, s, "execute") BY <1>1, <3>2, SaveTypes DEF Labels
  <3> QED BY <1>24, <3>1, <3>2 DEF Compare
 <2>2. World BY <1>1, <1>24, BoundsAssumption DEF Compare, worldVars, faultVars, TypeOK
 <2> QED BY <1>1, <1>2, <2>1, <2>2 DEF TypeOK
<1>25. ASSUME NEW p \in Procs, CompareBusy(p)
      PROVE  TypeOK'
 <2>1. Local
  <3>1. \E s, l : l \in Labels /\ Save(p, s, l) BY <1>25 DEF CompareBusy, Conclude, Labels
  <3> QED BY <1>1, <3>1, SaveTypes
 <2>2. World BY <1>1, <1>25, BoundsAssumption DEF CompareBusy, worldVars, faultVars, TypeOK
 <2> QED BY <1>1, <1>2, <2>1, <2>2 DEF TypeOK
<1>26. ASSUME NEW p \in Procs, Raise(p)
      PROVE  TypeOK'
 <2>1. Local
  <3>1. \E s, l : l \in Labels /\ Save(p, s, l) BY <1>26 DEF Raise, Conclude, Labels
  <3> QED BY <1>1, <3>1, SaveTypes
 <2>2. World BY <1>1, <1>26, BoundsAssumption DEF Raise, worldVars, faultVars, TypeOK
 <2> QED BY <1>1, <1>2, <2>1, <2>2 DEF TypeOK
<1>27. ASSUME NEW p \in Procs, Decide(p)
      PROVE  TypeOK'
 <2>1. Local
  <3>1. \E s, l : l \in Labels /\ Save(p, s, l) BY <1>27 DEF Decide, Conclude, Labels
  <3> QED BY <1>1, <3>1, SaveTypes
 <2>2. World BY <1>1, <1>27, BoundsAssumption DEF Decide, worldVars, faultVars, TypeOK
 <2> QED BY <1>1, <1>2, <2>1, <2>2 DEF TypeOK
<1>28. ASSUME NEW p \in Procs, Crash(p)
      PROVE  TypeOK'
 <2>1. Local
  <3>1. Leave(p) BY <1>28 DEF Crash, SaveAndLeave
  <3> QED BY <1>1, <3>1, LeaveTypes
 <2>2. World BY <1>1, <1>28, BoundsAssumption DEF Crash, worldVars, faultVars, TypeOK
 <2> QED BY <1>1, <1>2, <2>1, <2>2 DEF TypeOK
<1> QED BY <1>3, <1>4, <1>5, <1>6, <1>7, <1>8, <1>9, <1>10, <1>11, <1>12, <1>13, <1>14, <1>15, <1>16, <1>17, <1>18,
  <1>19, <1>20, <1>21, <1>22, <1>23, <1>24, <1>25, <1>26, <1>27, <1>28 DEF Next, Create, Control, Execute

\* One process at a time is in an operation.
LEMMA Alone ==
  ASSUME IInv, NEW p \in Procs, pc[p] # "idle" \/ lock = Nobody
  PROVE  \A q \in Procs \ {p} : pc[q] = "idle"
BY SlotsAssumption DEF IInv, LockInv

\* The last phase, once it is replaced
LEMMA ReplacedIs ==
  ASSUME IInv, NEW p \in Procs, pc[p] \in Executions, NEW ph, disk' = WithCurrent(disk, ph)
  PROVE  /\ disk'.status = "running" /\ disk'.phases # << >> /\ Current(disk') = ph
         /\ disk'.reserved = disk.reserved
         /\ ph.status # "running" => Pending(disk') = {}
<1> DEFINE n == Len(disk.phases)
<1>1. /\ disk \in CampaignState /\ disk.phases # << >> /\ disk.status = "running" BY InExecution
<1>2. disk.phases \in Seq(CampaignPhase) /\ n \in DOMAIN disk.phases /\ n \in Nat
      /\ DOMAIN disk.phases = 1 .. n
  BY <1>1, CurrentType
<1> DEFINE new == [disk.phases EXCEPT ![n] = ph]
<1>3. WithCurrent(disk, ph) = [disk EXCEPT !.phases = new] BY Zenon DEF WithCurrent
<1>4. /\ DOMAIN new = 1 .. n /\ Len(new) = n /\ new # << >> /\ new[n] = ph
      /\ \A j \in 1 .. n : j # n => new[j] = disk.phases[j]
  BY <1>2
<1> HIDE DEF new
<1>5. disk'.status = disk.status /\ disk'.phases = new /\ disk'.reserved = disk.reserved
  BY <1>1, <1>3 DEF CampaignState
<1>6. \A j \in 1 .. n : disk.phases[j].status = "running" => j = n BY <1>2 DEF IInv, Earned, LastOnly
<1> QED BY <1>1, <1>4, <1>5, <1>6 DEF Current, Pending

\* What is in the last phase apart from what is changed of it
LEMMA PhaseIs ==
  ASSUME NEW ph \in CampaignPhase, NEW x
  PROVE  /\ [ph EXCEPT !.build = x].status = ph.status
         /\ [ph EXCEPT !.runs = x].status = ph.status
         /\ [ph EXCEPT !.comparisons = x].status = ph.status
BY DEF CampaignPhase

\* The end of a phase saves it as ended.
LEMMA ConcludedIs ==
  ASSUME IInv, NEW p \in Procs, pc[p] \in Executions, NEW ph, NEW x, NEW y,
         Conclude(p, ph, x, y),
         [ph EXCEPT !.status = x, !.decision = y].status # "running"
  PROVE  Save(p, disk', "next") /\ disk'.status = "running" /\ Pending(disk') = {}
<1>1. mem[p] = disk BY InExecution
<1> DEFINE new == [ph EXCEPT !.status = x, !.decision = y]
<1>2. new.status # "running" OBVIOUS
<1> HIDE DEF new
<1>3. Save(p, WithCurrent(disk, new), "next") BY <1>1 DEF Conclude, new
<1>4. disk' = WithCurrent(disk, new) BY <1>3 DEF Save
<1> QED BY <1>2, <1>3, <1>4, ReplacedIs

\* What the process in the operation knows of the saved state
ControlInv == LockInv /\ MemInv /\ RunningInv /\ LinkInv

\* An operation that ends leaves a state that is at rest, or as it was.
LEMMA LeaveStep ==
  ASSUME IInv, NEW p \in Procs, pc[p] # "idle", Leave(p),
         root' # "created" => disk' = NewState,
         disk'.status \in Final => Pending(disk') = {}
  PROVE  ControlInv'
<1>1. \A q \in Procs : pc'[q] = "idle" BY Alone DEF Leave, IInv, TypeOK
<1>2. lock' = Nobody BY DEF Leave
<1> QED BY <1>1, <1>2, SlotsAssumption DEF ControlInv, LockInv, MemInv, RunningInv, LinkInv, Executions

\* One that saves, and goes on
LEMMA SaveStep ==
  ASSUME IInv, NEW p \in Procs, pc[p] \notin {"idle", "create"}, UNCHANGED root,
         NEW l \in {"next", "execute", "suite_failed"}, Save(p, disk', l),
         disk'.status \notin Final,
         l = "next" => Pending(disk') = {},
         l # "next" => disk'.status = "running" /\ disk'.phases # << >>
                       /\ Current(disk').status = "running"
  PROVE  ControlInv'
<1>1. /\ \A q \in Procs : pc'[q] = IF q = p THEN l ELSE "idle"
      /\ mem'[p] = disk' /\ lock' = lock
  BY Alone DEF Save, IInv, TypeOK
<1>2. lock = p /\ root' = "created" BY DEF IInv, LockInv, MemInv
<1>3. LockInv' /\ LinkInv' BY <1>1, <1>2 DEF LockInv, LinkInv
<1>4. MemInv' BY <1>1, <1>2 DEF MemInv
<1>5. RunningInv' BY <1>1 DEF RunningInv, Executions
<1> QED BY <1>3, <1>4, <1>5 DEF ControlInv

\* One that goes on with what is saved
LEMMA GotoStep ==
  ASSUME IInv, NEW p \in Procs, pc[p] \notin {"idle", "create"}, UNCHANGED <<root, disk, lock, mem>>,
         NEW l \in Labels \ {"idle", "create"}, pc' = [pc EXCEPT ![p] = l],
         l = "next" => disk.status \notin Final /\ Pending(disk) = {},
         l \in Executions => pc[p] \in Executions,
         LinkInv'
  PROVE  ControlInv'
<1>1. /\ \A q \in Procs : pc'[q] = IF q = p THEN l ELSE "idle" BY Alone DEF IInv, TypeOK
<1>2. LockInv' BY <1>1 DEF IInv, LockInv
<1>3. MemInv' BY <1>1 DEF IInv, MemInv
<1>4. RunningInv' BY <1>1 DEF IInv, RunningInv
<1> QED BY <1>2, <1>3, <1>4 DEF ControlInv

\* Who is where holds the lock and the state, and a phase in execution is running.
LEMMA ControlStep ==
  ASSUME IInv, [Next]_vars
  PROVE  ControlInv'
<1>1. CASE UNCHANGED vars BY <1>1 DEF vars, procVars, worldVars, ControlInv, IInv, LockInv, MemInv, RunningInv, LinkInv
<1>2. CASE InspectRun \/ InspectEnd \/ ChangeInputs
 <2>1. UNCHANGED <<procVars, root, disk, suites>> BY <1>2 DEF InspectRun, InspectEnd, ChangeInputs
 <2> QED BY <2>1 DEF procVars, ControlInv, IInv, LockInv, MemInv, RunningInv, LinkInv
<1>3. ASSUME NEW p \in Procs, CreateDirectory(p)
      PROVE  ControlInv'
 <2>1. /\ \A q \in Procs : pc'[q] = IF q = p THEN "create" ELSE "idle"
       /\ lock' = p /\ root' = "bare" /\ disk' = disk /\ root = "absent"
   BY <1>3, Alone DEF CreateDirectory, At, IInv, TypeOK
 <2>2. disk' = NewState BY <2>1 DEF IInv, MemInv
 <2>3. LockInv' /\ MemInv' BY <2>1, <2>2 DEF LockInv, MemInv
 <2>4. RunningInv' /\ LinkInv' BY <2>1 DEF IInv, RunningInv, LinkInv, Executions
 <2> QED BY <2>3, <2>4 DEF ControlInv
<1>4. ASSUME NEW p \in Procs, CreateState(p)
      PROVE  ControlInv'
 <2>1. /\ pc[p] # "idle" /\ Leave(p) /\ disk' = NewState BY <1>4 DEF CreateState, At, SaveAndLeave
 <2>2. Pending(NewState) = {} BY DEF Pending, NewState
 <2> QED BY <2>1, <2>2, LeaveStep
<1>5. ASSUME NEW p \in Procs, Resume(p)
      PROVE  ControlInv'
 <2>1. /\ \A q \in Procs : pc'[q] = IF q = p THEN "settle" ELSE "idle"
       /\ lock' = p /\ root' = "created" /\ mem'[p] = disk' /\ disk' = disk
   BY <1>5, Alone DEF Resume, At, IInv, TypeOK
 <2>2. LockInv' /\ MemInv' BY <2>1 DEF LockInv, MemInv
 <2>3. RunningInv' /\ LinkInv' BY <2>1 DEF IInv, RunningInv, LinkInv, Executions
 <2> QED BY <2>2, <2>3 DEF ControlInv
<1>6. ASSUME NEW p \in Procs, Settle(p)
      PROVE  ControlInv'
 <2>1. /\ disk \in CampaignState /\ mem[p] = disk /\ Pending(disk) # {} /\ pc[p] = "settle"
       /\ root' = root /\ root = "created"
   BY <1>6 DEF Settle, At, IInv, TypeOK, MemInv
 <2> DEFINE s  == Interrupted(disk)
            ph == [Current(disk) EXCEPT !.status = "interrupted", !.decision = "interrupted"]
 <2>2. s \in CampaignState /\ s.phases = [disk.phases EXCEPT ![Len(disk.phases)] = ph]
   BY <2>1, InterruptedIs DEF IInv, Earned
 <2>3. Pending(s) = {}
  <3>1. /\ Current(disk) \in CampaignPhase /\ disk.phases \in Seq(CampaignPhase)
        /\ Len(disk.phases) \in DOMAIN disk.phases
    BY <2>1, InterruptedIs, CurrentType DEF IInv, Earned
  <3>2. ph.status = "interrupted" BY <3>1 DEF CampaignPhase
  <3> HIDE DEF s, ph
  <3>3. \A j \in DOMAIN s.phases : s.phases[j].status # "running" BY <2>2, <3>1, <3>2 DEF IInv, Earned, LastOnly
  <3> QED BY <3>3 DEF Pending
 <2> HIDE DEF s
 <2>4. CASE SaveAndLeave(p, [s EXCEPT !.status = "interrupted"])
  <3>1. disk'.phases = s.phases BY <2>2, <2>4, StatusIs DEF SaveAndLeave, Final
  <3>2. Pending(disk') = {} BY <2>3, <3>1 DEF Pending
  <3> QED BY <2>1, <2>4, <3>2, LeaveStep DEF SaveAndLeave
 <2>5. CASE Save(p, [s EXCEPT !.status = "running"], "next")
  <3>1. disk'.phases = s.phases /\ disk'.status = "running" BY <2>2, <2>5, StatusIs DEF Save
  <3>2. Pending(disk') = {} BY <2>3, <3>1 DEF Pending
  <3>3. Save(p, disk', "next") BY <2>5 DEF Save
  <3> QED BY <2>1, <3>1, <3>2, <3>3, SaveStep DEF Final
 <2> QED BY <1>6, <2>1, <2>4, <2>5 DEF Settle, s
<1>7. ASSUME NEW p \in Procs, ReturnFinal(p)
      PROVE  ControlInv'
 <2>1. /\ mem[p] = disk /\ Pending(disk) = {} /\ pc[p] = "settle" /\ root' = root
       /\ disk' = disk /\ root = "created"
   BY <1>7 DEF ReturnFinal, Settled, At, IInv, MemInv
 <2>2. CASE Leave(p) BY <2>1, <2>2, LeaveStep
 <2>3. CASE Goto(p, "next") /\ disk.status \notin Final
  <3>1. LinkInv' BY <2>1, <2>3, Alone DEF Goto, LinkInv, IInv, TypeOK
  <3> QED BY <2>1, <2>3, <3>1, GotoStep DEF Goto, Labels, Executions
 <2> QED BY <1>7, <2>1, <2>2, <2>3 DEF ReturnFinal
<1>8. ASSUME NEW p \in Procs, Block(p) \/ Exhaust(p) \/ Complete(p)
      PROVE  ControlInv'
 <2>1. /\ mem[p] = disk /\ disk \in CampaignState /\ Pending(disk) = {} /\ pc[p] = "next"
       /\ root' = root /\ root = "created" /\ Leave(p)
   BY <1>8 DEF Block, Exhaust, Complete, SaveAndLeave, At, IInv, TypeOK, MemInv, RunningInv
 <2>2. \E x \in Final : disk' = [disk EXCEPT !.status = x]
   BY <1>8, <2>1 DEF Block, Exhaust, Complete, SaveAndLeave, Final
 <2>3. disk'.phases = disk.phases BY <2>1, <2>2, StatusIs
 <2>4. Pending(disk') = {} BY <2>1, <2>3 DEF Pending
 <2> QED BY <2>1, <2>4, LeaveStep
<1>9. ASSUME NEW p \in Procs, AdmitDrifted(p) \/ Crash(p)
      PROVE  ControlInv'
 <2>1. pc[p] # "idle" /\ Leave(p) /\ disk' = disk /\ root' = root BY <1>9 DEF AdmitDrifted, Crash, At
 <2>2. root # "created" => disk = NewState BY DEF IInv, MemInv
 <2>3. disk.status \in Final => Pending(disk) = {} BY DEF IInv, RunningInv
 <2> QED BY <2>1, <2>2, <2>3, LeaveStep
<1>10. ASSUME NEW p \in Procs, Admit(p)
       PROVE  ControlInv'
 <2>1. /\ pc[p] = "next" /\ mem[p] = disk /\ disk \in CampaignState /\ root' = root
   BY <1>10 DEF Admit, At, IInv, TypeOK, MemInv
 <2>2. PICK d \in Due(disk) : Save(p, Reserved(disk, d), "execute") BY <1>10, <2>1 DEF Admit
 <2>3. disk' = Reserved(disk, d) /\ disk.phases \in Seq(CampaignPhase) BY <2>1, <2>2 DEF Save, CampaignState
 <2>4. disk'.status = "running" /\ disk'.phases = Append(disk.phases, NewPhase(d))
       /\ NewPhase(d) \in CampaignPhase
   BY <2>1, <2>3, ReservedIs
 <2>5. disk'.phases # << >> /\ Current(disk') = NewPhase(d) BY <2>3, <2>4 DEF Current
 <2>6. NewPhase(d).status = "running" BY DEF NewPhase
 <2> QED BY <2>1, <2>2, <2>3, <2>4, <2>5, <2>6, SaveStep DEF Final
<1>11. ASSUME NEW p \in Procs, Prepare(p) \/ ReuseBuild(p) \/ FixBaseline(p)
       PROVE  ControlInv'
 <2>1. /\ pc[p] = "execute" /\ pc[p] \in Executions /\ root' = root
   BY <1>11 DEF Prepare, ReuseBuild, FixBaseline, Executing, At, Executions
 <2>2. mem[p] = disk /\ Current(disk) \in CampaignPhase /\ Current(disk).status = "running"
       /\ disk \in CampaignState /\ disk.status = "running" /\ disk.phases # << >>
   BY <2>1, InExecution
 <2>3. CASE \E x : Save(p, WithCurrent(disk, [Current(disk) EXCEPT !.build = x]), "execute")
  <3>1. PICK x : Save(p, WithCurrent(disk, [Current(disk) EXCEPT !.build = x]), "execute") BY <2>3
  <3> DEFINE ph == [Current(disk) EXCEPT !.build = x]
  <3>2. ph.status = "running" BY <2>2, PhaseIs
  <3> HIDE DEF ph
  <3>3. disk' = WithCurrent(disk, ph) /\ Save(p, disk', "execute") BY <3>1 DEF Save, ph
  <3> QED BY <2>1, <3>2, <3>3, ReplacedIs, SaveStep DEF Final
 <2>4. CASE Save(p, [disk EXCEPT !.baseline = Current(disk).build], "execute")
  <3>1. Current(disk).build \in Nat BY <2>2 DEF CampaignPhase
  <3>2. disk' = [disk EXCEPT !.baseline = Current(disk).build] /\ Save(p, disk', "execute") BY <2>4 DEF Save
  <3>3. disk'.status = disk.status /\ disk'.phases = disk.phases BY <2>2, <3>1, <3>2, BaselineIs
  <3>4. Current(disk') = Current(disk) BY <3>3 DEF Current
  <3> QED BY <2>1, <2>2, <3>2, <3>3, <3>4, SaveStep DEF Final
 <2> QED BY <1>11, <2>2, <2>3, <2>4 DEF Prepare, ReuseBuild, FixBaseline
<1>12. ASSUME NEW p \in Procs, RunSuite(p)
       PROVE  ControlInv'
 <2>1. /\ pc[p] = "execute" /\ pc[p] \in Executions /\ UNCHANGED <<root, disk, lock, mem>>
       /\ pc' = [pc EXCEPT ![p] = "link"] /\ result'[p] = Len(suites')
   BY <1>12 DEF RunSuite, ReadyToRun, At, Executions, IInv, TypeOK
 <2>2. LinkInv'
  <3>1. \A q \in Procs \ {p} : pc'[q] = "idle" BY <2>1, Alone DEF IInv, TypeOK
  <3>2. /\ Len(suites') \in DOMAIN suites'
        /\ suites'[Len(suites')].build =
             IF Len(Current(disk).runs) \in {0, 3} THEN disk.baseline ELSE Current(disk).build
        /\ Current(disk).build # 0 /\ disk.baseline # 0
        /\ Len(Current(disk).runs) < Slots(Current(disk).phase)
    BY <1>12, NextSuiteIs DEF RunSuite
  <3> QED BY <2>1, <3>1, <3>2 DEF LinkInv
 <2> QED BY <2>1, <2>2, GotoStep DEF Labels
<1>13. ASSUME NEW p \in Procs, RunSuiteStale(p)
       PROVE  ControlInv'
 <2>1. /\ pc[p] = "execute" /\ pc[p] \in Executions /\ UNCHANGED <<root, disk, lock, mem, suites>>
       /\ pc' = [pc EXCEPT ![p] = "link"]
   BY <1>13 DEF RunSuiteStale, ReadyToRun, At, Executions, worldVars
 <2>2. mem[p] = disk BY <2>1, InExecution
 <2>3. result'[p] \in Linked(disk) BY <1>13, <2>2 DEF RunSuiteStale, IInv, TypeOK
 <2>4. LinkInv'
  <3>1. \A q \in Procs \ {p} : pc'[q] = "idle" BY <2>1, Alone DEF IInv, TypeOK
  <3> QED BY <1>13, <2>1, <2>2, <2>3, <3>1 DEF LinkInv, RunSuiteStale, ReadyToRun
 <2> QED BY <2>1, <2>4, GotoStep DEF Labels
<1>14. ASSUME NEW p \in Procs, LinkRun(p)
       PROVE  ControlInv'
 <2>1. /\ pc[p] = "link" /\ pc[p] \in Executions /\ root' = root BY <1>14 DEF LinkRun, At, Executions
 <2>2. mem[p] = disk /\ Current(disk) \in CampaignPhase /\ Current(disk).status = "running" BY <2>1, InExecution
 <2> DEFINE ran == Append(Current(disk).runs, result[p])
 <2>3. PICK l \in {"execute", "suite_failed"} :
         Save(p, WithCurrent(disk, [Current(disk) EXCEPT !.runs = ran]), l)
   BY <1>14, <2>2 DEF LinkRun
 <2> DEFINE ph == [Current(disk) EXCEPT !.runs = ran]
 <2>4. ph.status = "running" BY <2>2, PhaseIs
 <2> HIDE DEF ph
 <2>5. disk' = WithCurrent(disk, ph) /\ Save(p, disk', l) BY <2>3 DEF Save, ph
 <2> QED BY <2>1, <2>4, <2>5, ReplacedIs, SaveStep DEF Final
<1>15. ASSUME NEW p \in Procs, Compare(p)
       PROVE  ControlInv'
 <2>1. /\ pc[p] = "execute" /\ pc[p] \in Executions /\ root' = root
   BY <1>15 DEF Compare, ReadyToCompare, At, Executions
 <2>2. mem[p] = disk /\ Current(disk) \in CampaignPhase /\ Current(disk).status = "running" BY <2>1, InExecution
 <2>3. CASE Goto(p, "correctness_failed") /\ disk' = disk
  <3>1. LinkInv' BY <2>1, <2>3, Alone DEF Goto, LinkInv, IInv, TypeOK
  <3> QED BY <2>1, <2>3, <3>1, GotoStep DEF Goto, Labels
 <2>4. CASE \E x : Save(p, WithCurrent(disk, [Current(disk) EXCEPT !.comparisons = x]), "execute")
  <3>1. PICK x : Save(p, WithCurrent(disk, [Current(disk) EXCEPT !.comparisons = x]), "execute") BY <2>4
  <3> DEFINE ph == [Current(disk) EXCEPT !.comparisons = x]
  <3>2. ph.status = "running" BY <2>2, PhaseIs
  <3> HIDE DEF ph
  <3>3. disk' = WithCurrent(disk, ph) /\ Save(p, disk', "execute") BY <3>1 DEF Save, ph
  <3> QED BY <2>1, <3>2, <3>3, ReplacedIs, SaveStep DEF Final
 <2> QED BY <1>15, <2>2, <2>3, <2>4 DEF Compare
<1>16. ASSUME NEW p \in Procs, RejectReused(p) \/ RunSuiteRaises(p) \/ RunDrifted(p)
                              \/ CompareBusy(p) \/ Raise(p) \/ Decide(p)
       PROVE  ControlInv'
 <2>1. pc[p] \in Executions /\ root' = root
   BY <1>16 DEF RejectReused, RunSuiteRaises, RunDrifted, ReadyToRun, CompareBusy, ReadyToCompare, Raise, Decide, At,
     Executions
 <2>2. mem[p] = disk /\ Current(disk) \in CampaignPhase BY <2>1, InExecution
 <2>3. \E linked : \E ph \in {Current(disk), [Current(disk) EXCEPT !.runs = linked]} :
         \E x \in {"failed", "completed"} : \E y : Conclude(p, ph, x, y)
   BY <1>16, <2>2 DEF RejectReused, RunSuiteRaises, RunDrifted, CompareBusy, Raise, Decide
 <2>4. PICK linked : \E ph \in {Current(disk), [Current(disk) EXCEPT !.runs = linked]} :
         \E x \in {"failed", "completed"} : \E y : Conclude(p, ph, x, y)
   BY <2>3, Zenon
 <2>5. PICK ph \in {Current(disk), [Current(disk) EXCEPT !.runs = linked]} :
         \E x \in {"failed", "completed"} : \E y : Conclude(p, ph, x, y)
   BY <2>4, Zenon
 <2>6. Save(p, disk', "next") /\ disk'.status = "running" /\ Pending(disk') = {}
  <3>1. PICK x \in {"failed", "completed"} : \E y : Conclude(p, ph, x, y) BY <2>5, Zenon
  <3>2. PICK y : Conclude(p, ph, x, y) BY <3>1, Zenon
  <3>3. [ph EXCEPT !.status = x, !.decision = y].status # "running" BY <2>2, <2>5, <3>2 DEF CampaignPhase
  <3> QED BY <2>1, <3>2, <3>3, ConcludedIs
 <2> QED BY <2>1, <2>6, SaveStep DEF Executions, Final
<1> QED BY <1>1, <1>2, <1>3, <1>4, <1>5, <1>6, <1>7, <1>8, <1>9, <1>10, <1>11, <1>12, <1>13,
           <1>14, <1>15, <1>16 DEF Next, Create, Control, Execute

----------------------------------------
(* The invariant *)

\* The invariant holds at the start, and every step keeps it.
THEOREM Invariance == Spec => []IInv
<1>1. Init => IInv
 <2> SUFFICES ASSUME Init PROVE IInv OBVIOUS
 <2>1. NewState.phases = << >> /\ NewState.status = "ready" BY DEF NewState
 <2>2. TypeOK BY NewStateType, BoundsAssumption DEF Init, TypeOK, Labels
 <2>3. ControlInv
   BY <2>1, SlotsAssumption DEF Init, ControlInv, LockInv, MemInv, RunningInv, LinkInv, Executions, Final
 <2>4. Earned(disk) /\ Evidenced(disk, suites) BY <2>1 DEF Init, Earned, LastOnly, Ordered, Followed, InTurn, Evidenced
 <2> QED BY <2>2, <2>3, <2>4 DEF IInv, ControlInv
<1>2. IInv /\ [Next]_vars => IInv'
 <2> SUFFICES ASSUME IInv, [Next]_vars PROVE IInv' OBVIOUS
 <2>1. TypeOK' /\ ControlInv' BY TypeStep, ControlStep
 <2>2. /\ disk \in CampaignState /\ disk' \in CampaignState /\ suites \in Seq(Suites)
       /\ Earned(disk) /\ Evidenced(disk, suites) /\ Grown(suites, suites')
   BY MoveStep DEF Moved, IInv, TypeOK
 <2>3. Earned(disk') /\ Evidenced(disk', suites')
  <3>3. CASE Kept(disk, disk')
   <4>1. Earned(disk')
    <5>1. disk'.phases = disk.phases BY <3>3 DEF Kept
    <5> QED BY <2>2, <5>1, EarnedKept
   <4>2. Evidenced(disk', suites') BY <2>2, <3>3, EvidencedKept
   <4> QED BY <4>1, <4>2
  <3>4. CASE \E ph : Progressed(disk, disk', ph) /\ Rests(disk, ph, suites')
   <4>1. PICK ph : Progressed(disk, disk', ph) /\ Rests(disk, ph, suites') BY <3>4
   <4>2. Earned(disk') BY <2>2, <4>1, EarnedProgressed
   <4>3. Evidenced(disk', suites') BY <2>2, <4>1, EvidencedProgressed
   <4> QED BY <4>2, <4>3
  <3>5. CASE Admitted(disk, disk')
   <4>1. Earned(disk') BY <2>2, <3>5, EarnedAdmitted
   <4>2. Evidenced(disk', suites) BY <2>2, <3>5, EvidencedAdmitted
   <4>3. Kept(disk', disk') BY DEF Kept
   <4>4. Evidenced(disk', suites') BY <2>2, <4>2, <4>3, EvidencedKept
   <4> QED BY <4>1, <4>4
  <3> QED BY <3>3, <3>4, <3>5, MoveStep DEF Moved
 <2> QED BY <2>1, <2>3 DEF IInv, ControlInv
<1> QED BY <1>1, <1>2, PTL DEF Spec

\* Every variable keeps its type, whatever the plan and its budget.
THEOREM Typed == Spec => []TypeOK
BY Invariance, PTL DEF IInv

----------------------------------------
(* Promotion is earned *)

\* A phase rests on the one before it: the calibration that let the candidates
\* in, and, for a confirmation, the screening that met the objective.
LEMMA Promoting ==
  ASSUME IInv
  PROVE  PhasesAreEarned
<1>1. disk.phases \in Seq(CampaignPhase) BY DEF IInv, TypeOK, CampaignState
<1>2. SUFFICES ASSUME NEW j \in DOMAIN disk.phases
               PROVE  LET ph == disk.phases[j]
                      IN /\ ph.phase = "calibration" <=> j = 1
                         /\ j > 1 => disk.phases[1].decision = "inconclusive"
                                     /\ disk.phases[j - 1].status # "running"
                         /\ ph.phase = "confirmation" =>
                              /\ disk.phases[j - 1].candidate = ph.candidate
                              /\ disk.phases[j - 1].status = "completed"
                              /\ disk.phases[j - 1].comparisons = <<"met", "met">>
  BY DEF PhasesAreEarned
<1>3. disk.phases[j].phase = "calibration" <=> j = 1 BY DEF IInv, Earned, Ordered
<1>4. j > 1 => j - 1 \in DOMAIN disk.phases /\ j - 1 # Len(disk.phases) BY <1>1
<1>5. j > 1 => disk.phases[1].decision = "inconclusive" /\ disk.phases[j - 1].status # "running"
  BY <1>4 DEF IInv, Earned, Ordered, LastOnly
<1>6. disk.phases[j].phase = "confirmation" =>
        /\ j > 1 /\ disk.phases[j - 1].candidate = disk.phases[j].candidate
        /\ disk.phases[j - 1].decision = "met"
  BY DEF IInv, Earned, Followed
<1>7. j > 1 => Fed(disk.phases[j - 1], disk.baseline, suites) BY <1>4 DEF IInv, Evidenced
<1>8. disk.phases[j].phase = "confirmation" =>
        disk.phases[j - 1].status = "completed" /\ disk.phases[j - 1].comparisons = <<"met", "met">>
  BY SMTT(40), <1>6, <1>7 DEF Fed
<1> QED BY <1>3, <1>5, <1>6, <1>8

\* A confirmed improvement was measured on four runs, as NextSuite made them.
LEMMA Confirming ==
  ASSUME IInv
  PROVE  ImprovementIsConfirmed
<1>1. disk.phases \in Seq(CampaignPhase) BY DEF IInv, TypeOK, CampaignState
<1>2. SUFFICES ASSUME NEW j \in DOMAIN disk.phases, disk.phases[j].phase = "confirmation",
                      disk.phases[j].decision = "met"
               PROVE  LET ph == disk.phases[j]
                          measured == [i \in DOMAIN ph.runs |-> suites[ph.runs[i]].build]
                      IN /\ ph.build = disk.phases[j - 1].build
                         /\ measured = <<disk.baseline, ph.build, ph.build, disk.baseline>>
                         /\ \A k \in DOMAIN disk.phases \ {j} :
                              Range(ph.runs) \cap Range(disk.phases[k].runs) = {}
  BY Zenon DEF ImprovementIsConfirmed
<1> DEFINE ph == disk.phases[j]
           measured == [i \in DOMAIN ph.runs |-> suites[ph.runs[i]].build]
<1>3. Fed(ph, disk.baseline, suites) /\ ph.build \in {0, disk.phases[j - 1].build} BY <1>2 DEF IInv, Evidenced
<1>4. ph \in CampaignPhase BY <1>1
<1>5. ph.runs \in Seq(Nat) /\ Len(ph.runs) = 4 BY <1>2, <1>3, <1>4 DEF Fed, Slots, CampaignPhase
<1> HIDE DEF ph
<1>6. /\ ph.build # 0
      /\ \A i \in DOMAIN ph.runs :
           suites[ph.runs[i]].build = IF i \in {1, 4} THEN disk.baseline ELSE ph.build
 <2>1. ph.runs # << >>
  <3>1. Len(<< >>) # 4 OBVIOUS
  <3> QED BY <1>5, <3>1, Zenon
 <2>2. ph.build # 0 BY <1>3, <2>1 DEF Fed
 <2>3. \A i \in DOMAIN ph.runs :
          suites[ph.runs[i]].build = IF i \in {1, 4} THEN disk.baseline ELSE ph.build
   BY <1>3, Zenon DEF Fed
 <2> QED BY <2>2, <2>3
<1>7. measured = <<disk.baseline, ph.build, ph.build, disk.baseline>>
 <2>1. DOMAIN ph.runs = 1 .. 4 BY <1>5
 <2>2. measured = [i \in 1 .. 4 |-> IF i \in {1, 4} THEN disk.baseline ELSE ph.build] BY <1>6, <2>1
 <2> QED BY <2>2
<1>8. \A k \in DOMAIN disk.phases \ {j} : Range(ph.runs) \cap Range(disk.phases[k].runs) = {}
  BY DEF IInv, Evidenced, Range, ph
<1> QED BY <1>3, <1>6, <1>7, <1>8 DEF ph

\* No candidate gets further than its evidence takes it, and an improvement stands
\* on runs and a build of its own, in every campaign of any plan.
THEOREM PromotionEarned == Spec => []PromotionIsEarned
<1>1. IInv => PromotionIsEarned BY Promoting, Confirming DEF PromotionIsEarned
<1> QED BY <1>1, Invariance, PTL

----------------------------------------
(* History is final *)

\* A sequence begins with itself, and so does one with an element more.
LEMMA BeginsAlike ==
  ASSUME NEW old \in Seq(Nat)
  PROVE  /\ SubSeq(old, 1, Len(old)) = old /\ Len(old) \in Nat
         /\ \A r \in Nat : /\ SubSeq(Append(old, r), 1, Len(old)) = old
                           /\ Len(Append(old, r)) = Len(old) + 1
OBVIOUS

\* What a step leaves of a phase that is saved
Lasting(old, new) ==
  /\ old.status # "running" => new = old
  /\ new.candidate = old.candidate /\ new.phase = old.phase
  /\ Len(old.runs) <= Len(new.runs)
  /\ SubSeq(new.runs, 1, Len(old.runs)) = old.runs

\* A phase that stays as it is lasts.
LEMMA LastingSame ==
  ASSUME NEW ph \in CampaignPhase
  PROVE  Lasting(ph, ph)
<1>1. ph.runs \in Seq(Nat) BY DEF CampaignPhase
<1> QED BY <1>1, BeginsAlike DEF Lasting

\* No kind of step returns a slot or rewrites a phase that has ended.
LEMMA MovedLasts ==
  ASSUME IInv, Moved
  PROVE  /\ Len(disk.phases) <= Len(disk'.phases) /\ disk.reserved <= disk'.reserved
         /\ \A j \in DOMAIN disk.phases : Lasting(disk.phases[j], disk'.phases[j])
<1> DEFINE n == Len(disk.phases)
<1>1. /\ disk \in CampaignState /\ disk.phases \in Seq(CampaignPhase) /\ disk.reserved \in Nat
      /\ n \in Nat /\ DOMAIN disk.phases = 1 .. n
  BY DEF IInv, TypeOK, CampaignState
<1>2. \A j \in DOMAIN disk.phases : Lasting(disk.phases[j], disk.phases[j]) BY <1>1, LastingSame
<1>3. CASE Kept(disk, disk') BY <1>1, <1>2, <1>3 DEF Kept
<1>4. ASSUME NEW ph, Progressed(disk, disk', ph)
      PROVE  /\ Len(disk'.phases) = n /\ disk'.reserved = disk.reserved
             /\ \A j \in DOMAIN disk.phases : Lasting(disk.phases[j], disk'.phases[j])
 <2>1. /\ disk'.phases = [disk.phases EXCEPT ![n] = ph] /\ disk'.reserved = disk.reserved
       /\ n \in DOMAIN disk.phases /\ Current(disk) = disk.phases[n]
       /\ Current(disk).status = "running" /\ Current(disk) \in CampaignPhase
       /\ ph.candidate = Current(disk).candidate /\ ph.phase = Current(disk).phase
   BY <1>1, <1>4, CurrentType DEF Progressed
 <2>2. /\ Len(disk'.phases) = n /\ disk'.phases[n] = ph
       /\ \A j \in DOMAIN disk.phases : j # n => disk'.phases[j] = disk.phases[j]
   BY <1>1, <2>1
 <2>3. Current(disk).runs \in Seq(Nat) BY <2>1 DEF CampaignPhase
 <2>4. Len(Current(disk).runs) <= Len(ph.runs)
       /\ SubSeq(ph.runs, 1, Len(Current(disk).runs)) = Current(disk).runs
  <3>1. CASE ph.runs = Current(disk).runs BY <2>3, <3>1, BeginsAlike
  <3>2. ASSUME NEW r \in Nat, ph.runs = Append(Current(disk).runs, r)
        PROVE  Len(Current(disk).runs) <= Len(ph.runs)
               /\ SubSeq(ph.runs, 1, Len(Current(disk).runs)) = Current(disk).runs
    BY <2>3, <3>2, BeginsAlike
  <3> QED BY <1>4, <3>1, <3>2 DEF Progressed
 <2>5. Lasting(disk.phases[n], ph) BY <2>1, <2>4 DEF Lasting
 <2> QED BY <1>2, <2>1, <2>2, <2>5
<1>5. CASE Admitted(disk, disk')
 <2>1. PICK d \in Due(disk) : disk' = Reserved(disk, d) BY <1>5 DEF Admitted
 <2>2. /\ disk'.phases = Append(disk.phases, NewPhase(d))
       /\ disk'.reserved = disk.reserved + Slots(d[2])
   BY <1>1, <2>1, ReservedIs
 <2>3. Len(disk'.phases) = n + 1 /\ \A j \in DOMAIN disk.phases : disk'.phases[j] = disk.phases[j] BY <1>1, <2>2
 <2>4. disk.reserved <= disk'.reserved BY <1>1, <2>2 DEF Slots
 <2> QED BY <1>1, <1>2, <2>3, <2>4
<1> QED BY <1>1, <1>3, <1>4, <1>5 DEF Moved

\* A campaign in a final status is saved no more: nothing of it is pending, and
\* nobody is past the return of _resume_locked.
LEMMA FinalStays ==
  ASSUME IInv, [Next]_vars, root = "created", disk.status \in Final
  PROVE  disk' = disk
<1>1. \A p \in Procs : pc[p] \notin Executions \cup {"create", "next"} BY DEF IInv, MemInv, RunningInv, Final
<1>2. ASSUME NEW p \in Procs, pc[p] = "settle"
      PROVE  Pending(mem[p]) = {}
  BY <1>2 DEF IInv, MemInv, RunningInv
<1>3. CASE UNCHANGED vars BY <1>3 DEF vars
<1>4. CASE InspectRun \/ InspectEnd \/ ChangeInputs BY <1>4 DEF InspectRun, InspectEnd, ChangeInputs
<1>5. ASSUME NEW p \in Procs, Create(p) \/ Resume(p) \/ Control(p) \/ Crash(p)
      PROVE  disk' = disk
  BY <1>1, <1>2, <1>5 DEF Create, CreateDirectory, CreateState, Resume, Control, Settle, ReturnFinal, Block, Exhaust,
    Admit, AdmitDrifted, Complete, Crash, At
<1>6. ASSUME NEW p \in Procs
      PROVE  ~Execute(p)
  BY <1>1 DEF Execute, Executions, At, Executing, ReadyToRun, ReadyToCompare, Prepare, FixBaseline, ReuseBuild,
    RunSuite, RunSuiteStale, RejectReused, LinkRun, RunSuiteRaises, RunDrifted, Compare, CompareBusy, Raise, Decide
<1> QED BY <1>3, <1>4, <1>5, <1>6 DEF Next

\* What a campaign has done stays done: no slot is returned, no phase that ended is
\* rewritten, and no resume takes up a campaign that has come to its end.
THEOREM HistoryKept == Spec => HistoryIsFinal
<1>1. IInv /\ [Next]_vars =>
        [/\ Len(disk.phases) <= Len(disk'.phases)
         /\ disk.reserved <= disk'.reserved
         /\ \A j \in DOMAIN disk.phases :
              LET old == disk.phases[j]
                  new == disk'.phases[j]
              IN /\ old.status # "running" => new = old
                 /\ new.candidate = old.candidate /\ new.phase = old.phase
                 /\ Len(old.runs) <= Len(new.runs)
                 /\ SubSeq(new.runs, 1, Len(old.runs)) = old.runs]_vars
  BY MoveStep, MovedLasts DEF Lasting
<1>2. IInv /\ [Next]_vars => [root = "created" /\ disk.status \in Final => disk' = disk]_vars BY FinalStays
<1>3. Spec => HistoryIsKept BY <1>1, Invariance, PTL DEF Spec, HistoryIsKept
<1>4. Spec => FinalIsFinal BY <1>2, Invariance, PTL DEF Spec, FinalIsFinal
<1> QED BY <1>3, <1>4 DEF HistoryIsFinal

----------------------------------------
(* Slots are reserved before they are spent *)

\* Two phases are the same one, of the same candidate.
SamePhase(a, b) == a.candidate = b.candidate /\ a.phase = b.phase

\* The suite runs made for a phase
MadeFor(runs, ph) == {i \in DOMAIN runs : SamePhase(runs[i], ph)}

\* The ledger is right, and no phase has spent more than its slots.
Spent(s, runs) ==
  /\ s.reserved <= MaxSuiteRuns /\ s.reserved = Cardinality(Slotted(s))
  /\ \A i \in DOMAIN runs : \E j \in DOMAIN s.phases : SamePhase(runs[i], s.phases[j])
  /\ \A j \in DOMAIN s.phases :
       Cardinality(MadeFor(runs, s.phases[j])) <= Slots(s.phases[j].phase)
  /\ Len(runs) <= s.reserved

\* The phase in execution has linked all the runs it made but extra of them, and
\* the slots it has left are still reserved.
Room(s, runs, extra) ==
  LET ph == Current(s)
  IN /\ Cardinality(MadeFor(runs, ph)) <= Len(ph.runs) + extra
     /\ Len(runs) + Slots(ph.phase) <= s.reserved + Len(ph.runs) + extra

\* The ledger: what is spent, what is reserved and what each phase has used
SlotInv ==
  /\ Spent(disk, suites)
  /\ \A p \in Procs : pc[p] \in Executions => Room(disk, suites, IF pc[p] = "link" THEN 1 ELSE 0)

\* Two states with the same phases have the same slots, finitely many; a phase
\* more adds its own.
LEMMA SlottedSame ==
  ASSUME NEW s, NEW t, DOMAIN t.phases = DOMAIN s.phases,
         \A j \in DOMAIN s.phases : t.phases[j].phase = s.phases[j].phase
  PROVE  Slotted(t) = Slotted(s)
BY DEF Slotted

\* The slots of a state are finitely many.
LEMMA SlottedFinite ==
  ASSUME NEW s \in CampaignState
  PROVE  IsFiniteSet(Slotted(s))
<1> DEFINE n == Len(s.phases)
<1>1. s.phases \in Seq(CampaignPhase) /\ n \in Nat /\ DOMAIN s.phases = 1 .. n BY DEF CampaignState
<1>2. IsFiniteSet((1 .. n) \X (1 .. 4))
 <2>1. IsFiniteSet(1 .. n) BY <1>1, FS_Interval
 <2>2. 1 \in Int /\ 4 \in Int OBVIOUS
 <2>3. IsFiniteSet(1 .. 4) BY <2>2, FS_Interval
 <2> QED BY <2>1, <2>3, FS_Product
<1>3. Slotted(s) \subseteq (1 .. n) \X (1 .. 4) BY <1>1 DEF Slotted, Slots
<1> QED BY <1>2, <1>3, FS_Subset

\* A phase more adds its own slots.
LEMMA SlottedAdmitted ==
  ASSUME NEW s \in CampaignState, NEW d \in Due(s)
  PROVE  Cardinality(Slotted(Reserved(s, d))) = Cardinality(Slotted(s)) + Slots(d[2])
<1> DEFINE n == Len(s.phases)
           k == Slots(d[2])
           t == Reserved(s, d)
           own == {n + 1} \X (1 .. k)
<1>1. s.phases \in Seq(CampaignPhase) /\ n \in Nat /\ DOMAIN s.phases = 1 .. n BY DEF CampaignState
<1>2. t.phases = Append(s.phases, NewPhase(d)) /\ NewPhase(d) \in CampaignPhase BY ReservedIs
<1>3. /\ DOMAIN t.phases = (1 .. n) \cup {n + 1} /\ t.phases[n + 1] = NewPhase(d)
      /\ \A j \in 1 .. n : t.phases[j] = s.phases[j]
  BY <1>1, <1>2
<1>4. NewPhase(d).phase = d[2] BY DEF NewPhase
<1>5. k \in Nat BY DEF Slots
<1> HIDE DEF t
<1>6. Slotted(t) = Slotted(s) \cup own BY <1>1, <1>3, <1>4 DEF Slotted
<1>7. Slotted(s) \cap own = {} BY <1>1 DEF Slotted
<1>8. IsFiniteSet(own) /\ Cardinality(own) = k
 <2>1. IsFiniteSet(1 .. k) /\ Cardinality(1 .. k) = k BY <1>5, FS_Interval
 <2>2. IsFiniteSet({n + 1}) /\ Cardinality({n + 1}) = 1 BY FS_Singleton
 <2>3. IsFiniteSet(own) /\ Cardinality(own) = Cardinality({n + 1}) * Cardinality(1 .. k) BY <2>1, <2>2, FS_Product
 <2> QED BY <1>5, <2>1, <2>2, <2>3
<1> HIDE DEF own, k
<1>9. Cardinality(Slotted(s) \cup own) = Cardinality(Slotted(s)) + k - 0
  BY <1>7, <1>8, SlottedFinite, FS_Union, FS_EmptySet
<1>10. Cardinality(Slotted(s)) \in Nat BY SlottedFinite, FS_CardinalityType
<1> QED BY <1>5, <1>6, <1>9, <1>10 DEF k, t

\* How many suite runs there are for a phase, before and after one more
LEMMA MadeIs ==
  ASSUME NEW runs \in Seq(Suites), NEW ph
  PROVE  IsFiniteSet(MadeFor(runs, ph)) /\ Cardinality(MadeFor(runs, ph)) \in Nat
<1>1. DOMAIN runs = 1 .. Len(runs) /\ Len(runs) \in Nat OBVIOUS
<1>2. MadeFor(runs, ph) \subseteq 1 .. Len(runs) BY <1>1 DEF MadeFor
<1>3. IsFiniteSet(1 .. Len(runs)) BY <1>1, FS_Interval
<1>4. IsFiniteSet(MadeFor(runs, ph)) BY <1>2, <1>3, FS_Subset
<1> QED BY <1>4, FS_CardinalityType

\* One more run is one more for its own phase only.
LEMMA MadeAnother ==
  ASSUME NEW runs \in Seq(Suites), NEW r \in Suites, NEW ph
  PROVE  Cardinality(MadeFor(Append(runs, r), ph)) =
           Cardinality(MadeFor(runs, ph)) + (IF SamePhase(r, ph) THEN 1 ELSE 0)
<1> DEFINE n == Len(runs)
           more == Append(runs, r)
<1>1. /\ DOMAIN runs = 1 .. n /\ n \in Nat /\ DOMAIN more = (1 .. n) \cup {n + 1}
      /\ more[n + 1] = r /\ \A i \in 1 .. n : more[i] = runs[i]
  OBVIOUS
<1> HIDE DEF more
<1>2. MadeFor(more, ph) = MadeFor(runs, ph) \cup (IF SamePhase(r, ph) THEN {n + 1} ELSE {}) BY <1>1 DEF MadeFor
<1>3. n + 1 \notin MadeFor(runs, ph) BY <1>1 DEF MadeFor
<1>4. CASE SamePhase(r, ph) BY <1>2, <1>3, <1>4, MadeIs, FS_AddElement DEF more
<1>5. CASE ~SamePhase(r, ph) BY <1>2, <1>5, MadeIs DEF more
<1> QED BY <1>4, <1>5

\* The ledger of a state with the same phases, whatever has become of them
LEMMA SpentSame ==
  ASSUME NEW s, NEW t, NEW runs, Spent(s, runs), t.reserved = s.reserved,
         DOMAIN t.phases = DOMAIN s.phases,
         \A j \in DOMAIN s.phases : SamePhase(t.phases[j], s.phases[j])
  PROVE  Spent(t, runs)
<1>1. Slotted(t) = Slotted(s) BY SlottedSame DEF SamePhase
<1>2. \A j \in DOMAIN s.phases : MadeFor(runs, t.phases[j]) = MadeFor(runs, s.phases[j]) BY DEF MadeFor, SamePhase
<1>3. \A i \in DOMAIN runs : \E j \in DOMAIN t.phases : SamePhase(runs[i], t.phases[j]) BY DEF Spent, SamePhase
<1>4. \A j \in DOMAIN t.phases : Cardinality(MadeFor(runs, t.phases[j])) <= Slots(t.phases[j].phase)
  BY <1>2 DEF Spent, SamePhase
<1> QED BY <1>1, <1>3, <1>4 DEF Spent

\* A phase that is admitted is within the budget, and nothing was run for it.
LEMMA SpentAdmitted ==
  ASSUME NEW s \in CampaignState, NEW runs \in Seq(Suites), Spent(s, runs), Earned(s),
         Pending(s) = {}, NEW d \in Due(s), Fits(s, d[2])
  PROVE  Spent(Reserved(s, d), runs) /\ Room(Reserved(s, d), runs, 0)
<1> DEFINE n  == Len(s.phases)
           t  == Reserved(s, d)
           ph == NewPhase(d)
<1>1. s.phases \in Seq(CampaignPhase) /\ n \in Nat /\ DOMAIN s.phases = 1 .. n /\ s.reserved \in Nat
      /\ Len(runs) \in Nat
  BY DEF CampaignState
<1>2. /\ t.phases = Append(s.phases, ph) /\ ph \in CampaignPhase /\ t \in CampaignState
      /\ t.reserved = s.reserved + Slots(d[2])
  BY ReservedIs
<1>3. ph.phase = d[2] /\ ph.runs = << >> BY DEF NewPhase
<1> HIDE DEF ph
<1>4. /\ DOMAIN t.phases = (1 .. n) \cup {n + 1} /\ t.phases[n + 1] = ph /\ Len(t.phases) = n + 1
      /\ \A j \in 1 .. n : t.phases[j] = s.phases[j]
  BY <1>1, <1>2
<1>5. Earned(t) BY EarnedAdmitted DEF Admitted
<1>6. Cardinality(Slotted(t)) = Cardinality(Slotted(s)) + Slots(d[2]) BY SlottedAdmitted
<1>7. Slots(d[2]) \in Nat BY DEF Slots
<1> HIDE DEF t
<1>8. \A j \in 1 .. n : ~SamePhase(s.phases[j], ph)
 <2>1. ASSUME NEW j \in 1 .. n, SamePhase(s.phases[j], ph)
       PROVE  FALSE
  <3>1. j \in DOMAIN t.phases /\ n + 1 \in DOMAIN t.phases /\ SamePhase(t.phases[j], t.phases[n + 1]) BY <1>4, <2>1
  <3>2. j = n + 1 BY <1>5, <3>1 DEF Earned, Ordered, SamePhase
  <3> QED BY <1>1, <2>1, <3>2
 <2> QED BY <2>1
<1>9. MadeFor(runs, ph) = {} BY SMTT(40), <1>1, <1>8 DEF Spent, MadeFor, SamePhase
<1>10. Cardinality(MadeFor(runs, ph)) = 0 BY <1>9, FS_EmptySet
<1>11. t.reserved <= MaxSuiteRuns /\ t.reserved = Cardinality(Slotted(t)) /\ Len(runs) <= t.reserved
  BY <1>1, <1>2, <1>6, <1>7, BoundsAssumption DEF Spent, Fits
<1>12. \A i \in DOMAIN runs : \E j \in DOMAIN t.phases : SamePhase(runs[i], t.phases[j]) BY <1>1, <1>4 DEF Spent
<1>13. \A j \in DOMAIN t.phases : Cardinality(MadeFor(runs, t.phases[j])) <= Slots(t.phases[j].phase)
 <2>1. \A j \in 1 .. n : Cardinality(MadeFor(runs, t.phases[j])) <= Slots(t.phases[j].phase) BY <1>1, <1>4 DEF Spent
 <2>2. Cardinality(MadeFor(runs, t.phases[n + 1])) <= Slots(t.phases[n + 1].phase) BY <1>3, <1>4, <1>7, <1>10
 <2> QED BY <1>4, <2>1, <2>2
<1>14. Current(t) = ph BY <1>4 DEF Current
<1>15. Room(t, runs, 0)
 <2>1. Len(ph.runs) = 0 BY <1>3
 <2>2. Len(runs) + Slots(ph.phase) <= t.reserved + 0 + 0 BY <1>1, <1>2, <1>3, <1>7 DEF Spent
 <2> QED BY <1>10, <1>14, <2>1, <2>2 DEF Room
<1> QED BY <1>11, <1>12, <1>13, <1>15 DEF Spent, t

\* Any kind of step keeps the ledger right.
LEMMA SpentMoved ==
  ASSUME IInv, Moved, Spent(disk, suites'), suites' \in Seq(Suites)
  PROVE  Spent(disk', suites')
<1> DEFINE n == Len(disk.phases)
<1>1. /\ disk \in CampaignState /\ disk.phases \in Seq(CampaignPhase) /\ n \in Nat
      /\ DOMAIN disk.phases = 1 .. n /\ Earned(disk)
  BY DEF IInv, TypeOK, CampaignState
<1>2. CASE Kept(disk, disk') BY <1>2, SpentSame DEF Kept, SamePhase
<1>3. ASSUME NEW ph, Progressed(disk, disk', ph)
      PROVE  Spent(disk', suites')
 <2>1. /\ disk'.phases = [disk.phases EXCEPT ![n] = ph] /\ disk'.reserved = disk.reserved
       /\ SamePhase(ph, disk.phases[n])
   BY <1>1, <1>3, CurrentType DEF Progressed, SamePhase
 <2>2. DOMAIN disk'.phases = DOMAIN disk.phases BY <2>1
 <2>3. \A j \in DOMAIN disk.phases : SamePhase(disk'.phases[j], disk.phases[j]) BY <2>1 DEF SamePhase
 <2> QED BY <2>1, <2>2, <2>3, SpentSame
<1>4. CASE Admitted(disk, disk') BY <1>1, <1>4, SpentAdmitted DEF Admitted
<1> QED BY <1>2, <1>3, <1>4 DEF Moved

\* A run that is made has a slot of its phase left.
LEMMA SpentMade ==
  ASSUME IInv, SlotInv, NEW p \in Procs, ReadyToRun(p), suites' = Append(suites, NextSuite(p))
  PROVE  /\ suites' \in Seq(Suites) /\ Spent(disk, suites') /\ Room(disk, suites', 1)
<1> DEFINE r == NextSuite(p)
           cur == Current(disk)
           n == Len(disk.phases)
<1>1. /\ suites \in Seq(Suites) /\ r \in Suites /\ mem[p] = disk /\ disk \in CampaignState
      /\ disk.phases # << >> /\ cur \in CampaignPhase /\ Len(cur.runs) < Slots(cur.phase)
      /\ pc[p] = "execute" /\ pc[p] \in Executions
  BY NextSuiteIs, InExecution DEF ReadyToRun, At, Executions
<1>2. SamePhase(r, cur) BY <1>1 DEF NextSuite, SamePhase
<1>3. Spent(disk, suites) /\ Room(disk, suites, 0) BY <1>1 DEF SlotInv
<1>4. disk.reserved \in Nat /\ Len(suites) \in Nat /\ Len(cur.runs) \in Nat /\ Slots(cur.phase) \in Nat
  BY SMTT(40), <1>1 DEF CampaignState, CampaignPhase, Slots
<1> HIDE DEF r
<1>5. /\ suites' = Append(suites, r) /\ suites' \in Seq(Suites) /\ Len(suites') = Len(suites) + 1
      /\ DOMAIN suites' = DOMAIN suites \cup {Len(suites) + 1} /\ suites'[Len(suites) + 1] = r
      /\ \A i \in DOMAIN suites : suites'[i] = suites[i]
  BY <1>1 DEF r
<1>6. /\ n \in DOMAIN disk.phases /\ cur = disk.phases[n] BY <1>1, CurrentType
<1>7. \A j \in DOMAIN disk.phases : j # n => ~SamePhase(r, disk.phases[j])
  BY <1>2, <1>6 DEF SamePhase, IInv, Earned, Ordered
<1>8. \A j \in DOMAIN disk.phases :
        /\ Cardinality(MadeFor(suites, disk.phases[j])) \in Nat
        /\ Cardinality(MadeFor(suites', disk.phases[j])) =
             Cardinality(MadeFor(suites, disk.phases[j])) + (IF j = n THEN 1 ELSE 0)
  BY <1>1, <1>2, <1>5, <1>6, <1>7, MadeIs, MadeAnother
<1>9. /\ Cardinality(MadeFor(suites', cur)) = Cardinality(MadeFor(suites, cur)) + 1
      /\ Cardinality(MadeFor(suites, cur)) \in Nat
  BY <1>6, <1>8
<1>10. Room(disk, suites', 1) BY SMTT(40), <1>3, <1>4, <1>5, <1>9 DEF Room
<1>11. Cardinality(MadeFor(suites', cur)) <= Slots(cur.phase) BY <1>1, <1>3, <1>4, <1>9 DEF Room
<1>12. Len(suites') <= disk.reserved BY <1>1, <1>3, <1>4, <1>5 DEF Room
<1>13. \A j \in DOMAIN disk.phases :
         Cardinality(MadeFor(suites', disk.phases[j])) <= Slots(disk.phases[j].phase)
 <2>1. ASSUME NEW j \in DOMAIN disk.phases, j # n
       PROVE  Cardinality(MadeFor(suites', disk.phases[j])) <= Slots(disk.phases[j].phase)
   BY <1>3, <1>8, <2>1 DEF Spent
 <2> QED BY <1>6, <1>11, <2>1
<1>14. \A i \in DOMAIN suites' : \E j \in DOMAIN disk.phases : SamePhase(suites'[i], disk.phases[j])
  BY <1>2, <1>3, <1>5, <1>6 DEF Spent
<1> QED BY <1>3, <1>5, <1>10, <1>12, <1>13, <1>14 DEF Spent

\* The room of the phase in execution stays, when what it has not linked does not grow.
LEMMA RoomKept ==
  ASSUME NEW s, NEW t, NEW runs \in Seq(Suites), NEW a \in Nat, NEW b \in Nat, Room(s, runs, a),
         s.reserved \in Nat, t.reserved = s.reserved,
         Current(s).runs \in Seq(Nat), SamePhase(Current(t), Current(s)),
         \/ Current(t).runs = Current(s).runs /\ a <= b
         \/ \E r \in Nat : Current(t).runs = Append(Current(s).runs, r) /\ a <= b + 1
  PROVE  Room(t, runs, b)
<1>1. MadeFor(runs, Current(t)) = MadeFor(runs, Current(s)) /\ Current(t).phase = Current(s).phase
  BY DEF MadeFor, SamePhase
<1>2. Slots(Current(s).phase) \in Nat /\ Len(Current(s).runs) \in Nat /\ Len(runs) \in Nat BY DEF Slots
<1>3. Cardinality(MadeFor(runs, Current(s))) \in Nat BY MadeIs
<1>4. Len(Current(t).runs) \in Nat /\ Len(Current(s).runs) + a <= Len(Current(t).runs) + b
  BY SMTT(40), <1>2, BeginsAlike
<1>5. /\ Cardinality(MadeFor(runs, Current(s))) <= Len(Current(s).runs) + a
      /\ Len(runs) + Slots(Current(s).phase) <= s.reserved + Len(Current(s).runs) + a
  BY DEF Room
<1>6. Cardinality(MadeFor(runs, Current(t))) <= Len(Current(t).runs) + b BY <1>1, <1>2, <1>3, <1>4, <1>5
<1> DEFINE made == Len(runs)
           slots == Slots(Current(s).phase)
           was == Len(Current(s).runs)
           are == Len(Current(t).runs)
<1>7. made + slots <= t.reserved + are + b
 <2>1. /\ made \in Nat /\ slots \in Nat /\ was \in Nat /\ are \in Nat /\ t.reserved \in Nat
       /\ was + a <= are + b /\ made + slots <= t.reserved + was + a
   BY <1>2, <1>4, <1>5
 <2> HIDE DEF made, slots, was, are
 <2> QED BY SMTT(40), <2>1
<1> QED BY <1>1, <1>6, <1>7 DEF Room

\* What is left of the last phase when one thing is changed of it
LEMMA PartsAre ==
  ASSUME NEW ph \in CampaignPhase, NEW x
  PROVE  /\ SamePhase([ph EXCEPT !.build = x], ph) /\ [ph EXCEPT !.build = x].runs = ph.runs
         /\ SamePhase([ph EXCEPT !.runs = x], ph) /\ [ph EXCEPT !.runs = x].runs = x
         /\ SamePhase([ph EXCEPT !.comparisons = x], ph)
         /\ [ph EXCEPT !.comparisons = x].runs = ph.runs
BY DEF CampaignPhase, SamePhase

\* A step of execution that saves the phase leaves it its room.
LEMMA RoomSaved ==
  ASSUME IInv, SlotInv, NEW p \in Procs, pc[p] \in Executions, pc'[p] # "link", suites' = suites,
         NEW ph, disk' = WithCurrent(disk, ph), SamePhase(ph, Current(disk)),
         \/ ph.runs = Current(disk).runs /\ pc[p] # "link"
         \/ \E r \in Nat : ph.runs = Append(Current(disk).runs, r)
  PROVE  Room(disk', suites', 0)
<1>1. /\ disk \in CampaignState /\ disk.reserved \in Nat /\ Current(disk) \in CampaignPhase
      /\ suites \in Seq(Suites)
  BY InExecution DEF CampaignState
<1>2. Current(disk).runs \in Seq(Nat) BY <1>1 DEF CampaignPhase
<1>3. Current(disk') = ph /\ disk'.reserved = disk.reserved BY ReplacedIs
<1>4. pc[p] # "link" => Room(disk, suites, 0) BY DEF SlotInv
<1>5. pc[p] = "link" => Room(disk, suites, 1) BY DEF SlotInv
<1>6. CASE ph.runs = Current(disk).runs /\ pc[p] # "link" BY <1>1, <1>2, <1>3, <1>4, <1>6, RoomKept
<1>7. CASE \E r \in Nat : ph.runs = Append(Current(disk).runs, r)
 <2>1. 0 \in Nat /\ 1 \in Nat /\ 0 <= 0 + 1 /\ 1 <= 0 + 1 OBVIOUS
 <2>2. CASE pc[p] = "link" BY ZenonT(60), <1>1, <1>2, <1>3, <1>5, <1>7, <2>1, <2>2, RoomKept
 <2>3. CASE pc[p] # "link" BY <1>1, <1>2, <1>3, <1>4, <1>7, <2>1, <2>3, RoomKept
 <2> QED BY <2>2, <2>3
<1> QED BY <1>6, <1>7

\* The ledger after a step
LEMMA SpentStep ==
  ASSUME IInv, SlotInv, [Next]_vars
  PROVE  Spent(disk', suites')
<1>1. suites \in Seq(Suites) /\ Moved /\ Spent(disk, suites) BY MoveStep DEF IInv, TypeOK, SlotInv
<1>2. CASE suites' = suites BY <1>1, <1>2, SpentMoved
<1>3. ASSUME NEW p \in Procs, ReadyToRun(p), suites' = Append(suites, NextSuite(p))
      PROVE  Spent(disk', suites')
  BY <1>1, <1>3, SpentMade, SpentMoved
<1>4. ASSUME NEW p \in Procs,
             Create(p) \/ Resume(p) \/ Control(p) \/ Crash(p) \/ Execute(p),
             ~RunSuite(p), ~RunSuiteRaises(p)
      PROVE  suites' = suites
  BY <1>4 DEF Create, CreateDirectory, CreateState, Resume, Control, Settle, ReturnFinal, Block, Exhaust, Admit,
    AdmitDrifted, Complete, Crash, Execute, Prepare, FixBaseline, ReuseBuild, RunSuiteStale, RejectReused, LinkRun,
    RunDrifted, Compare, CompareBusy, Raise, Decide, worldVars
<1>5. ASSUME NEW p \in Procs, RunSuite(p) \/ RunSuiteRaises(p)
      PROVE  suites' = suites \/ (ReadyToRun(p) /\ suites' = Append(suites, NextSuite(p)))
  BY <1>5 DEF RunSuite, RunSuiteRaises
<1>6. CASE InspectRun \/ InspectEnd \/ ChangeInputs \/ UNCHANGED vars
  BY <1>2, <1>6 DEF InspectRun, InspectEnd, ChangeInputs, vars, worldVars
<1> QED BY <1>2, <1>3, <1>4, <1>5, <1>6 DEF Next

\* The process in execution has room for what it does next.
LEMMA RoomStep ==
  ASSUME IInv, SlotInv, [Next]_vars, NEW q \in Procs, pc'[q] \in Executions
  PROVE  Room(disk', suites', IF pc'[q] = "link" THEN 1 ELSE 0)
<1>0. pc \in [Procs -> Labels] /\ suites \in Seq(Suites) BY DEF IInv, TypeOK
<1>1. CASE UNCHANGED vars \/ InspectRun \/ InspectEnd \/ ChangeInputs
 <2>1. UNCHANGED <<pc, disk, suites>> BY <1>1 DEF InspectRun, InspectEnd, ChangeInputs, vars, procVars, worldVars
 <2> QED BY <2>1 DEF SlotInv
<1>2. ASSUME NEW p \in Procs, Create(p) \/ Resume(p) \/ Control(p) \/ Crash(p) \/ Execute(p)
      PROVE  p = q
 <2>1. \A x \in Procs \ {p} : pc[x] = "idle"
   BY SMTT(40), <1>2, Alone DEF Create, CreateDirectory, CreateState, Resume, Control, Settle, Settled, ReturnFinal,
     Block, Exhaust, Admit, AdmitDrifted, Complete, Crash, Execute, Prepare, FixBaseline, ReuseBuild, RunSuite,
     RunSuiteStale, RejectReused, LinkRun, RunSuiteRaises, RunDrifted, Compare, CompareBusy, Raise, Decide, At,
     Executing, ReadyToRun, ReadyToCompare
 <2>2. \A x \in Procs \ {p} : pc'[x] = pc[x]
   BY <1>0, <1>2 DEF Create, CreateDirectory, CreateState, Resume, Control, Settle, ReturnFinal, Block, Exhaust,
     Admit, AdmitDrifted, Complete, Crash, Execute, Prepare, FixBaseline, ReuseBuild, RunSuite, RunSuiteStale,
     RejectReused, LinkRun, RunSuiteRaises, RunDrifted, Compare, CompareBusy, Raise, Decide, Leave, Goto, Save,
     SaveAndLeave, Conclude
 <2> QED BY SMTT(40), <2>1, <2>2 DEF Executions
<1>3. ASSUME Create(q) \/ Resume(q) \/ Crash(q) \/ (Control(q) /\ ~Admit(q))
      PROVE  FALSE
  BY <1>0, <1>3 DEF Create, CreateDirectory, CreateState, Resume, Control, Settle, ReturnFinal, Block, Exhaust,
    AdmitDrifted, Complete, Crash, Leave, Goto, Save, SaveAndLeave, Executions
<1>4. ASSUME RejectReused(q) \/ RunSuiteRaises(q) \/ RunDrifted(q) \/ CompareBusy(q)
             \/ Raise(q) \/ Decide(q)
      PROVE  FALSE
  BY <1>0, <1>4 DEF RejectReused, RunSuiteRaises, RunDrifted, CompareBusy, Raise, Decide, Conclude, Save, Executions
<1>5. CASE Admit(q)
 <2>1. /\ mem[q] = disk /\ Pending(disk) = {} /\ disk \in CampaignState
       /\ Earned(disk) /\ Spent(disk, suites) /\ suites' = suites
   BY <1>5 DEF Admit, At, worldVars, IInv, MemInv, RunningInv, TypeOK, SlotInv
 <2>2. PICK d \in Due(disk) : Fits(disk, d[2]) /\ Save(q, Reserved(disk, d), "execute") BY <1>5, <2>1 DEF Admit
 <2>3. pc'[q] = "execute" /\ disk' = Reserved(disk, d) BY <1>0, <2>2 DEF Save
 <2> QED BY <1>0, <2>1, <2>2, <2>3, SpentAdmitted
<1>6. CASE Prepare(q) \/ FixBaseline(q) \/ ReuseBuild(q) \/ Compare(q)
 <2>1. /\ pc[q] = "execute" /\ pc[q] \in Executions /\ suites' = suites /\ pc'[q] # "link"
   BY <1>0, <1>6 DEF Prepare, FixBaseline, ReuseBuild, Compare, Executing, ReadyToCompare, At, Executions, worldVars,
     Save, Goto
 <2>2. /\ mem[q] = disk /\ Current(disk) \in CampaignPhase /\ Room(disk, suites, 0)
       /\ disk \in CampaignState
   BY <2>1, InExecution DEF SlotInv
 <2>3. ASSUME NEW x, disk' = WithCurrent(disk, [Current(disk) EXCEPT !.build = x])
       PROVE  Room(disk', suites', 0)
   BY <2>1, <2>2, <2>3, PartsAre, RoomSaved
 <2>4. ASSUME NEW x, disk' = WithCurrent(disk, [Current(disk) EXCEPT !.comparisons = x])
       PROVE  Room(disk', suites', 0)
   BY <2>1, <2>2, <2>4, PartsAre, RoomSaved
 <2>5. CASE disk' = [disk EXCEPT !.baseline = Current(disk).build]
  <3>1. Current(disk).build \in Nat BY <2>2 DEF CampaignPhase
  <3>2. disk'.phases = disk.phases /\ disk'.reserved = disk.reserved BY <2>2, <2>5, <3>1, BaselineIs
  <3> QED BY <2>1, <2>2, <3>2 DEF Room, Current
 <2>6. CASE disk' = disk BY <2>1, <2>2, <2>6
 <2>7. \/ disk' = disk \/ disk' = [disk EXCEPT !.baseline = Current(disk).build]
       \/ \E x : disk' = WithCurrent(disk, [Current(disk) EXCEPT !.build = x])
       \/ \E x : disk' = WithCurrent(disk, [Current(disk) EXCEPT !.comparisons = x])
   BY <1>6, <2>2 DEF Prepare, FixBaseline, ReuseBuild, Compare, Save
 <2> QED BY <2>1, <2>3, <2>4, <2>5, <2>6, <2>7
<1>7. CASE RunSuite(q)
 <2>1. ReadyToRun(q) /\ suites' = Append(suites, NextSuite(q)) /\ disk' = disk /\ pc'[q] = "link"
   BY <1>0, <1>7 DEF RunSuite
 <2> QED BY <2>1, SpentMade
<1>8. CASE RunSuiteStale(q)
 <2>1. /\ pc[q] = "execute" /\ pc[q] \in Executions /\ suites' = suites /\ disk' = disk
       /\ pc'[q] = "link"
   BY <1>0, <1>8 DEF RunSuiteStale, ReadyToRun, At, Executions, worldVars
 <2>2. /\ disk \in CampaignState /\ Current(disk) \in CampaignPhase /\ Room(disk, suites, 0)
       /\ disk.reserved \in Nat
   BY <2>1, InExecution DEF SlotInv, CampaignState
 <2>3. Current(disk).runs \in Seq(Nat) /\ SamePhase(Current(disk), Current(disk)) BY <2>2 DEF CampaignPhase, SamePhase
 <2>4. Room(disk, suites, 1) BY <1>0, <2>2, <2>3, RoomKept
 <2> QED BY <2>1, <2>4
<1>9. CASE LinkRun(q)
 <2>1. pc[q] = "link" /\ pc[q] \in Executions /\ suites' = suites /\ result[q] \in Nat
   BY <1>9 DEF LinkRun, At, Executions, worldVars, IInv, TypeOK
 <2>2. mem[q] = disk /\ Current(disk) \in CampaignPhase BY <2>1, InExecution
 <2> DEFINE ph == [Current(disk) EXCEPT !.runs = Append(Current(disk).runs, result[q])]
 <2>3. disk' = WithCurrent(disk, ph) /\ pc'[q] # "link" BY <1>0, <1>9, <2>2 DEF LinkRun, Save
 <2>4. SamePhase(ph, Current(disk)) /\ ph.runs = Append(Current(disk).runs, result[q]) BY ZenonT(60), <2>2, PartsAre
 <2> HIDE DEF ph
 <2> QED BY <2>1, <2>3, <2>4, RoomSaved
<1> QED BY <1>1, <1>2, <1>3, <1>4, <1>5, <1>6, <1>7, <1>8, <1>9 DEF Next, Execute

\* The slots of every phase are reserved before its first run.
THEOREM SlotInvariance == Spec => []SlotInv
<1>1. Init => SlotInv
 <2> SUFFICES ASSUME Init PROVE SlotInv OBVIOUS
 <2>1. /\ disk.phases = << >> /\ disk.reserved = 0 /\ suites = << >>
       /\ \A p \in Procs : pc[p] = "idle"
   BY DEF Init, NewState
 <2>2. Slotted(disk) = {} BY <2>1 DEF Slotted
 <2>3. Cardinality(Slotted(disk)) = 0 BY <2>2, FS_EmptySet
 <2> QED BY <2>1, <2>3, BoundsAssumption DEF SlotInv, Spent, Executions
<1>2. IInv /\ SlotInv /\ [Next]_vars => SlotInv' BY SpentStep, RoomStep DEF SlotInv
<1> QED BY <1>1, <1>2, Invariance, PTL DEF Spec

\* Whatever is killed or raised, and whatever the plan: state.json loads again, and
\* every suite run ever started had its slot reserved on disk before.
THEOREM StateSound == Spec => []StateIsSound
<1>1. IInv /\ SlotInv => StateIsSound
 <2> SUFFICES ASSUME IInv, SlotInv PROVE StateIsSound OBVIOUS
 <2>1. TypeOK BY DEF IInv
 <2>2. SavedStateLoads BY DEF SavedStateLoads, Loads, SlotInv, Spent, IInv, Earned, Ordered
 <2>3. RunsAreReserved
  <3>1. \A i \in DOMAIN suites : Phases(disk, suites[i].candidate, suites[i].phase) # {}
    BY DEF SlotInv, Spent, SamePhase, Phases
  <3>2. \A j \in DOMAIN disk.phases :
          Executed(disk.phases[j].candidate, disk.phases[j].phase) = MadeFor(suites, disk.phases[j])
    BY DEF Executed, MadeFor, SamePhase
  <3> QED BY <3>1, <3>2 DEF RunsAreReserved, SlotInv, Spent
 <2> QED BY <2>1, <2>2, <2>3 DEF StateIsSound
<1> QED BY <1>1, Invariance, SlotInvariance, PTL
=============================================================================

------------------------------- MODULE Campaign -------------------------------
(***************************************************************************)
(* One campaign of campaigns/: create_campaign, resume_campaign and        *)
(* inspect_campaign, as src/strixlab/campaigns.py performs them.  An       *)
(* action is one durable effect: a state.json replaced by _save, or a call *)
(* into a lower layer that spends hardware time.  A process may be killed  *)
(* between any two of them, and any call may raise.                        *)
(*                                                                         *)
(* Data is abstract.  A build is a number, a suite run its number in the   *)
(* order of execution, a comparison its verdict; of a phase's evidence the *)
(* build and the suite runs are kept, which later steps read.              *)
(***************************************************************************)
EXTENDS Naturals, Sequences, FiniteSets, Functions

CONSTANTS Procs,          \* process slots; a killed one is used again
          Nobody,         \* the holder of a free lock
          Plan,           \* the candidates, in the order of the plan
          MaxSuiteRuns,   \* max_suite_runs of the plan
          MaxCrashes,     \* bound: processes killed
          MaxChanges,     \* bound: edits of a frozen input or of the evaluator
          MaxRaises,      \* bound: calls into a lower layer that raise
          MaxFaults       \* bound: all of these together

Candidates == {Plan[i] : i \in DOMAIN Plan}

ASSUME SlotsAssumption == Nobody \notin Procs
ASSUME PlanAssumption ==
  /\ Plan \in Seq(Candidates)
  /\ \A i, j \in DOMAIN Plan : Plan[i] = Plan[j] => i = j
  /\ "baseline" \notin Candidates
ASSUME BoundsAssumption ==
  /\ MaxSuiteRuns \in Nat
  /\ MaxCrashes \in Nat /\ MaxChanges \in Nat /\ MaxRaises \in Nat /\ MaxFaults \in Nat

Names == {"calibration", "screening", "confirmation"}

\* Slots a phase reserves, and the runs its comparisons read: (0, 1) and (3, 2)
Slots(name) == IF name = "calibration" THEN 2 ELSE 4
Pairs(name) == IF name = "calibration" THEN <<{1, 2}>> ELSE <<{1, 2}, {3, 4}>>

Verdicts(name) == IF name = "calibration" THEN {"inconclusive", "decisive"}
                                          ELSE {"met", "not_met"}
Decisions == {"none", "inconclusive", "decisive", "met", "not_met", "mixed",
              "suite_failed", "correctness_failed", "execution_failed", "interrupted"}

CampaignPhase == [candidate : Candidates \cup {"baseline"}, phase : Names,
                  status : {"running", "completed", "failed", "interrupted"},
                  decision : Decisions, build : Nat, runs : Seq(Nat),
                  comparisons : Seq({"inconclusive", "decisive", "met", "not_met"})]

Final == {"completed", "blocked", "interrupted", "budget_exhausted"}
CampaignState == [status : {"ready", "running"} \cup Final, reserved : Nat,
                  baseline : Nat, phases : Seq(CampaignPhase)]

VARIABLES
  lock,        \* campaigns/.<id>.lock: a process, or Nobody
  pc,          \* where each process is; "idle" outside every operation
  mem,         \* the CampaignState each process holds in memory
  result,      \* the id run_suite returned to each process
  root,        \* campaigns/<id>: "absent", "bare" without state.json, "created"
  disk,        \* state.json
  inputs,      \* the frozen inputs and the evaluator: "frozen" or "changed"
  builds,      \* how many builds were executed
  suites,      \* the suite runs executed: for which phase, of which build
  inspecting,  \* the run whose lock an inspect_run of another process holds, or 0
  crashes, changes, raises

procVars  == <<lock, pc, mem, result>>
worldVars == <<inputs, builds, suites, inspecting>>
faultVars == <<crashes, changes, raises>>
vars      == <<procVars, root, disk, worldVars, faultVars>>

NewState == [status |-> "ready", reserved |-> 0, baseline |-> 0, phases |-> << >>]

Init ==
  /\ lock = Nobody
  /\ pc = [p \in Procs |-> "idle"]
  /\ mem = [p \in Procs |-> NewState]
  /\ result = [p \in Procs |-> 0]
  /\ root = "absent"
  /\ disk = NewState
  /\ inputs = "frozen"
  /\ builds = 0 /\ suites = << >> /\ inspecting = 0
  /\ crashes = 0 /\ changes = 0 /\ raises = 0

-----------------------------------------------------------------------------
(* Steps of a process *)

At(p, l) == pc[p] = l

\* Another fault is within the bound of them all.
FaultsLeft == crashes + changes + raises < MaxFaults

Goto(p, l) ==
  /\ pc' = [pc EXCEPT ![p] = l]
  /\ UNCHANGED <<lock, mem, result>>

\* The operation returns or raises: the lock closes, the memory is gone.
Leave(p) ==
  /\ lock' = Nobody
  /\ pc' = [pc EXCEPT ![p] = "idle"]
  /\ mem' = [mem EXCEPT ![p] = NewState]
  /\ result' = [result EXCEPT ![p] = 0]

\* _save, of the state the process goes on with
Save(p, s, l) ==
  /\ disk' = s
  /\ mem' = [mem EXCEPT ![p] = s]
  /\ pc' = [pc EXCEPT ![p] = l]
  /\ UNCHANGED <<lock, result>>

\* _save, and return
SaveAndLeave(p, s) == disk' = s /\ Leave(p)

Phases(s, c, name) ==
  {s.phases[j] : j \in {k \in DOMAIN s.phases :
                          s.phases[k].candidate = c /\ s.phases[k].phase = name}}

Linked(s) == UNION {Range(s.phases[j].runs) : j \in DOMAIN s.phases}

\* The phase in execution is the last one.
Current(s) == s.phases[Len(s.phases)]
WithCurrent(s, ph) == [s EXCEPT !.phases[Len(s.phases)] = ph]

-----------------------------------------------------------------------------
(* create_campaign *)

\* Under the lock: the directory, then frozen.json and the patches ...
CreateDirectory(p) ==
  /\ At(p, "idle")
  /\ lock = Nobody
  /\ root = "absent"
  /\ lock' = p
  /\ root' = "bare"
  /\ pc' = [pc EXCEPT ![p] = "create"]
  /\ UNCHANGED <<mem, result, disk, worldVars, faultVars>>

\* ... and the first state.json.  Nothing is executed here.
CreateState(p) ==
  /\ At(p, "create")
  /\ root' = "created"
  /\ SaveAndLeave(p, NewState)
  /\ UNCHANGED <<worldVars, faultVars>>

-----------------------------------------------------------------------------
(* resume_campaign *)

\* The slots of the phases, as the pairs of a phase and a number
Slotted(s) == UNION {{j} \X (1 .. Slots(s.phases[j].phase)) : j \in DOMAIN s.phases}

\* The checks of _load
Loads(s) ==
  /\ s.reserved <= MaxSuiteRuns
  /\ \A i, j \in DOMAIN s.phases :
       s.phases[i].candidate = s.phases[j].candidate /\ s.phases[i].phase = s.phases[j].phase => i = j
  /\ s.reserved = Cardinality(Slotted(s))

\* _load, _verify_links and _check_drift; each raises, or nothing has changed.
\* inspect_run of a linked run is refused while another process inspects it.
Resume(p) ==
  /\ At(p, "idle")
  /\ lock = Nobody
  /\ root = "created" /\ Loads(disk)
  /\ inspecting \notin Linked(disk)
  /\ inputs = "frozen"
  /\ lock' = p
  /\ mem' = [mem EXCEPT ![p] = disk]
  /\ pc' = [pc EXCEPT ![p] = "settle"]
  /\ UNCHANGED <<result, root, disk, worldVars, faultVars>>

Pending(s) == {j \in DOMAIN s.phases : s.phases[j].status = "running"}

\* Mutant of Interrupted: the phase is given back as if it had never been.
Forgotten(s) == [s EXCEPT !.phases = SelectSeq(@, LAMBDA ph : ph.status # "running")]

\* What a killed process left running is spent.
Interrupted(s) ==
  [s EXCEPT !.phases = [j \in DOMAIN @ |->
     IF j \in Pending(s) THEN [@[j] EXCEPT !.status = "interrupted", !.decision = "interrupted"]
                         ELSE @[j]]]

\* An interrupted calibration stops the campaign, a candidate's does not.
Settle(p) ==
  LET s == Interrupted(mem[p])
  IN /\ At(p, "settle")
     /\ Pending(mem[p]) # {}
     /\ IF \E j \in Pending(mem[p]) : mem[p].phases[j].phase = "calibration"
          THEN SaveAndLeave(p, [s EXCEPT !.status = "interrupted"])
          ELSE Save(p, [s EXCEPT !.status = "running"], "next")
     /\ UNCHANGED <<root, worldVars, faultVars>>

Settled(p) == At(p, "settle") /\ Pending(mem[p]) = {}

\* Mutant of ReturnFinal: interrupted is not among the statuses returned.
ReturnUnlessInterrupted(p) ==
  /\ Settled(p)
  /\ IF mem[p].status \in Final \ {"interrupted"} THEN Leave(p) ELSE Goto(p, "next")
  /\ UNCHANGED <<root, disk, worldVars, faultVars>>

ReturnFinal(p) ==
  /\ Settled(p)
  /\ IF mem[p].status \in Final THEN Leave(p) ELSE Goto(p, "next")
  /\ UNCHANGED <<root, disk, worldVars, faultVars>>

\* Mutant of CalibrationFailed: a decisive calibration is good enough.
CalibrationRaised(s) == s.phases # << >> /\ s.phases[1].decision \notin {"inconclusive", "decisive"}

\* Only a calibration that found its two arms alike lets candidates in.
CalibrationFailed(s) == s.phases # << >> /\ s.phases[1].decision # "inconclusive"

Block(p) ==
  /\ At(p, "next")
  /\ CalibrationFailed(mem[p])
  /\ SaveAndLeave(p, [mem[p] EXCEPT !.status = "blocked"])
  /\ UNCHANGED <<root, worldVars, faultVars>>

Promoted(s, c) == \E ph \in Phases(s, c, "screening") : ph.decision = "met"

\* Mutant of Wanted: a phase that did not complete is tried again.
WantedAgain(s, c) ==
  {n \in {"screening", "confirmation"} :
     /\ \A ph \in Phases(s, c, n) : ph.status # "completed"
     /\ n = "confirmation" => Promoted(s, c)}

\* What the loop over the candidates admits next, as <<candidate, phase>>
Wanted(s, c) ==
  {n \in {"screening", "confirmation"} :
     /\ Phases(s, c, n) = {}
     /\ n = "confirmation" => Promoted(s, c)}

Due(s) ==
  IF s.phases = << >> THEN {<<"baseline", "calibration">>}
  ELSE IF CalibrationFailed(s) THEN {}
  ELSE UNION {{<<Plan[i], n>> : n \in Wanted(s, Plan[i])} :
                i \in {k \in DOMAIN Plan : \A j \in 1 .. k - 1 : Wanted(s, Plan[j]) = {}}}

\* Mutant of Fits: the slots of the phase itself are not counted.
FitsBefore(s, name) == s.reserved <= MaxSuiteRuns

Fits(s, name) == s.reserved + Slots(name) <= MaxSuiteRuns

\* _phase, when the slots left do not hold it
Exhaust(p) ==
  /\ At(p, "next")
  /\ \E d \in Due(mem[p]) : ~Fits(mem[p], d[2])
  /\ SaveAndLeave(p, [mem[p] EXCEPT !.status = "budget_exhausted"])
  /\ UNCHANGED <<root, worldVars, faultVars>>

\* Mutant of Reserved: the slots are given back instead of taken.
ReservedBackwards(s, d) ==
  [s EXCEPT !.status = "running", !.reserved = @ - Slots(d[2]),
            !.phases = Append(@, [candidate |-> d[1], phase |-> d[2], status |-> "running",
                                  decision |-> "none", build |-> 0, runs |-> << >>,
                                  comparisons |-> << >>])]

Reserved(s, d) ==
  [s EXCEPT !.status = "running", !.reserved = @ + Slots(d[2]),
            !.phases = Append(@, [candidate |-> d[1], phase |-> d[2], status |-> "running",
                                  decision |-> "none", build |-> 0, runs |-> << >>,
                                  comparisons |-> << >>])]

\* The durable reservation, before every side effect
Admit(p) ==
  /\ At(p, "next")
  /\ inputs = "frozen"
  /\ \E d \in Due(mem[p]) : Fits(mem[p], d[2]) /\ Save(p, Reserved(mem[p], d), "execute")
  /\ UNCHANGED <<root, worldVars, faultVars>>

\* _check_drift raises before a phase is reserved.
AdmitDrifted(p) ==
  /\ At(p, "next")
  /\ inputs = "changed"
  /\ \E d \in Due(mem[p]) : Fits(mem[p], d[2])
  /\ Leave(p)
  /\ UNCHANGED <<root, disk, worldVars, faultVars>>

\* Mutant of Complete: the last status is not saved.
CompleteUnsaved(p) ==
  /\ At(p, "next")
  /\ ~CalibrationFailed(mem[p])
  /\ Due(mem[p]) = {}
  /\ Leave(p)
  /\ UNCHANGED <<root, disk, worldVars, faultVars>>

Complete(p) ==
  /\ At(p, "next")
  /\ ~CalibrationFailed(mem[p])
  /\ Due(mem[p]) = {}
  /\ SaveAndLeave(p, [mem[p] EXCEPT !.status = "completed"])
  /\ UNCHANGED <<root, worldVars, faultVars>>

-----------------------------------------------------------------------------
(* _execute_phase *)

Executing(p, name) == At(p, "execute") /\ Current(mem[p]).phase = name

\* The end of _phase: evidence and decision are saved together.
Conclude(p, ph, status, decision) ==
  Save(p, WithCurrent(mem[p], [ph EXCEPT !.status = status, !.decision = decision]), "next")

\* _prepare: source and build of the baseline or of the candidate under screening
Prepare(p) ==
  /\ At(p, "execute")
  /\ Current(mem[p]).phase # "confirmation"
  /\ Current(mem[p]).build = 0
  /\ builds' = builds + 1
  /\ Save(p, WithCurrent(mem[p], [Current(mem[p]) EXCEPT !.build = builds']), "execute")
  /\ UNCHANGED <<root, inputs, suites, inspecting, faultVars>>

\* The baseline is fixed once its model is verified.
FixBaseline(p) ==
  /\ Executing(p, "calibration")
  /\ Current(mem[p]).build # 0 /\ mem[p].baseline = 0
  /\ Save(p, [mem[p] EXCEPT !.baseline = Current(mem[p]).build], "execute")
  /\ UNCHANGED <<root, worldVars, faultVars>>

\* Mutant of ReuseBuild: confirmation builds the candidate again.
Rebuild(p) ==
  /\ Executing(p, "confirmation")
  /\ Current(mem[p]).build = 0
  /\ builds' = builds + 1
  /\ Save(p, WithCurrent(mem[p], [Current(mem[p]) EXCEPT !.build = builds']), "execute")
  /\ UNCHANGED <<root, inputs, suites, inspecting, faultVars>>

\* Confirmation measures the build that was screened.
ReuseBuild(p) ==
  /\ Executing(p, "confirmation")
  /\ Current(mem[p]).build = 0
  /\ \E ph \in Phases(mem[p], Current(mem[p]).candidate, "screening") :
       Save(p, WithCurrent(mem[p], [Current(mem[p]) EXCEPT !.build = ph.build]), "execute")
  /\ UNCHANGED <<root, worldVars, faultVars>>

ReadyToRun(p) ==
  /\ At(p, "execute")
  /\ Current(mem[p]).build # 0 /\ mem[p].baseline # 0
  /\ Len(Current(mem[p]).runs) < Slots(Current(mem[p]).phase)

\* The runs of a phase go baseline, candidate, candidate, baseline.
NextSuite(p) ==
  LET ph == Current(mem[p])
  IN [candidate |-> ph.candidate, phase |-> ph.phase,
      build |-> IF Len(ph.runs) \in {0, 3} THEN mem[p].baseline ELSE ph.build]

\* run_suite, after one more look at the inputs
RunSuite(p) ==
  /\ ReadyToRun(p)
  /\ inputs = "frozen"
  /\ suites' = Append(suites, NextSuite(p))
  /\ result' = [result EXCEPT ![p] = Len(suites')]
  /\ pc' = [pc EXCEPT ![p] = "link"]
  /\ UNCHANGED <<lock, mem, root, disk, inputs, builds, inspecting, faultVars>>

\* run_suite names a run of an earlier execution.
RunSuiteStale(p) ==
  /\ ReadyToRun(p)
  /\ inputs = "frozen"
  /\ raises < MaxRaises /\ FaultsLeft
  /\ raises' = raises + 1
  /\ \E r \in Linked(mem[p]) : result' = [result EXCEPT ![p] = r]
  /\ pc' = [pc EXCEPT ![p] = "link"]
  /\ UNCHANGED <<lock, mem, root, disk, worldVars, crashes, changes>>

Reused(p) == result[p] \in Linked(mem[p])

RejectReused(p) ==
  /\ At(p, "link")
  /\ Reused(p)
  /\ Conclude(p, Current(mem[p]), "failed", "execution_failed")
  /\ UNCHANGED <<root, worldVars, faultVars>>

\* The run is linked and saved, whether it passed or not.
LinkRun(p) ==
  /\ At(p, "link")
  /\ ~Reused(p)
  /\ \E l \in {"execute", "suite_failed"} :
       Save(p, WithCurrent(mem[p], [Current(mem[p]) EXCEPT !.runs = Append(@, result[p])]), l)
  /\ UNCHANGED <<root, worldVars, faultVars>>

\* A suite that raises may have run, and may name the run it made.
RunSuiteRaises(p) ==
  LET ph == Current(mem[p])
  IN /\ ReadyToRun(p)
     /\ inputs = "frozen"
     /\ raises < MaxRaises /\ FaultsLeft
     /\ raises' = raises + 1
     /\ \/ UNCHANGED suites /\ Conclude(p, ph, "failed", "execution_failed")
        \/ /\ suites' = Append(suites, NextSuite(p))
           /\ \E linked \in {ph.runs, Append(ph.runs, Len(suites'))} :
                Conclude(p, [ph EXCEPT !.runs = linked], "failed", "execution_failed")
     /\ UNCHANGED <<root, inputs, builds, inspecting, crashes, changes>>

\* _check_drift before a run raises inside the phase: its slots are spent.
RunDrifted(p) ==
  /\ ReadyToRun(p)
  /\ inputs = "changed"
  /\ Conclude(p, Current(mem[p]), "failed", "execution_failed")
  /\ UNCHANGED <<root, worldVars, faultVars>>

\* The pair of runs the next comparison is of
NextPair(p) ==
  LET ph == Current(mem[p])
  IN {ph.runs[i] : i \in Pairs(ph.phase)[Len(ph.comparisons) + 1]}

ReadyToCompare(p) ==
  LET ph == Current(mem[p])
  IN /\ At(p, "execute")
     /\ ph.build # 0 /\ mem[p].baseline # 0
     /\ Len(ph.runs) = Slots(ph.phase)
     /\ Len(ph.comparisons) < Len(Pairs(ph.phase))

\* load_finalized_suite_snapshot of both, token parity, compare_runs
Compare(p) ==
  LET ph == Current(mem[p])
  IN /\ ReadyToCompare(p)
     /\ inspecting \notin NextPair(p)
     /\ \/ Goto(p, "correctness_failed") /\ UNCHANGED disk
        \/ \E v \in Verdicts(ph.phase) :
             Save(p, WithCurrent(mem[p], [ph EXCEPT !.comparisons = Append(@, v)]), "execute")
     /\ UNCHANGED <<root, worldVars, faultVars>>

\* inspect_run finds the lock of a run held and raises.
CompareBusy(p) ==
  /\ ReadyToCompare(p)
  /\ inspecting \in NextPair(p)
  /\ Conclude(p, Current(mem[p]), "failed", "execution_failed")
  /\ UNCHANGED <<root, worldVars, faultVars>>

\* Any other call of _execute_phase raises.
Raise(p) ==
  /\ At(p, "execute")
  /\ raises < MaxRaises /\ FaultsLeft
  /\ raises' = raises + 1
  /\ Conclude(p, Current(mem[p]), "failed", "execution_failed")
  /\ UNCHANGED <<root, worldVars, crashes, changes>>

Verdict(ph) ==
  IF \A i \in DOMAIN ph.comparisons : ph.comparisons[i] = ph.comparisons[1]
    THEN ph.comparisons[1] ELSE "mixed"

Decide(p) ==
  LET ph == Current(mem[p])
  IN /\ \/ /\ At(p, "execute")
           /\ Len(ph.comparisons) = Len(Pairs(ph.phase))
           /\ Conclude(p, ph, "completed", Verdict(ph))
        \/ /\ pc[p] \in {"suite_failed", "correctness_failed"}
           /\ Conclude(p, ph, "completed", pc[p])
     /\ UNCHANGED <<root, worldVars, faultVars>>

-----------------------------------------------------------------------------
(* inspect_campaign, and what happens around a campaign *)

\* _verify_links of a concurrent inspection, one linked run at a time
InspectRun ==
  /\ root = "created" /\ Loads(disk)
  /\ inspecting = 0
  /\ \E r \in Linked(disk) : inspecting' = r
  /\ UNCHANGED <<procVars, root, disk, inputs, builds, suites, faultVars>>

InspectEnd ==
  /\ inspecting # 0
  /\ inspecting' = 0
  /\ UNCHANGED <<procVars, root, disk, inputs, builds, suites, faultVars>>

\* A manifest, a patch or the evaluator is edited, or put back.
ChangeInputs ==
  /\ root # "absent"
  /\ changes < MaxChanges /\ FaultsLeft
  /\ changes' = changes + 1
  /\ inputs' = IF inputs = "frozen" THEN "changed" ELSE "frozen"
  /\ UNCHANGED <<procVars, root, disk, builds, suites, inspecting, crashes, raises>>

\* SIGKILL, a KeyboardInterrupt, which no handler of _phase takes, or a model
\* receipt found stale before the first phase
Crash(p) ==
  /\ crashes < MaxCrashes /\ FaultsLeft
  /\ ~At(p, "idle")
  /\ crashes' = crashes + 1
  /\ Leave(p)
  /\ UNCHANGED <<root, disk, worldVars, changes, raises>>

-----------------------------------------------------------------------------

Create(p) == CreateDirectory(p) \/ CreateState(p)

Control(p) ==
  \/ Settle(p) \/ ReturnFinal(p) \/ Block(p) \/ Exhaust(p)
  \/ Admit(p) \/ AdmitDrifted(p) \/ Complete(p)

Execute(p) ==
  \/ Prepare(p) \/ FixBaseline(p) \/ ReuseBuild(p)
  \/ RunSuite(p) \/ RunSuiteStale(p) \/ RejectReused(p) \/ LinkRun(p)
  \/ RunSuiteRaises(p) \/ RunDrifted(p)
  \/ Compare(p) \/ CompareBusy(p) \/ Raise(p) \/ Decide(p)

Next ==
  \/ \E p \in Procs : Create(p) \/ Resume(p) \/ Control(p) \/ Execute(p) \/ Crash(p)
  \/ InspectRun \/ InspectEnd \/ ChangeInputs

Spec == Init /\ [][Next]_vars

\* A resumption runs to its end, an inspection lets go of the run's lock, and
\* resume is asked for again and again; nobody needs to create or inspect.
Fairness ==
  /\ \A p \in Procs : WF_vars(CreateState(p) \/ Control(p) \/ Execute(p))
  /\ WF_vars(InspectEnd)
  /\ SF_vars(\E p \in Procs : Resume(p))

FairSpec == Spec /\ Fairness

-----------------------------------------------------------------------------
(* Correctness *)

Labels == {"idle", "create", "settle", "next", "execute", "link",
           "suite_failed", "correctness_failed"}

Suites == [candidate : Candidates \cup {"baseline"}, phase : Names, build : Nat]

\* Every variable stays within its type.
TypeOK ==
  /\ lock \in Procs \cup {Nobody}
  /\ pc \in [Procs -> Labels]
  /\ mem \in [Procs -> CampaignState] /\ disk \in CampaignState
  /\ result \in [Procs -> Nat]
  /\ root \in {"absent", "bare", "created"}
  /\ inputs \in {"frozen", "changed"}
  /\ builds \in Nat /\ suites \in Seq(Suites) /\ inspecting \in Nat
  /\ crashes \in 0 .. MaxCrashes /\ changes \in 0 .. MaxChanges /\ raises \in 0 .. MaxRaises

\* Whatever was killed or raised between two saves, the state.json left behind
\* passes the checks of _load: no campaign is lost to its own controller.
SavedStateLoads == Loads(disk)

Executed(c, name) ==
  {i \in DOMAIN suites : suites[i].candidate = c /\ suites[i].phase = name}

\* Every suite run ever started belongs to a phase the state.json on disk has
\* reserved, and no phase starts more than its slots, crashes and retries of
\* resume included: the hardware budget of the plan is never exceeded.
RunsAreReserved ==
  /\ Len(suites) <= disk.reserved /\ disk.reserved <= MaxSuiteRuns
  /\ \A i \in DOMAIN suites : Phases(disk, suites[i].candidate, suites[i].phase) # {}
  /\ \A j \in DOMAIN disk.phases :
       Cardinality(Executed(disk.phases[j].candidate, disk.phases[j].phase))
         <= Slots(disk.phases[j].phase)

\* Candidates are let in by a calibration that found its two arms alike, one at a
\* time in the order of the plan, and a confirmation only by its screening.
PhasesAreEarned ==
  \A j \in DOMAIN disk.phases :
    LET ph == disk.phases[j]
    IN /\ ph.phase = "calibration" <=> j = 1
       /\ j > 1 => disk.phases[1].decision = "inconclusive" /\ disk.phases[j - 1].status # "running"
       /\ ph.phase = "confirmation" =>
            /\ disk.phases[j - 1].candidate = ph.candidate
            /\ disk.phases[j - 1].status = "completed"
            /\ disk.phases[j - 1].comparisons = <<"met", "met">>

\* A provisional improvement stands on the build that was screened and on four
\* runs of its own, the outer two of the baseline, the inner two of that build.
ImprovementIsConfirmed ==
  \A j \in DOMAIN disk.phases :
    LET ph == disk.phases[j]
        measured == [i \in DOMAIN ph.runs |-> suites[ph.runs[i]].build]
    IN ph.phase = "confirmation" /\ ph.decision = "met" =>
         /\ ph.build = disk.phases[j - 1].build
         /\ measured = <<disk.baseline, ph.build, ph.build, disk.baseline>>
         /\ \A k \in DOMAIN disk.phases \ {j} : Range(ph.runs) \cap Range(disk.phases[k].runs) = {}

\* Spent is spent: a phase that has ended is never rewritten, replayed or taken
\* back, its evidence only grows while it runs, and slots are never returned.
HistoryIsKept ==
  [][/\ Len(disk.phases) <= Len(disk'.phases)
     /\ disk.reserved <= disk'.reserved
     /\ \A j \in DOMAIN disk.phases :
          LET old == disk.phases[j]
              new == disk'.phases[j]
          IN /\ old.status # "running" => new = old
             /\ new.candidate = old.candidate /\ new.phase = old.phase
             /\ Len(old.runs) <= Len(new.runs)
             /\ SubSeq(new.runs, 1, Len(old.runs)) = old.runs]_vars

\* No resume takes up a campaign again that is completed, blocked, interrupted or
\* out of budget.
FinalIsFinal == [][root = "created" /\ disk.status \in Final => disk' = disk]_vars

\* A created campaign comes to a final status, if it is resumed again and again,
\* faults stop and its inputs are not left changed.
CampaignEnds ==
  root = "created" ~> (disk.status \in Final \/ inputs = "changed")

\* The state of the controller is sound at every step: well typed, saved in a form
\* _load takes, and ahead of the hardware it spends.
StateIsSound == TypeOK /\ SavedStateLoads /\ RunsAreReserved

\* No candidate gets further than the evidence takes it: each phase rests on the
\* one before, and an improvement on runs and a build that are its own.
PromotionIsEarned == PhasesAreEarned /\ ImprovementIsConfirmed

\* What a campaign has done stays done, while it runs and after its end.
HistoryIsFinal == HistoryIsKept /\ FinalIsFinal

\* inspect_campaign (campaigns.py:409): "Authenticate persisted evidence without
\* executing or rewriting a campaign."; 411: "Atomic state replacement allows
\* progress inspection while the writer holds its campaign lock."  Where no call
\* raises and no input changes, no phase fails.
InspectionIsHarmless ==
  raises = 0 /\ changes = 0 => \A j \in DOMAIN disk.phases : disk.phases[j].status # "failed"
=============================================================================

--------------------------- MODULE Measurement_proofs ---------------------------
(***************************************************************************)
(* Proofs about the runs that measure, as MCMeasurement composes them: of  *)
(* suites and capsules competing for the machine (SuiteRun), for every     *)
(* set of processes and builds, every manifest and every schedule; of the  *)
(* protocol of one capsule (CapsuleRun), for every set of coordinates,     *)
(* whatever its children print and whichever of its calls fail; and of the *)
(* comparisons (Comparison), for any number of pairs, samples, replicates  *)
(* and coordinates, and any choice of bootstrap positions.                 *)
(***************************************************************************)
EXTENDS MCMeasurement, FiniteSetTheorems, SequenceTheorems, WellFoundedInduction, TLAPS

----------------------------------------
(* Arithmetic *)

\* Every number has a quotient and a remainder.
LEMMA Division ==
  ASSUME NEW k \in Nat, NEW d \in Nat \ {0}
  PROVE  /\ k \div d \in Nat /\ k % d \in 0 .. d - 1
         /\ k = d * (k \div d) + (k % d)
<1>1. k \div d \in Nat OBVIOUS
<1>2. k % d \in 0 .. d - 1 OBVIOUS
<1>3. k = d * (k \div d) + (k % d) BY <1>1, <1>2
<1> QED BY <1>1, <1>2, <1>3

\* They are the only ones.
LEMMA Quotient ==
  ASSUME NEW d \in Nat \ {0}, NEW k \in Nat, NEW q \in Nat, NEW r \in 0 .. d - 1, k = d * q + r
  PROVE  k \div d = q /\ k % d = r
OBVIOUS

\* A number is below a multiple when its quotient is below the factor.
LEMMA Below ==
  ASSUME NEW d \in Nat \ {0}, NEW k \in Nat, NEW m \in Nat
  PROVE  k < d * m <=> k \div d < m
OBVIOUS

----------------------------------------
(* The schedule *)

\* What of the manifest the arithmetic needs
ManifestTyped ==
  /\ Len(Prompts) \in Nat \ {0} /\ DOMAIN Prompts = 1 .. Len(Prompts)
  /\ Len(Cases) \in Nat \ {0} /\ DOMAIN Cases = 1 .. Len(Cases)
  /\ Warmups \in Nat /\ Windows \in Nat \ {0}

\* What the assumption says of the manifest, one fact at a time
LEMMA ManifestIsTyped == ManifestTyped
BY MeasurementAssumption DEF Suite!ManifestAssumption, ManifestTyped

\* Invocations for correctness, to warm up and to measure
CorrectnessRuns == 1 + Len(Prompts)
WarmupRuns      == Len(Cases) * Warmups
WindowRuns      == Len(Cases) * Windows

\* The numbers of runs of a schedule are numbers.
LEMMA RunCounts ==
  /\ CorrectnessRuns \in Nat \ {0} /\ WarmupRuns \in Nat /\ WindowRuns \in Nat \ {0}
  /\ Suite!BenchRuns = WarmupRuns + WindowRuns
BY ManifestIsTyped DEF ManifestTyped, CorrectnessRuns, WarmupRuns, WindowRuns, Suite!BenchRuns

\* Window and case of the i-th invocation that measures
WindowOf(i) == ((i - 1) \div Len(Cases)) + 1
CaseOf(i)   == Cases[((i - 1) % Len(Cases)) + 1]

\* What an item of the schedule is made of
Items == [adapter : {"backend-ops", "llama-server", "llama-bench"},
          phase : {"correctness-backend", "correctness-greedy", "warmup", "measurement"},
          index : Nat,
          case : {"backend"} \cup {Prompts[i] : i \in DOMAIN Prompts} \cup {Cases[i] : i \in DOMAIN Cases}]

\* A planned case, of either phase, is an item.
LEMMA PlannedCaseShape ==
  /\ \A i \in 1 .. WarmupRuns :
       /\ Suite!PlannedCase(i) \in Items /\ Suite!PlannedCase(i).phase = "warmup"
       /\ Suite!PlannedCase(i).adapter = "llama-bench"
  /\ \A i \in 1 .. WindowRuns :
       /\ Suite!PlannedCase(WarmupRuns + i) = Suite!Item("llama-bench", "measurement", WindowOf(i), CaseOf(i))
       /\ Suite!PlannedCase(WarmupRuns + i) \in Items /\ WindowOf(i) \in 1 .. Windows
<1> USE ManifestIsTyped DEF ManifestTyped
<1>1. ASSUME NEW i \in 1 .. WarmupRuns
      PROVE  /\ Suite!PlannedCase(i) \in Items /\ Suite!PlannedCase(i).phase = "warmup"
             /\ Suite!PlannedCase(i).adapter = "llama-bench"
 <2>1. i - 1 \in Nat /\ i - 1 < Len(Cases) * Warmups BY RunCounts DEF WarmupRuns
 <2>2. /\ (i - 1) \div Len(Cases) \in Nat /\ (i - 1) \div Len(Cases) < Warmups
       /\ (i - 1) % Len(Cases) \in 0 .. Len(Cases) - 1
   BY <2>1, Division, Below
 <2>3. Suite!Round(i) \in Nat /\ Suite!Round(i) <= Warmups BY <2>2 DEF Suite!Round
 <2>4. ((i - 1) % Len(Cases)) + 1 \in DOMAIN Cases BY <2>2
 <2> QED BY <2>3, <2>4 DEF Suite!PlannedCase, Suite!Item, Items
<1>2. ASSUME NEW i \in 1 .. WindowRuns
      PROVE  /\ Suite!PlannedCase(WarmupRuns + i) =
                  Suite!Item("llama-bench", "measurement", WindowOf(i), CaseOf(i))
             /\ Suite!PlannedCase(WarmupRuns + i) \in Items /\ WindowOf(i) \in 1 .. Windows
 <2> DEFINE q == (i - 1) \div Len(Cases)
            r == (i - 1) % Len(Cases)
            k == WarmupRuns + i - 1
 <2>1. i - 1 \in Nat /\ i - 1 < Len(Cases) * Windows /\ k \in Nat BY RunCounts DEF WindowRuns
 <2>2. q \in Nat /\ q < Windows /\ r \in 0 .. Len(Cases) - 1 /\ i - 1 = Len(Cases) * q + r BY <2>1, Division, Below
 <2>3. k = Len(Cases) * (Warmups + q) + r
  <3> HIDE DEF q, r
  <3> QED BY <2>2, RunCounts DEF WarmupRuns
 <2>4. k \div Len(Cases) = Warmups + q /\ k % Len(Cases) = r
  <3>1. Warmups + q \in Nat BY <2>2
  <3> HIDE DEF k, q, r
  <3> QED BY <2>1, <2>2, <2>3, <3>1, Quotient
 <2>5. (WarmupRuns + i) - 1 = k BY RunCounts
 <2>6. Suite!Round(WarmupRuns + i) = Warmups + q + 1
   BY ONLY <2>2, <2>4, <2>5, ManifestIsTyped DEF Suite!Round, ManifestTyped
 <2>7. r + 1 \in DOMAIN Cases BY <2>2
 <2>8. WindowOf(i) = q + 1 /\ CaseOf(i) = Cases[r + 1] BY DEF WindowOf, CaseOf
 <2> HIDE DEF q, r, k
 <2>9. Suite!PlannedCase(WarmupRuns + i) = Suite!Item("llama-bench", "measurement", q + 1, Cases[r + 1])
   BY <2>2, <2>4, <2>5, <2>6 DEF Suite!PlannedCase
 <2> QED BY <2>2, <2>7, <2>8, <2>9 DEF Suite!Item, Items
<1> QED BY <1>1, <1>2

\* The schedule: correctness, then warm-up rounds, then windows.
LEMMA ScheduleShape ==
  /\ Suite!Schedule \in Seq(Items)
  /\ Len(Suite!Schedule) = CorrectnessRuns + WarmupRuns + WindowRuns
  /\ \A i \in 1 .. CorrectnessRuns :
       Suite!Schedule[i].phase \notin {"warmup", "measurement"} /\ Suite!Schedule[i].adapter # "llama-bench"
  /\ \A i \in 1 .. WarmupRuns : Suite!Schedule[CorrectnessRuns + i].phase = "warmup"
  /\ \A i \in 1 .. WindowRuns :
       Suite!Schedule[CorrectnessRuns + WarmupRuns + i] =
         Suite!Item("llama-bench", "measurement", WindowOf(i), CaseOf(i))
<1> DEFINE first  == <<Suite!Item("backend-ops", "correctness-backend", 1, "backend")>>
           greedy == [i \in 1 .. Len(Prompts) |-> Suite!Item("llama-server", "correctness-greedy", i, Prompts[i])]
           bench  == [i \in 1 .. Suite!BenchRuns |-> Suite!PlannedCase(i)]
<1>1. first \in Seq(Items) /\ Len(first) = 1 /\ first[1].phase = "correctness-backend"
      /\ first[1].adapter = "backend-ops"
  BY DEF Suite!Item, Items
<1>2. /\ greedy \in Seq(Items) /\ Len(greedy) = Len(Prompts)
      /\ \A i \in 1 .. Len(Prompts) : greedy[i].phase = "correctness-greedy" /\ greedy[i].adapter = "llama-server"
 <2>1. \A i \in 1 .. Len(Prompts) : Suite!Item("llama-server", "correctness-greedy", i, Prompts[i]) \in Items
   BY ManifestIsTyped DEF ManifestTyped, Suite!Item, Items
 <2> QED BY <2>1, ManifestIsTyped DEF ManifestTyped, Suite!Item
<1>3. /\ bench \in Seq(Items) /\ Len(bench) = WarmupRuns + WindowRuns
      /\ \A i \in 1 .. WarmupRuns + WindowRuns : bench[i] = Suite!PlannedCase(i)
 <2>1. \A i \in 1 .. Suite!BenchRuns : Suite!PlannedCase(i) \in Items
  <3> SUFFICES ASSUME NEW i \in 1 .. WarmupRuns + WindowRuns PROVE Suite!PlannedCase(i) \in Items BY RunCounts
  <3>1. CASE i <= WarmupRuns BY <3>1, RunCounts, PlannedCaseShape
  <3>2. CASE i > WarmupRuns
   <4>1. i - WarmupRuns \in 1 .. WindowRuns /\ i = WarmupRuns + (i - WarmupRuns) BY <3>2, RunCounts
   <4> QED BY <4>1, PlannedCaseShape
  <3> QED BY <3>1, <3>2, RunCounts
 <2> QED BY <2>1, RunCounts
<1>4. Suite!Schedule = first \o greedy \o bench BY DEF Suite!Schedule
<1> HIDE DEF first, greedy, bench
<1>5. /\ first \o greedy \in Seq(Items) /\ Len(first \o greedy) = CorrectnessRuns
      /\ \A i \in 1 .. CorrectnessRuns : (first \o greedy)[i] = IF i <= 1 THEN first[i] ELSE greedy[i - 1]
 <2>0. Len(first \o greedy) = Len(first) + Len(greedy) BY ONLY ZenonT(60), <1>1, <1>2, ConcatProperties
 <2>1. Len(first \o greedy) = Len(first) + Len(greedy) /\ Len(first) + Len(greedy) = CorrectnessRuns
   BY <1>1, <1>2, <2>0, ManifestIsTyped DEF CorrectnessRuns, ManifestTyped
 <2>2. first \o greedy \in Seq(Items) BY <1>1, <1>2
 <2>3. ASSUME NEW i \in 1 .. CorrectnessRuns
       PROVE  (first \o greedy)[i] = IF i <= Len(first) THEN first[i] ELSE greedy[i - Len(first)]
   BY <1>1, <1>2, <2>1
 <2> QED BY <1>1, <2>1, <2>2, <2>3
<1>6. /\ Suite!Schedule \in Seq(Items)
      /\ Len(Suite!Schedule) = CorrectnessRuns + WarmupRuns + WindowRuns
 <2>1. Len(Suite!Schedule) = Len(first \o greedy) + Len(bench) BY <1>3, <1>4, <1>5, ConcatProperties
 <2> QED BY <1>3, <1>4, <1>5, <2>1, RunCounts
<1>7. ASSUME NEW i \in 1 .. CorrectnessRuns
      PROVE  Suite!Schedule[i].phase \notin {"warmup", "measurement"} /\ Suite!Schedule[i].adapter # "llama-bench"
 <2>1. Suite!Schedule[i] = (first \o greedy)[i] BY <1>3, <1>4, <1>5, RunCounts
 <2>2. CASE i = 1 BY <1>1, <1>5, <2>1, <2>2
 <2>3. CASE i # 1
  <3>1. i - 1 \in 1 .. Len(Prompts) /\ (first \o greedy)[i] = greedy[i - 1]
    BY <1>5, <2>3, ManifestIsTyped DEF CorrectnessRuns, ManifestTyped
  <3> QED BY <1>2, <2>1, <3>1
 <2> QED BY <2>2, <2>3
<1>8. \A i \in 1 .. WarmupRuns + WindowRuns : Suite!Schedule[CorrectnessRuns + i] = Suite!PlannedCase(i)
  BY SMTT(40), <1>3, <1>4, <1>5, RunCounts
<1>9. \A i \in 1 .. WarmupRuns : Suite!Schedule[CorrectnessRuns + i].phase = "warmup"
  BY <1>8, RunCounts, PlannedCaseShape
<1>10. \A i \in 1 .. WindowRuns :
         Suite!Schedule[CorrectnessRuns + WarmupRuns + i] =
           Suite!Item("llama-bench", "measurement", WindowOf(i), CaseOf(i))
 <2> SUFFICES ASSUME NEW i \in 1 .. WindowRuns
              PROVE  Suite!Schedule[CorrectnessRuns + WarmupRuns + i] =
                       Suite!Item("llama-bench", "measurement", WindowOf(i), CaseOf(i))
   OBVIOUS
 <2>1. WarmupRuns + i \in 1 .. WarmupRuns + WindowRuns
       /\ CorrectnessRuns + WarmupRuns + i = CorrectnessRuns + (WarmupRuns + i)
   BY RunCounts
 <2>2. Suite!Schedule[CorrectnessRuns + (WarmupRuns + i)] = Suite!PlannedCase(WarmupRuns + i) BY <1>8, <2>1
 <2> QED BY <2>1, <2>2, PlannedCaseShape
<1> QED BY <1>6, <1>7, <1>9, <1>10

\* Every case but one has another text.
LEMMA CasesDiffer == \A i, j \in DOMAIN Cases : Cases[i] = Cases[j] => i = j
BY MeasurementAssumption DEF Suite!ManifestAssumption

\* The planned windows are the end of the schedule, and counted in order.
LEMMA PlannedWindows ==
  LET planned == {i \in DOMAIN Suite!Schedule : Suite!Schedule[i].phase = "measurement"}
      before  == CorrectnessRuns + WarmupRuns IN
    /\ planned = before + 1 .. before + WindowRuns
    /\ Cardinality(planned) = WindowRuns
    /\ \A i \in planned : Cardinality({j \in planned : j <= i}) = i - before
<1> DEFINE planned == {i \in DOMAIN Suite!Schedule : Suite!Schedule[i].phase = "measurement"}
           before  == CorrectnessRuns + WarmupRuns
<1>1. before \in Nat /\ DOMAIN Suite!Schedule = 1 .. before + WindowRuns BY ScheduleShape, RunCounts
<1>2. ASSUME NEW i \in 1 .. before PROVE Suite!Schedule[i].phase # "measurement"
 <2>1. CASE i <= CorrectnessRuns BY <2>1, ScheduleShape, RunCounts
 <2>2. CASE i > CorrectnessRuns
  <3>1. i - CorrectnessRuns \in 1 .. WarmupRuns /\ i = CorrectnessRuns + (i - CorrectnessRuns) BY <2>2, RunCounts
  <3> QED BY <3>1, ScheduleShape
 <2> QED BY <2>1, <2>2, RunCounts
<1>3. ASSUME NEW i \in before + 1 .. before + WindowRuns PROVE Suite!Schedule[i].phase = "measurement"
 <2>1. i - before \in 1 .. WindowRuns /\ i = CorrectnessRuns + WarmupRuns + (i - before) BY <1>1, RunCounts
 <2>2. Suite!Schedule[i] = Suite!Item("llama-bench", "measurement", WindowOf(i - before), CaseOf(i - before))
  <3> HIDE DEF before
  <3> QED BY <2>1, ScheduleShape
 <2> QED BY ONLY <2>2 DEF Suite!Item
<1>4. planned = before + 1 .. before + WindowRuns
 <2> HIDE DEF before
 <2> QED BY <1>1, <1>2, <1>3, RunCounts
<1>5. Cardinality(planned) = WindowRuns
 <2> DEFINE lo == before + 1
            hi == before + WindowRuns
 <2>1. lo \in Int /\ hi \in Int /\ ~(lo > hi) /\ hi - lo + 1 = WindowRuns BY <1>1, RunCounts
 <2>2. planned = lo .. hi BY <1>4
 <2> HIDE DEF lo, hi, planned
 <2> QED BY <2>1, <2>2, FS_Interval
<1>6. ASSUME NEW i \in planned PROVE Cardinality({j \in planned : j <= i}) = i - before
 <2>1. {j \in planned : j <= i} = before + 1 .. i BY <1>1, <1>4, RunCounts
 <2>2. i \in Int /\ before + 1 \in Int /\ before + 1 <= i BY <1>1, <1>4, RunCounts
 <2>3. Cardinality(before + 1 .. i) = i - (before + 1) + 1 BY <2>2, FS_Interval
 <2>4. i - (before + 1) + 1 = i - before BY <1>1, <2>2
 <2> HIDE DEF planned, before
 <2> QED BY <2>1, <2>3, <2>4
<1> QED BY <1>4, <1>5, <1>6

\* Each window of each case is planned once.
LEMMA OneWindowEach ==
  ASSUME NEW k \in DOMAIN Cases, NEW w \in 1 .. Windows
  PROVE  \E only \in 1 .. WindowRuns :
           \A i \in 1 .. WindowRuns : (CaseOf(i) = Cases[k] /\ WindowOf(i) = w) <=> i = only
<1> USE ManifestIsTyped DEF ManifestTyped
<1> DEFINE only == Len(Cases) * (w - 1) + k
<1>1. w - 1 \in Nat /\ k - 1 \in 0 .. Len(Cases) - 1 OBVIOUS
<1>2. only - 1 \in Nat /\ only - 1 = Len(Cases) * (w - 1) + (k - 1)
 <2>1. Len(Cases) * (w - 1) \in Nat BY <1>1
 <2> QED BY <1>1, <2>1
<1>3. (only - 1) \div Len(Cases) = w - 1 /\ (only - 1) % Len(Cases) = k - 1
 <2> HIDE DEF only
 <2> QED BY <1>1, <1>2, Quotient
<1>4. only - 1 < Len(Cases) * Windows
 <2>1. w - 1 < Windows OBVIOUS
 <2> HIDE DEF only
 <2> QED BY <1>2, <1>3, <2>1, Below
<1>5. only \in 1 .. WindowRuns
 <2>1. only \in Nat /\ Len(Cases) * Windows \in Nat BY <1>2
 <2> HIDE DEF only
 <2> QED BY <1>2, <1>4, <2>1 DEF WindowRuns
<1>6. ASSUME NEW i \in 1 .. WindowRuns
      PROVE  (CaseOf(i) = Cases[k] /\ WindowOf(i) = w) <=> i = only
 <2>1. CASE i = only
  <3> HIDE DEF only
  <3>1. WindowOf(i) = (w - 1) + 1 /\ CaseOf(i) = Cases[(k - 1) + 1] BY <1>3, <2>1 DEF WindowOf, CaseOf
  <3> QED BY <2>1, <3>1, (w - 1) + 1 = w, (k - 1) + 1 = k
 <2>2. ASSUME CaseOf(i) = Cases[k], WindowOf(i) = w PROVE i = only
  <3>1. i - 1 \in Nat BY RunCounts
  <3>2. /\ (i - 1) \div Len(Cases) \in Nat /\ (i - 1) % Len(Cases) \in 0 .. Len(Cases) - 1
        /\ i - 1 = Len(Cases) * ((i - 1) \div Len(Cases)) + ((i - 1) % Len(Cases))
    BY <3>1, Division
  <3>3. (i - 1) \div Len(Cases) = w - 1 BY <2>2, <3>2 DEF WindowOf
  <3>4. ((i - 1) % Len(Cases)) + 1 \in DOMAIN Cases BY <3>2
  <3>5. ((i - 1) % Len(Cases)) + 1 = k BY ONLY <2>2, <3>4, k \in DOMAIN Cases, CasesDiffer DEF CaseOf
  <3>6. i - 1 = Len(Cases) * (w - 1) + (k - 1)
   <4> HIDE DEF only
   <4>1. (i - 1) % Len(Cases) = k - 1 BY <3>2, <3>5
   <4> QED BY ONLY <3>2, <3>3, <4>1
  <3> HIDE DEF only
  <3> QED BY <1>2, <1>5, <3>1, <3>6, RunCounts
 <2> QED BY <2>1, <2>2
<1> QED BY <1>5, <1>6

\* SuiteRun counts sets as this module does.
LEMMA SameCardinality == ASSUME NEW S PROVE Suite!Cardinality(S) = Cardinality(S)
BY DEF Suite!Cardinality, Cardinality

\* Projections in the order of the schedule are what the reader of a suite recomputes, and cover
\* its coordinates.
LEMMA OrderedProjections ==
  ASSUME NEW r, Len(r.measurements) = WindowRuns, DOMAIN r.measurements = 1 .. WindowRuns,
         \A i \in 1 .. WindowRuns :
           r.measurements[i] = Suite!Schedule[CorrectnessRuns + WarmupRuns + i]
  PROVE  Suite!Projected(r) /\ Suite!CoordinatesCover(r)
<1> DEFINE planned == {i \in DOMAIN Suite!Schedule : Suite!Schedule[i].phase = "measurement"}
           before  == CorrectnessRuns + WarmupRuns
<1>1. /\ planned = before + 1 .. before + WindowRuns /\ before \in Nat
      /\ Cardinality(planned) = WindowRuns
      /\ \A i \in planned : Cardinality({j \in planned : j <= i}) = i - before
  BY PlannedWindows, RunCounts
<1>2. Suite!Projected(r)
 <2>1. ASSUME NEW i \in planned
       PROVE  r.measurements[Cardinality({j \in planned : j <= i})] = Suite!Schedule[i]
  <3> HIDE DEF planned, before
  <3>1. i - before \in 1 .. WindowRuns /\ before + (i - before) = i BY <1>1, RunCounts
  <3>2. r.measurements[i - before] = Suite!Schedule[before + (i - before)] BY <3>1 DEF before
  <3> QED BY <1>1, <3>1, <3>2
 <2>2. \A i \in planned : r.measurements[Suite!Cardinality({j \in planned : j <= i})] = Suite!Schedule[i]
  <3> HIDE DEF planned
  <3> QED BY <2>1, SameCardinality
 <2>3. Len(r.measurements) = Suite!Cardinality(planned)
  <3> HIDE DEF planned
  <3> QED BY <1>1, SameCardinality
 <2> QED BY <2>2, <2>3 DEF Suite!Projected
<1>3. ASSUME NEW i \in 1 .. WindowRuns
      PROVE  r.measurements[i].case = CaseOf(i) /\ r.measurements[i].index = WindowOf(i)
 <2>1. r.measurements[i] = Suite!Item("llama-bench", "measurement", WindowOf(i), CaseOf(i)) BY ScheduleShape
 <2> QED BY ONLY <2>1 DEF Suite!Item
<1>4. ASSUME NEW c \in {Cases[i] : i \in DOMAIN Cases}, NEW w \in 1 .. Windows
      PROVE  Suite!Cardinality({i \in DOMAIN r.measurements :
                                  r.measurements[i].case = c /\ r.measurements[i].index = w}) = 1
 <2>1. PICK k \in DOMAIN Cases : c = Cases[k] OBVIOUS
 <2>2. PICK only \in 1 .. WindowRuns :
         \A i \in 1 .. WindowRuns : (CaseOf(i) = Cases[k] /\ WindowOf(i) = w) <=> i = only
   BY OneWindowEach
 <2>3. {i \in DOMAIN r.measurements : r.measurements[i].case = c /\ r.measurements[i].index = w} = {only}
   BY <1>3, <2>1, <2>2
 <2> QED BY <2>3, FS_Singleton, SameCardinality
<1> QED BY <1>2, <1>4 DEF Suite!CoordinatesCover

----------------------------------------
(* The invariant of suites and capsules *)

\* What a sample, the state of a protocol and a result are made of
Samples == [item : Items, status : BackendSeen \cup ServerSeen \cup BenchSeen \cup {"success"},
            gate : {"passed", "failed", "none"}, replies : {<< >>, <<"x", "x">>, <<"x", "y">>}]
States  == [samples : Seq(Samples), warmups : Nat, windows : Nat, measurements : Seq(Items),
            reason : Suite!Reasons]
Results == [status : {"passed", "failed"}, reason : Suite!Reasons, samples : Seq(Samples),
            warmups : Nat, windows : Nat, measurements : Seq(Items)]

Steps == {"start", "bind", "snapshots", "lock", "protocol", "scratch", "verify",
          "publish", "unlock", "finalize", "release", "end", "dead"}

\* Every variable has a value of its kind.
SuiteTyped ==
  /\ kind \in [Procs -> {"suite", "capsule"}] /\ build \in [Procs -> Builds]
  /\ intact \subseteq Builds /\ lease \subseteq Procs /\ machine \subseteq Procs
  /\ pc \in [Procs -> Steps] /\ raised \in [Procs -> BOOLEAN]
  /\ run \in [Procs -> {"none", "active", "SUCCESS", "FAILURE", "INTERRUPTED"}]
  /\ state \in [Procs -> States] /\ measured \in [Procs -> Seq(BOOLEAN)]
  /\ result \in [Procs -> Results \cup {Suite!NoResult}]

\* Where a process is tells which locks it has and what has become of its run.
Placed(p) ==
  /\ p \in lease <=> pc[p] \notin {"start", "end", "dead"}
  /\ p \in machine => pc[p] \in {"protocol", "scratch", "verify", "publish", "unlock"}
  /\ pc[p] \in {"protocol", "scratch"} => p \in machine
  /\ pc[p] \in {"start", "bind"} => run[p] = "none"
  /\ pc[p] \in {"snapshots", "lock", "protocol", "scratch", "verify", "publish", "unlock", "finalize"} =>
       run[p] = "active"
  /\ pc[p] \in {"release", "end"} => run[p] \in {"none", "SUCCESS", "FAILURE"}

\* A machine has one holder, and a build.
LocksHeld ==
  /\ \A p \in Procs : Placed(p)
  /\ \A p, q \in machine : p = q
  /\ \A p, q \in lease : p # q => build[p] # build[q]

\* All samples let the protocol go on.
AllPass(s) == \A i \in DOMAIN s.samples : Suite!Passes(s.samples[i])

\* Warm-ups and windows among the first k invocations
WarmupsIn(k) ==
  IF k <= CorrectnessRuns THEN 0 ELSE IF k <= CorrectnessRuns + WarmupRuns THEN k - CorrectnessRuns ELSE WarmupRuns
WindowsIn(k) == IF k <= CorrectnessRuns + WarmupRuns THEN 0 ELSE k - (CorrectnessRuns + WarmupRuns)

\* The samples are the beginning of the schedule, the counts those of its beginning, and the
\* projections the planned windows in order; every window is projected while all samples pass.
InPlan(s) ==
  /\ Len(s.samples) <= Len(Suite!Schedule)
  /\ \A i \in DOMAIN s.samples : s.samples[i].item = Suite!Schedule[i]
  /\ s.warmups = WarmupsIn(Len(s.samples)) /\ s.windows = WindowsIn(Len(s.samples))
  /\ Len(s.measurements) <= s.windows
  /\ \A i \in DOMAIN s.measurements :
       s.measurements[i] = Suite!Schedule[CorrectnessRuns + WarmupRuns + i]
  /\ AllPass(s) => Len(s.measurements) = s.windows

\* The reason is the one the samples show.
Shown(s) ==
  LET k == Len(s.samples) IN
    CASE s.reason = "passed" -> AllPass(s)
      [] s.reason = "lock-unavailable" -> k = 0
      [] s.reason = "integrity-failed" -> k < Len(Suite!Schedule) /\ AllPass(s)
      [] OTHER -> /\ k > 0 /\ ~Suite!Passes(s.samples[k])
                  /\ s.reason = Suite!FailureOf(s.samples[k].item)
                  /\ \A i \in 1 .. k - 1 : Suite!Passes(s.samples[i])

\* Nothing was left out.
Complete(p) ==
  IF kind[p] = "suite" THEN Len(state[p].samples) = Len(Suite!Schedule) ELSE Len(measured[p]) = 1

\* What a process has measured is in its state, as far as the protocol has come.
Sampled(p) ==
  /\ InPlan(state[p])
  /\ pc[p] \in {"start", "bind", "snapshots", "lock"} => state[p] = Suite!Nothing /\ measured[p] = << >>
  /\ state[p].reason = "lock-unavailable" => measured[p] = << >>
  /\ pc[p] = "protocol" => state[p].reason = "passed"
  /\ pc[p] \in {"scratch", "verify", "publish"} /\ state[p].reason = "passed" => Complete(p)
  /\ kind[p] = "suite" =>
       /\ Shown(state[p]) /\ Len(measured[p]) = Len(state[p].samples)
       /\ pc[p] = "protocol" => Len(state[p].samples) < Len(Suite!Schedule)
  /\ kind[p] = "capsule" =>
       /\ Len(measured[p]) <= 1
       /\ pc[p] = "protocol" => measured[p] = << >>

\* What _build_result makes of a state
ResultOf(s) ==
  [status |-> IF s.reason = "passed" THEN "passed" ELSE "failed", reason |-> s.reason,
   samples |-> s.samples, warmups |-> s.warmups, windows |-> s.windows, measurements |-> s.measurements]

OfIntactBuild(p) == \A i \in DOMAIN measured[p] : measured[p][i] = TRUE

\* What a process has published is its state, which no longer changes, and it is of the leased
\* build; a success was published.
Published(p) ==
  /\ pc[p] \in {"start", "bind", "snapshots", "lock", "protocol", "scratch", "verify", "publish"} =>
       result[p] = Suite!NoResult
  /\ build[p] \in intact \/ pc[p] = "publish" \/ result[p] # Suite!NoResult => OfIntactBuild(p)
  /\ result[p] # Suite!NoResult =>
       /\ result[p] = ResultOf(state[p])
       /\ state[p].reason = "passed" => Complete(p)
  /\ run[p] = "SUCCESS" => result[p] # Suite!NoResult /\ result[p].status = "passed"

SuiteInv ==
  /\ SuiteTyped /\ LocksHeld
  /\ \A p \in Procs : Sampled(p)
  /\ \A p \in Procs : Published(p)

----------------------------------------
(* States and samples *)

\* A suite that has done nothing is in its plan.
LEMMA NothingIsInPlan ==
  /\ Suite!Nothing \in States /\ InPlan(Suite!Nothing) /\ Shown(Suite!Nothing)
  /\ Suite!Nothing.samples = << >> /\ Suite!Nothing.reason = "passed"
BY RunCounts, ScheduleShape DEF Suite!Nothing, States, InPlan, Shown, AllPass, WarmupsIn, WindowsIn, Suite!Reasons

\* The reason of a state is none of the plan's business.
LEMMA ReasonLeavesPlan ==
  ASSUME NEW s \in States, NEW reason \in Suite!Reasons
  PROVE  LET t == [s EXCEPT !.reason = reason] IN
           /\ t \in States /\ t.samples = s.samples /\ t.reason = reason
           /\ InPlan(s) => InPlan(t)
           /\ AllPass(t) <=> AllPass(s)
BY DEF States, InPlan, AllPass

\* What an adapter leaves for an item is a sample of it.
LEMMA SampleOfItem ==
  ASSUME NEW item \in Items, NEW sample \in Suite!SamplesOf(item)
  PROVE  sample \in Samples /\ sample.item = item
BY DEF Suite!SamplesOf, Suite!Sample, Samples, Items

\* Why a sample fails is a reason of a suite.
LEMMA FailureIsReason ==
  ASSUME NEW item
  PROVE  /\ Suite!FailureOf(item) \in Suite!Reasons
         /\ Suite!FailureOf(item) \notin {"passed", "lock-unavailable", "integrity-failed"}
BY DEF Suite!FailureOf, Suite!Reasons

\* What the next item of the schedule adds to the counts
LEMMA PhaseOfNext ==
  ASSUME NEW k \in Nat, k < Len(Suite!Schedule)
  PROVE  LET item == Suite!Schedule[k + 1] IN
           /\ item \in Items
           /\ WarmupsIn(k + 1) = IF item.phase = "warmup" THEN WarmupsIn(k) + 1 ELSE WarmupsIn(k)
           /\ WindowsIn(k + 1) = IF item.phase = "measurement" THEN WindowsIn(k) + 1 ELSE WindowsIn(k)
           /\ item.phase = "measurement" =>
                 item = Suite!Schedule[CorrectnessRuns + WarmupRuns + WindowsIn(k) + 1]
<1> DEFINE item == Suite!Schedule[k + 1]
<1>1. item \in Items BY ScheduleShape
<1>2. CASE k < CorrectnessRuns
 <2>1. item.phase \notin {"warmup", "measurement"} BY <1>2, ScheduleShape, RunCounts
 <2> QED BY <1>1, <1>2, <2>1, RunCounts DEF WarmupsIn, WindowsIn
<1>3. CASE CorrectnessRuns <= k /\ k < CorrectnessRuns + WarmupRuns
 <2>1. item.phase = "warmup"
  <3>1. k + 1 - CorrectnessRuns \in 1 .. WarmupRuns /\ k + 1 = CorrectnessRuns + (k + 1 - CorrectnessRuns)
    BY <1>3, RunCounts
  <3>2. Suite!Schedule[CorrectnessRuns + (k + 1 - CorrectnessRuns)].phase = "warmup" BY <3>1, ScheduleShape
  <3> QED BY <3>1, <3>2
 <2> QED BY <1>1, <1>3, <2>1, RunCounts DEF WarmupsIn, WindowsIn
<1>4. CASE CorrectnessRuns + WarmupRuns <= k
 <2> DEFINE i == k + 1 - (CorrectnessRuns + WarmupRuns)
 <2>1. i \in 1 .. WindowRuns /\ k + 1 = CorrectnessRuns + WarmupRuns + i BY <1>4, RunCounts, ScheduleShape
 <2>2. item = Suite!Item("llama-bench", "measurement", WindowOf(i), CaseOf(i))
  <3> HIDE DEF i
  <3> QED BY <2>1, ScheduleShape
 <2>3. item.phase = "measurement" BY ONLY <2>2 DEF Suite!Item
 <2>4. WindowsIn(k) + 1 = i /\ WindowsIn(k + 1) = i /\ WarmupsIn(k + 1) = WarmupRuns
   BY <1>4, <2>1, RunCounts DEF WindowsIn, WarmupsIn
 <2>5. WarmupsIn(k) = WarmupRuns BY <1>4, RunCounts DEF WarmupsIn
 <2>6. WindowsIn(k) \in Nat /\ CorrectnessRuns + WarmupRuns + WindowsIn(k) + 1 = k + 1 BY <1>4, RunCounts DEF WindowsIn
 <2> QED BY <1>1, <2>3, <2>4, <2>5, <2>6
<1> QED BY <1>2, <1>3, <1>4, RunCounts

\* A sample of the next item leads from plan to plan.
LEMMA CountedInPlan ==
  ASSUME NEW p \in Procs, state[p] \in States, InPlan(state[p]), AllPass(state[p]),
         Len(state[p].samples) < Len(Suite!Schedule),
         NEW sample \in Samples, sample.item = Suite!Schedule[Len(state[p].samples) + 1]
  PROVE  LET after == Suite!Counted(p, sample) IN
           /\ after \in States /\ InPlan(after) /\ after.reason = state[p].reason
           /\ after.samples = Append(state[p].samples, sample)
           /\ AllPass(after) <=> Suite!Passes(sample)
<1> DEFINE s     == state[p]
           k     == Len(s.samples)
           phase == sample.item.phase
           after == Suite!Counted(p, sample)
<1>1. s \in States /\ k \in Nat /\ k < Len(Suite!Schedule) BY DEF States
<1>2. /\ after.samples = Append(s.samples, sample) /\ after.reason = s.reason
      /\ after.warmups = IF phase = "warmup" THEN s.warmups + 1 ELSE s.warmups
      /\ after.windows = IF phase = "measurement" THEN s.windows + 1 ELSE s.windows
      /\ after.measurements = IF phase = "measurement" /\ Suite!Passes(sample)
                                THEN Append(s.measurements, sample.item) ELSE s.measurements
      /\ after \in States
 <2>1. /\ s.samples \in Seq(Samples) /\ s.measurements \in Seq(Items) /\ sample.item \in Items
       /\ s.warmups \in Nat /\ s.windows \in Nat /\ s.reason \in Suite!Reasons
   BY DEF States, Samples
 <2> DEFINE w == IF phase = "warmup" THEN s.warmups + 1 ELSE s.warmups
            v == IF phase = "measurement" THEN s.windows + 1 ELSE s.windows
            m == IF phase = "measurement" /\ Suite!Passes(sample)
                   THEN Append(s.measurements, sample.item) ELSE s.measurements
            t == Append(s.samples, sample)
 <2>2. after = [s EXCEPT !.samples = t, !.warmups = w, !.windows = v, !.measurements = m] BY DEF Suite!Counted
 <2>3. w \in Nat /\ v \in Nat /\ m \in Seq(Items) /\ t \in Seq(Samples)
  <3> HIDE DEF s, phase
  <3> QED BY <2>1
 <2>4. /\ after.samples = t /\ after.reason = s.reason /\ after.warmups = w
       /\ after.windows = v /\ after.measurements = m /\ after \in States
  <3> HIDE DEF after, s, w, v, m, t
  <3> QED BY <1>1, <2>1, <2>2, <2>3 DEF States
 <2> QED BY <2>4
<1>3. /\ Len(after.samples) = k + 1
      /\ \A i \in 1 .. k : after.samples[i] = s.samples[i]
      /\ after.samples[k + 1] = sample
  BY <1>1, <1>2 DEF States
<1>4. AllPass(after) <=> Suite!Passes(sample)
 <2>1. DOMAIN after.samples = 1 .. k + 1 /\ DOMAIN s.samples = 1 .. k BY <1>1, <1>2, <1>3 DEF States
 <2> HIDE DEF after, k
 <2>2. \A i \in 1 .. k : Suite!Passes(s.samples[i]) BY <2>1, Zenon DEF AllPass
 <2>3. \A i \in 1 .. k : Suite!Passes(after.samples[i]) BY <1>3, <2>2, Zenon
 <2>4. k + 1 \in 1 .. k + 1 /\ \A i \in 1 .. k + 1 : i \in 1 .. k \/ i = k + 1 BY <1>1
 <2>5. AllPass(after) <=> \A i \in 1 .. k + 1 : Suite!Passes(after.samples[i]) BY <2>1, Zenon DEF AllPass
 <2> QED BY <1>3, <2>3, <2>4, <2>5, Zenon
<1>5. /\ s.warmups = WarmupsIn(k) /\ s.windows = WindowsIn(k) /\ Len(s.measurements) = s.windows
      /\ \A i \in DOMAIN s.samples : s.samples[i].item = Suite!Schedule[i]
      /\ \A i \in DOMAIN s.measurements : s.measurements[i] = Suite!Schedule[CorrectnessRuns + WarmupRuns + i]
  BY DEF InPlan
<1>6. after.warmups = WarmupsIn(k + 1) /\ after.windows = WindowsIn(k + 1)
 <2> HIDE DEF after, k
 <2> QED BY <1>1, <1>2, <1>5, PhaseOfNext DEF k
<1>7. \A i \in DOMAIN after.samples : after.samples[i].item = Suite!Schedule[i]
 <2>1. DOMAIN after.samples = 1 .. k + 1 /\ DOMAIN s.samples = 1 .. k BY <1>1, <1>2, <1>3 DEF States
 <2>2. sample.item = Suite!Schedule[k + 1] OBVIOUS
 <2> SUFFICES ASSUME NEW i \in 1 .. k + 1 PROVE after.samples[i].item = Suite!Schedule[i] BY <2>1
 <2> HIDE DEF after, k, s
 <2>3. i \in 1 .. k \/ i = k + 1 BY <1>1
 <2> QED BY <1>3, <1>5, <2>1, <2>2, <2>3
<1>8. /\ Len(after.measurements) <= after.windows
      /\ Suite!Passes(sample) => Len(after.measurements) = after.windows
      /\ \A i \in DOMAIN after.measurements :
           after.measurements[i] = Suite!Schedule[CorrectnessRuns + WarmupRuns + i]
 <2>1. s.measurements \in Seq(Items) /\ sample.item \in Items /\ s.windows \in Nat BY DEF States, Samples
 <2>2. CASE phase = "measurement" /\ Suite!Passes(sample)
  <3>1. sample.item = Suite!Schedule[CorrectnessRuns + WarmupRuns + s.windows + 1] BY <1>1, <1>5, <2>2, PhaseOfNext
  <3>2. /\ Len(after.measurements) = s.windows + 1 /\ after.windows = s.windows + 1
        /\ DOMAIN after.measurements = 1 .. s.windows + 1
        /\ \A i \in 1 .. s.windows : after.measurements[i] = s.measurements[i]
        /\ after.measurements[s.windows + 1] = sample.item
   <4> HIDE DEF after
   <4> QED BY <1>2, <1>5, <2>1, <2>2
  <3>3. CorrectnessRuns + WarmupRuns + s.windows + 1 = CorrectnessRuns + WarmupRuns + (s.windows + 1)
    BY <2>1, RunCounts
  <3>4. DOMAIN s.measurements = 1 .. s.windows BY <1>5, <2>1
  <3>5. ASSUME NEW i \in 1 .. s.windows + 1
        PROVE  after.measurements[i] = Suite!Schedule[CorrectnessRuns + WarmupRuns + i]
   <4>1. i \in 1 .. s.windows \/ i = s.windows + 1 BY <2>1
   <4> HIDE DEF after, s
   <4> QED BY <1>5, <3>1, <3>2, <3>3, <3>4, <4>1
  <3> HIDE DEF after, s
  <3> QED BY <2>1, <3>2, <3>5
 <2>3. CASE ~(phase = "measurement" /\ Suite!Passes(sample))
  <3> HIDE DEF after
  <3> QED BY <1>2, <1>5, <2>1, <2>3
 <2> QED BY <2>2, <2>3
<1>9. InPlan(after)
 <2> HIDE DEF after
 <2> QED BY <1>1, <1>3, <1>4, <1>6, <1>7, <1>8 DEF InPlan
<1> QED BY <1>2, <1>4, <1>9

----------------------------------------
(* What a step does to the state of a protocol *)

\* An invocation takes the state from plan to plan, and its reason is the one it shows.
LEMMA InvokeEffect ==
  ASSUME SuiteInv, NEW p \in Procs, Suite!Invoke(p)
  PROVE  /\ kind[p] = "suite" /\ pc[p] = "protocol"
         /\ state' = [state EXCEPT ![p] = state'[p]] /\ pc' = [pc EXCEPT ![p] = pc'[p]]
         /\ state'[p] \in States /\ InPlan(state'[p]) /\ Shown(state'[p])
         /\ Len(state'[p].samples) = Len(state[p].samples) + 1
         /\ state'[p].reason # "lock-unavailable"
         /\ pc'[p] \in {"protocol", "scratch"}
         /\ pc'[p] = "protocol" =>
              state'[p].reason = "passed" /\ Len(state'[p].samples) < Len(Suite!Schedule)
         /\ pc'[p] = "scratch" /\ state'[p].reason = "passed" =>
              Len(state'[p].samples) = Len(Suite!Schedule)
         /\ measured' = [measured EXCEPT ![p] = Append(measured[p], build[p] \in intact)]
         /\ UNCHANGED <<kind, build, intact, lease, machine, raised, run, result>>
<1> DEFINE s == state[p]
           k == Len(s.samples)
<1>1. /\ kind[p] = "suite" /\ pc[p] = "protocol" /\ pc \in [Procs -> Steps] /\ state \in [Procs -> States]
      /\ measured' = [measured EXCEPT ![p] = Append(measured[p], build[p] \in intact)]
      /\ UNCHANGED <<kind, build, intact, lease, machine, raised, run, result>>
  BY DEF Suite!Invoke, Suite!At, Suite!Kept, SuiteInv, SuiteTyped
<1>2. /\ s \in States /\ InPlan(s) /\ k \in Nat /\ k < Len(Suite!Schedule) /\ Len(Suite!Schedule) \in Nat
      /\ s.reason = "passed" /\ Shown(s) /\ AllPass(s)
  BY <1>1, ScheduleShape DEF SuiteInv, Sampled, Shown, States
<1>3. Suite!Due(p) = Suite!Schedule[k + 1] /\ Suite!Schedule[k + 1] \in Items BY <1>2, ScheduleShape DEF Suite!Due
<1>4. PICK sample \in Suite!SamplesOf(Suite!Due(p)) :
        LET after == Suite!Counted(p, sample) IN
          IF Suite!Passes(sample)
            THEN /\ state' = [state EXCEPT ![p] = after]
                 /\ Suite!Goto(p, IF Len(after.samples) = Len(Suite!Schedule) THEN "scratch" ELSE "protocol")
            ELSE /\ state' = [state EXCEPT ![p] = [after EXCEPT !.reason = Suite!FailureOf(sample.item)]]
                 /\ Suite!Goto(p, "scratch")
  BY DEF Suite!Invoke
<1>5. sample \in Samples /\ sample.item = Suite!Schedule[k + 1] BY <1>3, <1>4, SampleOfItem
<1> DEFINE after == Suite!Counted(p, sample)
<1>6. /\ after \in States /\ InPlan(after) /\ after.reason = "passed"
      /\ after.samples = Append(s.samples, sample)
      /\ AllPass(after) <=> Suite!Passes(sample)
  BY <1>2, <1>5, CountedInPlan
<1>7. /\ Len(after.samples) = k + 1 /\ after.samples[k + 1] = sample
      /\ \A i \in 1 .. k : Suite!Passes(after.samples[i])
 <2>1. s.samples \in Seq(Samples) /\ \A i \in 1 .. k : Suite!Passes(s.samples[i]) BY <1>2 DEF States, AllPass
 <2> HIDE DEF after, s
 <2> QED BY <1>5, <1>6, <2>1
<1> HIDE DEF after
<1>8. CASE Suite!Passes(sample)
 <2>1. state' = [state EXCEPT ![p] = after]
       /\ pc' = [pc EXCEPT ![p] = IF Len(after.samples) = Len(Suite!Schedule) THEN "scratch" ELSE "protocol"]
   BY <1>4, <1>8 DEF Suite!Goto, after
 <2>2. state'[p] = after
       /\ pc'[p] = IF Len(after.samples) = Len(Suite!Schedule) THEN "scratch" ELSE "protocol"
   BY <1>1, <2>1
 <2>3. Shown(after) BY <1>6, <1>8 DEF Shown
 <2>4. k + 1 <= Len(Suite!Schedule) BY <1>2
 <2> HIDE DEF k
 <2> QED BY <1>1, <1>2, <1>6, <1>7, <2>1, <2>2, <2>3, <2>4 DEF k
<1>9. CASE ~Suite!Passes(sample)
 <2> DEFINE r == Suite!FailureOf(sample.item)
            t == [after EXCEPT !.reason = r]
 <2>1. state' = [state EXCEPT ![p] = t] /\ pc' = [pc EXCEPT ![p] = "scratch"] BY <1>4, <1>9 DEF Suite!Goto, after
 <2>2. state'[p] = t /\ pc'[p] = "scratch"
  <3> HIDE DEF t
  <3> QED BY <1>1, <2>1
 <2>3. r \in Suite!Reasons /\ r \notin {"passed", "lock-unavailable", "integrity-failed"} BY FailureIsReason
 <2>4. t \in States /\ InPlan(t) /\ t.samples = after.samples /\ t.reason = r
  <3> HIDE DEF r
  <3> QED BY <1>6, <2>3, ReasonLeavesPlan
 <2>5. Shown(t)
  <3>1. (k + 1) - 1 = k /\ k + 1 > 0 BY <1>2
  <3> HIDE DEF t
  <3> QED BY <1>7, <1>9, <2>3, <2>4, <3>1 DEF Shown
 <2> HIDE DEF t, r
 <2> QED BY <1>1, <1>7, <2>1, <2>2, <2>3, <2>4, <2>5
<1> QED BY <1>8, <1>9

\* A step that changes no more of a state than its reason
LEMMA ReasonEffect ==
  ASSUME SuiteInv, NEW p \in Procs, NEW reason \in Suite!Reasons,
         state' = [state EXCEPT ![p].reason = reason]
  PROVE  /\ state' = [state EXCEPT ![p] = state'[p]]
         /\ state'[p] \in States /\ InPlan(state'[p])
         /\ state'[p].samples = state[p].samples /\ state'[p].reason = reason
         /\ AllPass(state'[p]) <=> AllPass(state[p])
<1> DEFINE t == [state[p] EXCEPT !.reason = reason]
<1>1. state \in [Procs -> States] /\ state[p] \in States /\ InPlan(state[p]) BY DEF SuiteInv, SuiteTyped, Sampled
<1>2. state' = [state EXCEPT ![p] = t] OBVIOUS
<1>3. state'[p] = t
 <2> HIDE DEF t
 <2> QED BY <1>1, <1>2
<1>4. /\ t \in States /\ InPlan(t) /\ t.samples = state[p].samples /\ t.reason = reason
      /\ AllPass(t) <=> AllPass(state[p])
  BY <1>1, ReasonLeavesPlan
<1> HIDE DEF t
<1> QED BY <1>2, <1>3, <1>4


----------------------------------------
(* Steps *)

\* A step keeps every variable to its kind.
LEMMA TypedStep ==
  ASSUME SuiteInv, Suite!Next
  PROVE  SuiteTyped'
<1>1. SuiteTyped BY DEF SuiteInv
<1>2. ASSUME NEW p \in Procs, Suite!Lease(p) PROVE SuiteTyped'
  BY <1>1, <1>2 DEF SuiteTyped, Steps, Suite!Lease, Suite!At, Suite!Goto, Suite!Kept
<1>3. ASSUME NEW p \in Procs, Suite!Bind(p) PROVE SuiteTyped'
  BY <1>1, <1>3 DEF SuiteTyped, Steps, Suite!Bind, Suite!At, Suite!Goto, Suite!Kept
<1>4. ASSUME NEW p \in Procs, Suite!Snapshots(p) PROVE SuiteTyped'
  BY <1>1, <1>4 DEF SuiteTyped, Steps, Suite!Snapshots, Suite!At, Suite!Goto, Suite!Kept
<1>5. ASSUME NEW p \in Procs, Suite!LockMachine(p) PROVE SuiteTyped'
 <2>1. state' = [state EXCEPT ![p].reason = "lock-unavailable"] \/ state' = state BY <1>5 DEF Suite!LockMachine
 <2>2. state' \in [Procs -> States] BY <1>1, <2>1, ReasonEffect DEF SuiteTyped, Suite!Reasons
 <2>3. /\ pc' \in [Procs -> Steps] /\ machine' \subseteq Procs
       /\ UNCHANGED <<kind, build, intact, lease, raised, run, result, measured>>
  <3>1. /\ machine' = machine \/ machine' = {p}
        /\ \E l \in {"protocol", "verify"} : pc' = [pc EXCEPT ![p] = l]
        /\ UNCHANGED <<kind, build, intact, lease, raised, run, result, measured>>
    BY <1>5 DEF Suite!LockMachine, Suite!At, Suite!Goto, Suite!Kept
  <3> QED BY <1>1, <3>1 DEF SuiteTyped, Steps
 <2> QED BY <1>1, <2>2, <2>3 DEF SuiteTyped
<1>6. ASSUME NEW p \in Procs, Suite!Invoke(p) PROVE SuiteTyped'
 <2>1. (build[p] \in intact) \in BOOLEAN OBVIOUS
 <2>2. /\ measured' = [measured EXCEPT ![p] = Append(measured[p], build[p] \in intact)]
       /\ state' = [state EXCEPT ![p] = state'[p]] /\ state'[p] \in States
       /\ pc' = [pc EXCEPT ![p] = pc'[p]] /\ pc'[p] \in Steps
       /\ UNCHANGED <<kind, build, intact, lease, machine, raised, run, result>>
   BY <1>6, InvokeEffect DEF Steps
 <2>3. measured' \in [Procs -> Seq(BOOLEAN)]
  <3>1. measured[p] \in Seq(BOOLEAN) BY <1>1 DEF SuiteTyped
  <3> DEFINE m == Append(measured[p], build[p] \in intact)
  <3>2. m \in Seq(BOOLEAN) BY <2>1, <3>1
  <3> HIDE DEF m
  <3> QED BY <1>1, <2>2, <3>2 DEF SuiteTyped, m
 <2>4. pc' \in [Procs -> Steps] /\ state' \in [Procs -> States]
  <3>1. \A t \in States : [state EXCEPT ![p] = t] \in [Procs -> States] BY <1>1 DEF SuiteTyped
  <3>2. \A l \in Steps : [pc EXCEPT ![p] = l] \in [Procs -> Steps] BY <1>1 DEF SuiteTyped
  <3> QED BY <2>2, <3>1, <3>2
 <2> QED BY <1>1, <2>2, <2>3, <2>4 DEF SuiteTyped
<1>7. ASSUME NEW p \in Procs, Suite!IntegrityFails(p) PROVE SuiteTyped'
 <2>1. state' = [state EXCEPT ![p].reason = "integrity-failed"] BY <1>7 DEF Suite!IntegrityFails
 <2>2. state' \in [Procs -> States] BY <1>1, <2>1, ReasonEffect DEF SuiteTyped, Suite!Reasons
 <2> QED BY <1>1, <1>7, <2>2 DEF SuiteTyped, Steps, Suite!IntegrityFails, Suite!At, Suite!Goto, Suite!Kept
<1>8. ASSUME NEW p \in Procs, Suite!Protocol(p) PROVE SuiteTyped'
 <2>1. PICK reason \in {"passed", "child-failed"} : state' = [state EXCEPT ![p].reason = reason]
   BY <1>8 DEF Suite!Protocol
 <2>2. state' \in [Procs -> States] BY <1>1, <2>1, ReasonEffect DEF SuiteTyped, Suite!Reasons
 <2>3. (build[p] \in intact) \in BOOLEAN OBVIOUS
 <2> QED BY <1>1, <1>8, <2>2, <2>3 DEF SuiteTyped, Steps, Suite!Protocol, Suite!At, Suite!Goto, Suite!Kept
<1>9. ASSUME NEW p \in Procs, Suite!Scratch(p) PROVE SuiteTyped'
  BY <1>1, <1>9 DEF SuiteTyped, Steps, Suite!Scratch, Suite!At, Suite!Goto, Suite!Kept
<1>10. ASSUME NEW p \in Procs, Suite!Verify(p) PROVE SuiteTyped'
  BY <1>1, <1>10 DEF SuiteTyped, Steps, Suite!Verify, Suite!At, Suite!Goto, Suite!Kept, Suite!Escape,
    Suite!StillIntact
<1>11. ASSUME NEW p \in Procs, Suite!Publish(p) PROVE SuiteTyped'
 <2>1. state[p] \in States /\ ResultOf(state[p]) \in Results BY <1>1 DEF SuiteTyped, States, Results, ResultOf
 <2>2. result' = [result EXCEPT ![p] = ResultOf(state[p])] BY <1>11 DEF Suite!Publish, ResultOf
 <2> QED BY <1>1, <1>11, <2>1, <2>2 DEF SuiteTyped, Steps, Suite!Publish, Suite!At, Suite!Goto, Suite!Kept
<1>12. ASSUME NEW p \in Procs, Suite!Unlock(p) PROVE SuiteTyped'
  BY <1>1, <1>12 DEF SuiteTyped, Steps, Suite!Unlock, Suite!At, Suite!Goto, Suite!Kept
<1>13. ASSUME NEW p \in Procs, Suite!Finalize(p) PROVE SuiteTyped'
  BY <1>1, <1>13 DEF SuiteTyped, Steps, Suite!Finalize, Suite!At, Suite!Goto, Suite!Kept, Suite!OutcomeOf
<1>14. ASSUME NEW p \in Procs, Suite!Release(p) PROVE SuiteTyped'
  BY <1>1, <1>14 DEF SuiteTyped, Steps, Suite!Release, Suite!At, Suite!Goto, Suite!Kept
<1>15. ASSUME NEW p \in Procs, Suite!Raise(p) PROVE SuiteTyped'
  BY <1>1, <1>15 DEF SuiteTyped, Steps, Suite!Raise, Suite!At, Suite!Goto, Suite!Kept, Suite!Escape, Suite!Troubled
<1>16. ASSUME NEW p \in Procs, Suite!Kill(p) PROVE SuiteTyped'
  BY <1>1, <1>16 DEF SuiteTyped, Steps, Suite!Kill, Suite!At, Suite!Goto, Suite!Kept, Suite!Troubled
<1>17. ASSUME NEW p \in Procs, Suite!Recover(p) PROVE SuiteTyped'
  BY <1>1, <1>17 DEF SuiteTyped, Steps, Suite!Recover, Suite!At, Suite!Goto, Suite!Kept
<1>18. ASSUME NEW b \in Builds, Suite!BuildChanges(b) PROVE SuiteTyped'
  BY <1>1, <1>18 DEF SuiteTyped, Suite!BuildChanges
<1> QED BY <1>2, <1>3, <1>4, <1>5, <1>6, <1>7, <1>8, <1>9, <1>10, <1>11, <1>12, <1>13, <1>14, <1>15, <1>16,
     <1>17, <1>18
     DEF Suite!Next, Suite!Step

\* A step keeps the locks nested.
LEMMA LocksStep ==
  ASSUME SuiteInv, Suite!Next
  PROVE  LocksHeld'
<1>1. SuiteTyped /\ LocksHeld BY DEF SuiteInv
<1>2. ASSUME NEW p \in Procs, Suite!Lease(p) PROVE LocksHeld'
  BY <1>1, <1>2 DEF SuiteTyped, LocksHeld, Placed, Suite!Lease, Suite!At, Suite!Goto, Suite!Kept
<1>3. ASSUME NEW p \in Procs, Suite!Bind(p) PROVE LocksHeld'
  BY <1>1, <1>3 DEF SuiteTyped, LocksHeld, Placed, Suite!Bind, Suite!At, Suite!Goto, Suite!Kept
<1>4. ASSUME NEW p \in Procs, Suite!Snapshots(p) PROVE LocksHeld'
  BY <1>1, <1>4 DEF SuiteTyped, LocksHeld, Placed, Suite!Snapshots, Suite!At, Suite!Goto, Suite!Kept
<1>5. ASSUME NEW p \in Procs, Suite!LockMachine(p) PROVE LocksHeld'
  BY <1>1, <1>5 DEF SuiteTyped, LocksHeld, Placed, Suite!LockMachine, Suite!At, Suite!Goto, Suite!Kept
<1>6. ASSUME NEW p \in Procs, Suite!Invoke(p) PROVE LocksHeld'
  BY <1>1, <1>6, InvokeEffect DEF SuiteTyped, LocksHeld, Placed
<1>7. ASSUME NEW p \in Procs, Suite!IntegrityFails(p) PROVE LocksHeld'
  BY <1>1, <1>7 DEF SuiteTyped, LocksHeld, Placed, Suite!IntegrityFails, Suite!At, Suite!Goto, Suite!Kept
<1>8. ASSUME NEW p \in Procs, Suite!Protocol(p) PROVE LocksHeld'
  BY <1>1, <1>8 DEF SuiteTyped, LocksHeld, Placed, Suite!Protocol, Suite!At, Suite!Goto, Suite!Kept
<1>9. ASSUME NEW p \in Procs, Suite!Scratch(p) PROVE LocksHeld'
  BY <1>1, <1>9 DEF SuiteTyped, LocksHeld, Placed, Suite!Scratch, Suite!At, Suite!Goto, Suite!Kept
<1>10. ASSUME NEW p \in Procs, Suite!Verify(p) PROVE LocksHeld'
  BY <1>1, <1>10 DEF SuiteTyped, LocksHeld, Placed, Suite!Verify, Suite!At, Suite!Goto, Suite!Kept, Suite!Escape,
    Suite!StillIntact
<1>11. ASSUME NEW p \in Procs, Suite!Publish(p) PROVE LocksHeld'
  BY <1>1, <1>11 DEF SuiteTyped, LocksHeld, Placed, Suite!Publish, Suite!At, Suite!Goto, Suite!Kept
<1>12. ASSUME NEW p \in Procs, Suite!Unlock(p) PROVE LocksHeld'
  BY <1>1, <1>12 DEF SuiteTyped, LocksHeld, Placed, Suite!Unlock, Suite!At, Suite!Goto, Suite!Kept
<1>13. ASSUME NEW p \in Procs, Suite!Finalize(p) PROVE LocksHeld'
  BY <1>1, <1>13 DEF SuiteTyped, LocksHeld, Placed, Suite!Finalize, Suite!At, Suite!Goto, Suite!Kept, Suite!OutcomeOf
<1>14. ASSUME NEW p \in Procs, Suite!Release(p) PROVE LocksHeld'
  BY <1>1, <1>14 DEF SuiteTyped, LocksHeld, Placed, Suite!Release, Suite!At, Suite!Goto, Suite!Kept
<1>15. ASSUME NEW p \in Procs, Suite!Raise(p) PROVE LocksHeld'
  BY <1>1, <1>15 DEF SuiteTyped, LocksHeld, Placed, Suite!Raise, Suite!At, Suite!Goto, Suite!Kept, Suite!Escape,
    Suite!Troubled
<1>16. ASSUME NEW p \in Procs, Suite!Kill(p) PROVE LocksHeld'
  BY <1>1, <1>16 DEF SuiteTyped, LocksHeld, Placed, Suite!Kill, Suite!At, Suite!Goto, Suite!Kept, Suite!Troubled
<1>17. ASSUME NEW p \in Procs, Suite!Recover(p) PROVE LocksHeld'
  BY <1>1, <1>17 DEF SuiteTyped, LocksHeld, Placed, Suite!Recover, Suite!At, Suite!Goto, Suite!Kept
<1>18. ASSUME NEW b \in Builds, Suite!BuildChanges(b) PROVE LocksHeld'
  BY <1>1, <1>18 DEF SuiteTyped, LocksHeld, Placed, Suite!BuildChanges
<1> QED BY <1>2, <1>3, <1>4, <1>5, <1>6, <1>7, <1>8, <1>9, <1>10, <1>11, <1>12, <1>13, <1>14, <1>15, <1>16,
     <1>17, <1>18
     DEF Suite!Next, Suite!Step

\* A process whose samples stay as they are may go on, or give up, anywhere.
LEMMA SampledFrame ==
  ASSUME NEW q \in Procs, Sampled(q), kind' = kind, state'[q] = state[q], measured'[q] = measured[q],
         \/ pc'[q] = pc[q]
         \/ {pc[q], pc'[q]} \subseteq {"start", "bind", "snapshots", "lock"}
         \/ pc[q] = "lock" /\ pc'[q] = "protocol"
         \/ {pc[q], pc'[q]} \subseteq {"scratch", "verify", "publish"}
         \/ pc'[q] \in {"unlock", "finalize", "release", "end", "dead"}
  PROVE  Sampled(q)'
<1>1. Len(Suite!Nothing.samples) = 0 /\ Suite!Nothing.reason = "passed" /\ Len(Suite!Schedule) > 0
  BY NothingIsInPlan, ScheduleShape, RunCounts
<1>2. Complete(q)' <=> Complete(q) BY DEF Complete
<1>3. InPlan(state[q])' <=> InPlan(state[q]) BY DEF InPlan, AllPass
<1>4. Shown(state[q])' <=> Shown(state[q]) BY DEF Shown, AllPass
<1> QED BY <1>1, <1>2, <1>3, <1>4 DEF Sampled

\* A step keeps to the schedule, and to the reason it shows.
LEMMA SampledStep ==
  ASSUME SuiteInv, Suite!Next
  PROVE  \A q \in Procs : Sampled(q)'
<1> SUFFICES ASSUME NEW q \in Procs PROVE Sampled(q)' OBVIOUS
<1>1. SuiteTyped /\ Sampled(q) BY DEF SuiteInv
<1>2. ASSUME NEW p \in Procs, Suite!Lease(p) PROVE Sampled(q)'
  BY <1>1, <1>2, SampledFrame DEF SuiteTyped, Suite!Lease, Suite!At, Suite!Goto, Suite!Kept
<1>3. ASSUME NEW p \in Procs, Suite!Bind(p) PROVE Sampled(q)'
  BY <1>1, <1>3, SampledFrame DEF SuiteTyped, Suite!Bind, Suite!At, Suite!Goto, Suite!Kept
<1>4. ASSUME NEW p \in Procs, Suite!Snapshots(p) PROVE Sampled(q)'
  BY <1>1, <1>4, SampledFrame DEF SuiteTyped, Suite!Snapshots, Suite!At, Suite!Goto, Suite!Kept
<1>5. ASSUME NEW p \in Procs, Suite!LockMachine(p) PROVE Sampled(q)'
 <2>1. CASE p # q \/ machine = {}
   BY <1>1, <1>5, <2>1, SampledFrame DEF SuiteTyped, Suite!LockMachine, Suite!At, Suite!Goto, Suite!Kept
 <2>2. CASE p = q /\ machine # {}
  <3>1. /\ state' = [state EXCEPT ![q].reason = "lock-unavailable"] /\ pc[q] = "lock" /\ pc'[q] = "verify"
        /\ UNCHANGED <<kind, measured>>
    BY <1>1, <1>5, <2>2 DEF SuiteTyped, Suite!LockMachine, Suite!At, Suite!Goto, Suite!Kept
  <3>2. /\ InPlan(state'[q]) /\ state'[q].reason = "lock-unavailable" /\ state'[q].samples = state[q].samples
    BY <3>1, ReasonEffect DEF Suite!Reasons
  <3>3. state[q] = Suite!Nothing /\ measured[q] = << >> BY <1>1, <3>1 DEF Sampled
  <3>4. Len(state'[q].samples) = 0 BY <3>2, <3>3, NothingIsInPlan
  <3>5. Shown(state'[q]) BY <3>2, <3>4 DEF Shown
  <3> QED BY <1>1, <3>1, <3>2, <3>3, <3>4, <3>5 DEF Sampled
 <2> QED BY <2>1, <2>2
<1>6. ASSUME NEW p \in Procs, Suite!Invoke(p) PROVE Sampled(q)'
 <2>1. CASE p # q
  <3>1. state'[q] = state[q] /\ measured'[q] = measured[q] /\ pc'[q] = pc[q] /\ kind' = kind
   <4>1. /\ \A t : [state EXCEPT ![p] = t][q] = state[q]
         /\ \A t : [measured EXCEPT ![p] = t][q] = measured[q]
         /\ \A t : [pc EXCEPT ![p] = t][q] = pc[q]
     BY <1>1, <2>1 DEF SuiteTyped
   <4>2. /\ \E t : state' = [state EXCEPT ![p] = t]
         /\ \E t : measured' = [measured EXCEPT ![p] = t]
         /\ \E t : pc' = [pc EXCEPT ![p] = t]
         /\ kind' = kind
    <5>1. /\ state' = [state EXCEPT ![p] = state'[p]] /\ pc' = [pc EXCEPT ![p] = pc'[p]]
          /\ measured' = [measured EXCEPT ![p] = Append(measured[p], build[p] \in intact)]
          /\ kind' = kind
      BY <1>6, InvokeEffect
    <5> QED BY ONLY <5>1, Zenon
   <4> QED BY ONLY <4>1, <4>2
  <3> QED BY <1>1, <3>1, SampledFrame
 <2>2. CASE p = q
  <3>1. /\ kind[q] = "suite" /\ kind' = kind /\ InPlan(state'[q]) /\ Shown(state'[q])
        /\ Len(state'[q].samples) = Len(state[q].samples) + 1
        /\ state'[q].reason # "lock-unavailable" /\ pc'[q] \in {"protocol", "scratch"}
        /\ pc'[q] = "protocol" =>
             state'[q].reason = "passed" /\ Len(state'[q].samples) < Len(Suite!Schedule)
        /\ pc'[q] = "scratch" /\ state'[q].reason = "passed" =>
             Len(state'[q].samples) = Len(Suite!Schedule)
    BY <1>6, <2>2, InvokeEffect
  <3>2. Len(measured'[q]) = Len(state'[q].samples)
   <4>1. measured[q] \in Seq(BOOLEAN) /\ Len(measured[q]) = Len(state[q].samples) BY <1>1, <3>1 DEF SuiteTyped, Sampled
   <4> DEFINE b == build[q] \in intact
   <4>2. measured'[q] = Append(measured[q], b)
    <5> DEFINE m == Append(measured[q], b)
    <5>1. measured' = [measured EXCEPT ![q] = m] BY <1>6, <2>2, InvokeEffect
    <5> HIDE DEF m
    <5>2. measured'[q] = m BY <1>1, <5>1 DEF SuiteTyped
    <5> QED BY <5>2 DEF m
   <4>3. b \in BOOLEAN OBVIOUS
   <4> HIDE DEF b
   <4>4. Len(measured'[q]) = Len(measured[q]) + 1 BY <4>1, <4>2, <4>3
   <4> QED BY <3>1, <4>1, <4>4
  <3> QED BY <3>1, <3>2 DEF Sampled, Complete
 <2> QED BY <2>1, <2>2
<1>7. ASSUME NEW p \in Procs, Suite!IntegrityFails(p) PROVE Sampled(q)'
 <2>1. CASE p # q
   BY <1>1, <1>7, <2>1, SampledFrame DEF SuiteTyped, Suite!IntegrityFails, Suite!At, Suite!Goto, Suite!Kept
 <2>2. CASE p = q
  <3>1. /\ state' = [state EXCEPT ![q].reason = "integrity-failed"] /\ pc[q] = "protocol"
        /\ pc'[q] = "scratch" /\ kind[q] = "suite" /\ UNCHANGED <<kind, measured>>
    BY <1>1, <1>7, <2>2 DEF SuiteTyped, Suite!IntegrityFails, Suite!At, Suite!Goto, Suite!Kept
  <3>2. /\ InPlan(state'[q]) /\ state'[q].reason = "integrity-failed"
        /\ state'[q].samples = state[q].samples /\ AllPass(state'[q]) <=> AllPass(state[q])
    BY <3>1, ReasonEffect DEF Suite!Reasons
  <3>3. Shown(state[q]) /\ state[q].reason = "passed" /\ Len(state[q].samples) < Len(Suite!Schedule)
    BY <1>1, <3>1 DEF Sampled
  <3>4. Shown(state'[q]) BY <3>2, <3>3 DEF Shown
  <3> QED BY <1>1, <3>1, <3>2, <3>3, <3>4 DEF Sampled
 <2> QED BY <2>1, <2>2
<1>8. ASSUME NEW p \in Procs, Suite!Protocol(p) PROVE Sampled(q)'
 <2>1. CASE p # q BY <1>1, <1>8, <2>1, SampledFrame DEF SuiteTyped, Suite!Protocol, Suite!At, Suite!Goto, Suite!Kept
 <2>2. CASE p = q
  <3>1. PICK reason \in {"passed", "child-failed"} : state' = [state EXCEPT ![q].reason = reason]
    BY <1>8, <2>2 DEF Suite!Protocol
  <3>2. /\ pc[q] = "protocol" /\ pc'[q] = "scratch" /\ kind[q] = "capsule" /\ kind' = kind
        /\ measured'[q] = Append(measured[q], build[q] \in intact)
    BY <1>1, <1>8, <2>2 DEF SuiteTyped, Suite!Protocol, Suite!At, Suite!Goto, Suite!Kept
  <3>3. InPlan(state'[q]) /\ state'[q].reason = reason BY <3>1, ReasonEffect DEF Suite!Reasons
  <3>4. measured[q] = << >> BY <1>1, <3>2 DEF Sampled
  <3>5. Len(measured'[q]) = 1
   <4> DEFINE b == build[q] \in intact
   <4> HIDE DEF b
   <4>1. measured'[q] = Append(<< >>, b) BY <3>2, <3>4 DEF b
   <4> QED BY <4>1
  <3> QED BY <3>2, <3>3, <3>5 DEF Sampled, Complete
 <2> QED BY <2>1, <2>2
<1>9. ASSUME NEW p \in Procs, Suite!Scratch(p) PROVE Sampled(q)'
  BY <1>1, <1>9, SampledFrame DEF SuiteTyped, Suite!Scratch, Suite!At, Suite!Goto, Suite!Kept
<1>10. ASSUME NEW p \in Procs, Suite!Verify(p) PROVE Sampled(q)'
  BY <1>1, <1>10, SampledFrame DEF SuiteTyped, Suite!Verify, Suite!At, Suite!Goto, Suite!Kept, Suite!Escape,
    Suite!StillIntact
<1>11. ASSUME NEW p \in Procs, Suite!Publish(p) PROVE Sampled(q)'
  BY <1>1, <1>11, SampledFrame DEF SuiteTyped, Suite!Publish, Suite!At, Suite!Goto, Suite!Kept
<1>12. ASSUME NEW p \in Procs, Suite!Unlock(p) PROVE Sampled(q)'
  BY <1>1, <1>12, SampledFrame DEF SuiteTyped, Suite!Unlock, Suite!At, Suite!Goto, Suite!Kept
<1>13. ASSUME NEW p \in Procs, Suite!Finalize(p) PROVE Sampled(q)'
  BY <1>1, <1>13, SampledFrame DEF SuiteTyped, Suite!Finalize, Suite!At, Suite!Goto, Suite!Kept, Suite!OutcomeOf
<1>14. ASSUME NEW p \in Procs, Suite!Release(p) PROVE Sampled(q)'
  BY <1>1, <1>14, SampledFrame DEF SuiteTyped, Suite!Release, Suite!At, Suite!Goto, Suite!Kept
<1>15. ASSUME NEW p \in Procs, Suite!Raise(p) PROVE Sampled(q)'
  BY <1>1, <1>15, SampledFrame DEF SuiteTyped, Suite!Raise, Suite!At, Suite!Goto, Suite!Kept, Suite!Escape,
    Suite!Troubled
<1>16. ASSUME NEW p \in Procs, Suite!Kill(p) PROVE Sampled(q)'
  BY <1>1, <1>16, SampledFrame DEF SuiteTyped, Suite!Kill, Suite!At, Suite!Goto, Suite!Kept, Suite!Troubled
<1>17. ASSUME NEW p \in Procs, Suite!Recover(p) PROVE Sampled(q)'
  BY <1>1, <1>17, SampledFrame DEF SuiteTyped, Suite!Recover, Suite!At, Suite!Goto, Suite!Kept
<1>18. ASSUME NEW b \in Builds, Suite!BuildChanges(b) PROVE Sampled(q)'
  BY <1>1, <1>18, SampledFrame DEF Suite!BuildChanges
<1> QED BY <1>2, <1>3, <1>4, <1>5, <1>6, <1>7, <1>8, <1>9, <1>10, <1>11, <1>12, <1>13, <1>14, <1>15, <1>16,
     <1>17, <1>18
     DEF Suite!Next, Suite!Step

\* A process whose samples and result stay as they are may go on, but not to publish them.
LEMMA PublishedFrame ==
  ASSUME NEW q \in Procs, Published(q), kind' = kind, build' = build, intact' \subseteq intact,
         state'[q] = state[q], measured'[q] = measured[q], result'[q] = result[q],
         run'[q] = run[q] \/ run'[q] # "SUCCESS",
         \/ pc'[q] = pc[q]
         \/ /\ pc[q] \in {"start", "bind", "snapshots", "lock", "protocol", "scratch", "verify"}
            /\ pc'[q] # "publish"
         \/ pc'[q] \in {"unlock", "finalize", "release", "end", "dead"}
  PROVE  Published(q)'
<1>1. Complete(q)' <=> Complete(q) BY DEF Complete
<1>2. OfIntactBuild(q)' <=> OfIntactBuild(q) BY DEF OfIntactBuild
<1>3. ResultOf(state[q])' = ResultOf(state[q]) BY DEF ResultOf
<1> QED BY <1>1, <1>2, <1>3 DEF Published

\* Before it publishes, a process may sample once more: the build it finds intact was intact.
LEMMA PublishedSampling ==
  ASSUME SuiteInv, NEW q \in Procs, build' = build, intact' = intact,
         pc[q] = "protocol", pc'[q] \in {"protocol", "scratch"},
         measured'[q] = Append(measured[q], build[q] \in intact),
         result'[q] = result[q], run'[q] = run[q]
  PROVE  Published(q)'
<1>1. Published(q) /\ measured[q] \in Seq(BOOLEAN) /\ run[q] = "active" /\ result[q] = Suite!NoResult
  BY DEF SuiteInv, SuiteTyped, LocksHeld, Placed, Published
<1>2. ASSUME build[q] \in intact PROVE OfIntactBuild(q)'
 <2>1. (build[q] \in intact) = TRUE BY <1>2
 <2>2. measured'[q] = Append(measured[q], TRUE) BY <2>1
 <2>3. \A i \in DOMAIN measured[q] : measured[q][i] = TRUE BY <1>1, <1>2 DEF Published, OfIntactBuild
 <2> DEFINE yes == TRUE
            older == measured[q]
            newer == measured'[q]
 <2>4. older \in Seq(BOOLEAN) /\ yes \in BOOLEAN /\ newer = Append(older, yes)
       /\ \A i \in DOMAIN older : older[i] = yes
   BY <1>1, <2>2, <2>3
 <2>5. \A i \in DOMAIN newer : newer[i] = yes
  <3> HIDE DEF yes, older, newer
  <3>1. DOMAIN newer = 1 .. Len(older) + 1 /\ DOMAIN older = 1 .. Len(older) BY <2>4
  <3>2. /\ newer[Len(older) + 1] = yes
        /\ \A i \in 1 .. Len(older) : newer[i] = older[i]
    BY <2>4
  <3>3. Len(older) \in Nat BY <2>4
  <3> QED BY ONLY <2>4, <3>1, <3>2, <3>3
 <2> QED BY <2>5 DEF OfIntactBuild
<1> QED BY <1>1, <1>2 DEF Published

\* A step publishes what the state says, of an intact build.
LEMMA PublishedStep ==
  ASSUME SuiteInv, Suite!Next
  PROVE  \A q \in Procs : Published(q)'
<1> SUFFICES ASSUME NEW q \in Procs PROVE Published(q)' OBVIOUS
<1>1. SuiteTyped /\ Published(q) /\ Placed(q) /\ Sampled(q) BY DEF SuiteInv, LocksHeld
<1>2. ASSUME NEW p \in Procs, Suite!Lease(p) PROVE Published(q)'
  BY <1>1, <1>2, PublishedFrame DEF SuiteTyped, Suite!Lease, Suite!At, Suite!Goto, Suite!Kept
<1>3. ASSUME NEW p \in Procs, Suite!Bind(p) PROVE Published(q)'
  BY <1>1, <1>3, PublishedFrame DEF SuiteTyped, Suite!Bind, Suite!At, Suite!Goto, Suite!Kept
<1>4. ASSUME NEW p \in Procs, Suite!Snapshots(p) PROVE Published(q)'
  BY <1>1, <1>4, PublishedFrame DEF SuiteTyped, Suite!Snapshots, Suite!At, Suite!Goto, Suite!Kept
<1>5. ASSUME NEW p \in Procs, Suite!LockMachine(p) PROVE Published(q)'
 <2>1. CASE p # q
   BY <1>1, <1>5, <2>1, PublishedFrame DEF SuiteTyped, Suite!LockMachine, Suite!At, Suite!Goto, Suite!Kept
 <2>2. CASE p = q
  <3>1. /\ pc[q] = "lock" /\ pc'[q] \in {"protocol", "verify"}
        /\ UNCHANGED <<build, intact, measured, run, result>>
    BY <1>1, <1>5, <2>2 DEF SuiteTyped, Suite!LockMachine, Suite!At, Suite!Goto, Suite!Kept
  <3>2. OfIntactBuild(q)' <=> OfIntactBuild(q) BY <3>1 DEF OfIntactBuild
  <3> QED BY <1>1, <3>1, <3>2 DEF Published, Placed
 <2> QED BY <2>1, <2>2
<1>6. ASSUME NEW p \in Procs, Suite!Invoke(p) PROVE Published(q)'
 <2>1. /\ state' = [state EXCEPT ![p] = state'[p]] /\ pc' = [pc EXCEPT ![p] = pc'[p]]
       /\ measured' = [measured EXCEPT ![p] = Append(measured[p], build[p] \in intact)]
       /\ UNCHANGED <<kind, build, intact, run, result>>
       /\ pc[p] = "protocol" /\ pc'[p] \in {"protocol", "scratch"}
   BY <1>6, InvokeEffect
 <2>2. CASE p # q
  <3>1. state'[q] = state[q] /\ measured'[q] = measured[q] /\ pc'[q] = pc[q]
   <4>1. /\ \A t : [state EXCEPT ![p] = t][q] = state[q]
         /\ \A t : [measured EXCEPT ![p] = t][q] = measured[q]
         /\ \A t : [pc EXCEPT ![p] = t][q] = pc[q]
     BY <1>1, <2>2 DEF SuiteTyped
   <4>2. /\ \E t : state' = [state EXCEPT ![p] = t]
         /\ \E t : measured' = [measured EXCEPT ![p] = t]
         /\ \E t : pc' = [pc EXCEPT ![p] = t]
     BY ONLY <2>1, Zenon
   <4> QED BY ONLY <4>1, <4>2
  <3> QED BY <1>1, <2>1, <3>1, PublishedFrame
 <2>3. CASE p = q
  <3>1. measured'[q] = Append(measured[q], build[q] \in intact)
   <4> DEFINE m == Append(measured[q], build[q] \in intact)
   <4>1. measured' = [measured EXCEPT ![q] = m] BY <2>1, <2>3
   <4> HIDE DEF m
   <4>2. measured'[q] = m BY <1>1, <4>1 DEF SuiteTyped
   <4> QED BY <4>2 DEF m
  <3> QED BY <2>1, <2>3, <3>1, PublishedSampling
 <2> QED BY <2>2, <2>3
<1>7. ASSUME NEW p \in Procs, Suite!IntegrityFails(p) PROVE Published(q)'
 <2>1. CASE p # q
   BY <1>1, <1>7, <2>1, PublishedFrame DEF SuiteTyped, Suite!IntegrityFails, Suite!At, Suite!Goto, Suite!Kept
 <2>2. CASE p = q
  <3>1. /\ pc[q] = "protocol" /\ pc'[q] \in {"scratch"}
        /\ UNCHANGED <<build, intact, measured, run, result>>
    BY <1>1, <1>7, <2>2 DEF SuiteTyped, Suite!IntegrityFails, Suite!At, Suite!Goto, Suite!Kept
  <3>2. OfIntactBuild(q)' <=> OfIntactBuild(q) BY <3>1 DEF OfIntactBuild
  <3> QED BY <1>1, <3>1, <3>2 DEF Published, Placed
 <2> QED BY <2>1, <2>2
<1>8. ASSUME NEW p \in Procs, Suite!Protocol(p) PROVE Published(q)'
 <2>1. CASE p # q BY <1>1, <1>8, <2>1, PublishedFrame DEF SuiteTyped, Suite!Protocol, Suite!At, Suite!Goto, Suite!Kept
 <2>2. CASE p = q
   BY <1>1, <1>8, <2>2, PublishedSampling DEF SuiteTyped, Suite!Protocol, Suite!At, Suite!Goto, Suite!Kept
 <2> QED BY <2>1, <2>2
<1>9. ASSUME NEW p \in Procs, Suite!Scratch(p) PROVE Published(q)'
  BY <1>1, <1>9, PublishedFrame DEF SuiteTyped, Suite!Scratch, Suite!At, Suite!Goto, Suite!Kept
<1>10. ASSUME NEW p \in Procs, Suite!Verify(p) PROVE Published(q)'
 <2>1. CASE p # q \/ build[p] \notin intact
   BY <1>1, <1>10, <2>1, PublishedFrame DEF SuiteTyped, Suite!Verify, Suite!At, Suite!Goto, Suite!Kept, Suite!Escape,
     Suite!StillIntact
 <2>2. CASE p = q /\ build[p] \in intact
  <3>1. /\ pc[q] = "verify" /\ pc'[q] = "publish"
        /\ UNCHANGED <<kind, build, intact, state, measured, run, result>>
    BY <1>1, <1>10, <2>2 DEF SuiteTyped, Suite!Verify, Suite!At, Suite!Goto, Suite!Kept, Suite!Escape,
      Suite!StillIntact
  <3>2. OfIntactBuild(q) /\ (OfIntactBuild(q)' <=> OfIntactBuild(q)) BY <1>1, <2>2, <3>1 DEF Published, OfIntactBuild
  <3> QED BY <1>1, <3>1, <3>2 DEF Published, Placed
 <2> QED BY <2>1, <2>2
<1>11. ASSUME NEW p \in Procs, Suite!Publish(p) PROVE Published(q)'
 <2>1. CASE p # q BY <1>1, <1>11, <2>1, PublishedFrame DEF SuiteTyped, Suite!Publish, Suite!At, Suite!Goto, Suite!Kept
 <2>2. CASE p = q
  <3>1. /\ pc[q] = "publish" /\ pc'[q] = "unlock"
        /\ UNCHANGED <<kind, build, intact, state, measured, run>>
    BY <1>1, <1>11, <2>2 DEF SuiteTyped, Suite!Publish, Suite!At, Suite!Goto, Suite!Kept
  <3>2. result' = [result EXCEPT ![q] = ResultOf(state[q])] BY <1>11, <2>2 DEF Suite!Publish, ResultOf
  <3>3. result'[q] = ResultOf(state[q]) BY <1>1, <3>2 DEF SuiteTyped
  <3>4. /\ OfIntactBuild(q) /\ (OfIntactBuild(q)' <=> OfIntactBuild(q))
        /\ Complete(q)' <=> Complete(q)
        /\ ResultOf(state[q])' = ResultOf(state[q])
    BY <1>1, <3>1 DEF Published, OfIntactBuild, Complete, ResultOf
  <3>5. run[q] = "active" /\ (state[q].reason = "passed" => Complete(q)) BY <1>1, <3>1 DEF Placed, Sampled
  <3> QED BY <3>1, <3>3, <3>4, <3>5 DEF Published
 <2> QED BY <2>1, <2>2
<1>12. ASSUME NEW p \in Procs, Suite!Unlock(p) PROVE Published(q)'
  BY <1>1, <1>12, PublishedFrame DEF SuiteTyped, Suite!Unlock, Suite!At, Suite!Goto, Suite!Kept
<1>13. ASSUME NEW p \in Procs, Suite!Finalize(p) PROVE Published(q)'
 <2>1. CASE p # q
   BY <1>1, <1>13, <2>1, PublishedFrame DEF SuiteTyped, Suite!Finalize, Suite!At, Suite!Goto, Suite!Kept,
     Suite!OutcomeOf
 <2>2. CASE p = q
  <3>1. /\ pc[q] = "finalize" /\ pc'[q] = "release"
        /\ UNCHANGED <<kind, build, intact, state, measured, result>>
        /\ run'[q] = "SUCCESS" => result[q].status = "passed"
    BY <1>1, <1>13, <2>2 DEF SuiteTyped, Suite!Finalize, Suite!At, Suite!Goto, Suite!Kept, Suite!OutcomeOf
  <3>2. /\ OfIntactBuild(q)' <=> OfIntactBuild(q)
        /\ Complete(q)' <=> Complete(q)
        /\ ResultOf(state[q])' = ResultOf(state[q])
    BY <3>1 DEF OfIntactBuild, Complete, ResultOf
  <3>3. result[q].status = "passed" => result[q] # Suite!NoResult BY DEF Suite!NoResult
  <3> QED BY <1>1, <3>1, <3>2, <3>3 DEF Published
 <2> QED BY <2>1, <2>2
<1>14. ASSUME NEW p \in Procs, Suite!Release(p) PROVE Published(q)'
  BY <1>1, <1>14, PublishedFrame DEF SuiteTyped, Suite!Release, Suite!At, Suite!Goto, Suite!Kept
<1>15. ASSUME NEW p \in Procs, Suite!Raise(p) PROVE Published(q)'
  BY <1>1, <1>15, PublishedFrame DEF SuiteTyped, Suite!Raise, Suite!At, Suite!Goto, Suite!Kept, Suite!Escape,
    Suite!Troubled
<1>16. ASSUME NEW p \in Procs, Suite!Kill(p) PROVE Published(q)'
  BY <1>1, <1>16, PublishedFrame DEF SuiteTyped, Suite!Kill, Suite!At, Suite!Goto, Suite!Kept, Suite!Troubled
<1>17. ASSUME NEW p \in Procs, Suite!Recover(p) PROVE Published(q)'
  BY <1>1, <1>17, PublishedFrame DEF SuiteTyped, Suite!Recover, Suite!At, Suite!Goto, Suite!Kept
<1>18. ASSUME NEW b \in Builds, Suite!BuildChanges(b) PROVE Published(q)'
  BY <1>1, <1>18, PublishedFrame DEF Suite!BuildChanges
<1> QED BY <1>2, <1>3, <1>4, <1>5, <1>6, <1>7, <1>8, <1>9, <1>10, <1>11, <1>12, <1>13, <1>14, <1>15, <1>16,
     <1>17, <1>18
     DEF Suite!Next, Suite!Step

----------------------------------------
(* What holds of suites and capsules *)

\* Before the first step
LEMMA SuiteStarts ==
  ASSUME Suite!Init
  PROVE  SuiteInv
<1>1. /\ \A p \in Procs : /\ pc[p] = "start" /\ run[p] = "none" /\ state[p] = Suite!Nothing
                          /\ result[p] = Suite!NoResult /\ measured[p] = << >>
      /\ lease = {} /\ machine = {}
  BY DEF Suite!Init
<1>2. SuiteTyped BY NothingIsInPlan DEF Suite!Init, SuiteTyped, Steps
<1>3. LocksHeld BY <1>1 DEF LocksHeld, Placed
<1>4. \A p \in Procs : Sampled(p) BY <1>1, <1>2, NothingIsInPlan DEF Sampled, SuiteTyped
<1>5. \A p \in Procs : Published(p) BY <1>1 DEF Published, OfIntactBuild
<1> QED BY <1>2, <1>3, <1>4, <1>5 DEF SuiteInv

\* When nothing happens
LEMMA SuiteStutters ==
  ASSUME SuiteInv, UNCHANGED Suite!vars
  PROVE  SuiteInv'
BY DEF SuiteInv, Suite!vars, SuiteTyped, LocksHeld, Placed, Sampled, Published, Complete, OfIntactBuild, InPlan,
  Shown, AllPass, ResultOf

\* Every step keeps the invariant.
LEMMA SuiteSteps ==
  ASSUME SuiteInv, Suite!Next
  PROVE  SuiteInv'
BY TypedStep, LocksStep, SampledStep, PublishedStep DEF SuiteInv

\* The invariant of suites and capsules: SuiteRun's locks, samples and results stay as SuiteInv
\* says, whoever is interrupted where.
THEOREM SuiteInvariance == Spec => [](system = "suite" => SuiteInv)
<1>1. Init => (system = "suite" => SuiteInv) BY SuiteStarts DEF Init
<1>2. (system = "suite" => SuiteInv) /\ [Next]_vars => (system = "suite" => SuiteInv)'
 <2> SUFFICES ASSUME system = "suite" => SuiteInv, [Next]_vars, system' = "suite"
              PROVE  SuiteInv'
   OBVIOUS
 <2>1. CASE UNCHANGED vars
  <3>1. system = "suite" /\ UNCHANGED Suite!vars BY <2>1 DEF vars, suiteVars, Suite!vars
  <3> QED BY <3>1, SuiteStutters
 <2>2. CASE Next
  <3>1. Suite!Next /\ system = "suite" BY <2>2 DEF Next
  <3> QED BY <3>1, SuiteSteps
 <2> QED BY <2>1, <2>2
<1> QED BY <1>1, <1>2, PTL DEF Spec

\* The counts of a plan are within the manifest, and so are its projections.
LEMMA PlanIsBounded ==
  ASSUME NEW s \in States, InPlan(s)
  PROVE  /\ s.warmups \in 0 .. WarmupRuns
         /\ \A i \in DOMAIN s.measurements :
              s.measurements[i].index \in 1 .. Windows /\ s.measurements[i].phase = "measurement"
<1>1. /\ s.samples \in Seq(Samples) /\ Len(s.samples) \in Nat /\ s.measurements \in Seq(Items)
      /\ Len(s.measurements) \in Nat /\ DOMAIN s.measurements = 1 .. Len(s.measurements)
  BY DEF States
<1>2. s.warmups \in 0 .. WarmupRuns /\ s.windows <= WindowRuns /\ s.windows \in Nat
 <2>1. /\ Len(s.samples) <= CorrectnessRuns + WarmupRuns + WindowRuns
       /\ s.warmups = WarmupsIn(Len(s.samples)) /\ s.windows = WindowsIn(Len(s.samples))
   BY ScheduleShape DEF InPlan
 <2> QED BY <1>1, <2>1, RunCounts DEF WarmupsIn, WindowsIn
<1>3. ASSUME NEW i \in DOMAIN s.measurements
      PROVE  s.measurements[i].index \in 1 .. Windows /\ s.measurements[i].phase = "measurement"
 <2>1. Len(s.measurements) <= s.windows BY DEF InPlan
 <2>2. i \in 1 .. WindowRuns BY <1>1, <1>2, <2>1, RunCounts
 <2>3. s.measurements[i] = Suite!Item("llama-bench", "measurement", WindowOf(i), CaseOf(i))
   BY <2>2, ScheduleShape DEF InPlan
 <2>4. WindowOf(i) \in 1 .. Windows BY <2>2, PlannedCaseShape
 <2> QED BY ONLY <2>3, <2>4 DEF Suite!Item
<1> QED BY <1>2, <1>3

\* One protocol has the machine.
LEMMA GuardedMachine ==
  ASSUME SuiteInv
  PROVE  Suite!TypeOK /\ Suite!LocksAreNested /\ Suite!MachineIsExclusive
<1>1. SuiteTyped /\ LocksHeld /\ \A p \in Procs : Sampled(p) BY DEF SuiteInv
<1>2. Suite!TypeOK
 <2>1. ASSUME NEW p \in Procs
       PROVE  /\ state[p].reason \in Suite!Reasons /\ state[p].warmups \in 0 .. WarmupRuns
              /\ \A i \in DOMAIN state[p].measurements :
                   /\ state[p].measurements[i].index \in 1 .. Windows
                   /\ state[p].measurements[i].phase = "measurement"
  <3>1. state[p] \in States /\ InPlan(state[p]) BY <1>1 DEF SuiteTyped, Sampled
  <3> QED BY <3>1, PlanIsBounded DEF States
 <2>2. ASSUME NEW p \in Procs PROVE Len(measured[p]) <= Len(Suite!Schedule)
  <3>1. CASE kind[p] = "suite" BY <1>1, <3>1 DEF Sampled, InPlan
  <3>2. CASE kind[p] = "capsule"
   <4>1. Len(measured[p]) <= 1 /\ Len(measured[p]) \in Nat BY <1>1, <3>2 DEF Sampled, SuiteTyped
   <4> QED BY <4>1, ScheduleShape, RunCounts
  <3> QED BY <1>1, <3>1, <3>2 DEF SuiteTyped
 <2> QED BY <1>1, <2>1, <2>2 DEF Suite!TypeOK, SuiteTyped, Steps, WarmupRuns
<1>3. Suite!LocksAreNested BY <1>1 DEF Suite!LocksAreNested, LocksHeld, Placed, SuiteTyped, Suite!At, Steps
<1>4. Suite!MachineIsExclusive
 <2> DEFINE at == {p \in Procs : pc[p] \in {"protocol", "scratch"}}
 <2>1. \A p, q \in at : p = q BY <1>1 DEF LocksHeld, Placed
 <2>2. at = {} \/ \E p : at = {p} BY <2>1
 <2>3. Suite!Cardinality(at) <= 1
  <3> HIDE DEF at
  <3> QED
   <4>1. Cardinality(at) \in {0, 1} BY <2>2, FS_EmptySet, FS_Singleton
   <4>2. Suite!Cardinality(at) = Cardinality(at) BY SameCardinality
   <4> QED BY <4>1, <4>2
 <2> QED BY <1>1, <2>3 DEF Suite!MachineIsExclusive, Sampled
<1> QED BY <1>2, <1>3, <1>4

\* What the reader of a suite recomputes of a complete success is what is there.
LEMMA SuccessLoads ==
  ASSUME SuiteInv, NEW p \in Procs, kind[p] = "suite", run[p] = "SUCCESS"
  PROVE  Suite!Loads(p)
<1> DEFINE s == state[p]
<1>1. /\ result[p] # Suite!NoResult /\ result[p] = ResultOf(s) /\ s \in States /\ InPlan(s) /\ Shown(s)
      /\ result[p].status = "passed" /\ (s.reason = "passed" => Complete(p))
  BY DEF SuiteInv, SuiteTyped, Sampled, Published
<1>2. s.reason = "passed" /\ Len(s.samples) = Len(Suite!Schedule) /\ AllPass(s)
 <2>1. s.reason = "passed" BY <1>1 DEF ResultOf
 <2> QED BY <1>1, <2>1 DEF Complete, Shown
<1>3. /\ result[p].reason = "passed" /\ result[p].samples = s.samples /\ result[p].measurements = s.measurements
      /\ result[p].warmups = s.warmups /\ result[p].windows = s.windows
  BY <1>1, <1>2 DEF ResultOf
<1>4. s.warmups = WarmupRuns /\ s.windows = WindowRuns /\ Len(s.measurements) = WindowRuns
 <2>1. /\ s.warmups = WarmupsIn(CorrectnessRuns + WarmupRuns + WindowRuns)
       /\ s.windows = WindowsIn(CorrectnessRuns + WarmupRuns + WindowRuns)
       /\ Len(s.measurements) = s.windows
   BY <1>1, <1>2, ScheduleShape DEF InPlan
 <2> QED BY <2>1, RunCounts DEF WarmupsIn, WindowsIn
<1>5. DOMAIN s.measurements = 1 .. WindowRuns /\ DOMAIN s.samples = DOMAIN Suite!Schedule
  BY <1>1, <1>2, <1>4, ScheduleShape DEF States
<1>6. Suite!BoundToManifest(result[p]) BY <1>1, <1>3, <1>4 DEF Suite!BoundToManifest, WarmupRuns, WindowRuns
<1>7. Suite!Projected(result[p]) /\ Suite!CoordinatesCover(result[p])
 <2>1. \A i \in 1 .. WindowRuns : s.measurements[i] = Suite!Schedule[CorrectnessRuns + WarmupRuns + i]
   BY <1>1, <1>5 DEF InPlan
 <2> HIDE DEF s
 <2> QED BY <1>3, <1>4, <1>5, <2>1, OrderedProjections
<1>8. Suite!Reauthenticated(result[p])
 <2>1. ASSUME NEW i \in DOMAIN Suite!Schedule
       PROVE  /\ s.samples[i].item = Suite!Schedule[i] /\ Suite!Category(s.samples[i]) = "success"
              /\ Suite!Passes(s.samples[i])
  <3>1. s.samples[i].item = Suite!Schedule[i] /\ Suite!Passes(s.samples[i]) BY <1>1, <1>2, <1>5 DEF InPlan, AllPass
  <3>2. Suite!Category(s.samples[i]) = "success" BY <3>1 DEF Suite!Passes, Suite!PromptPasses
  <3> QED BY <3>1, <3>2
 <2> HIDE DEF s
 <2> QED BY <1>2, <1>3, <1>7, <2>1 DEF Suite!Reauthenticated
<1> QED BY <1>1, <1>6, <1>7, <1>8 DEF Suite!Loads

\* A result is true to the samples.
LEMMA TruthfulResult ==
  ASSUME SuiteInv
  PROVE  Suite!SuccessIsEarned /\ Suite!SuccessIsLoadable /\ Suite!ReasonIsTruthful
<1>1. Suite!SuccessIsEarned
 <2> SUFFICES ASSUME NEW p \in Procs, run[p] = "SUCCESS"
              PROVE  /\ \A i \in DOMAIN measured[p] : measured[p][i]
                     /\ IF kind[p] = "suite" THEN Len(measured[p]) = Len(Suite!Schedule) ELSE Len(measured[p]) = 1
   BY DEF Suite!SuccessIsEarned
 <2>1. /\ result[p] # Suite!NoResult /\ result[p].status = "passed" /\ result[p] = ResultOf(state[p])
       /\ OfIntactBuild(p) /\ (state[p].reason = "passed" => Complete(p)) /\ Sampled(p)
   BY DEF SuiteInv, Published
 <2>2. Complete(p) BY <2>1 DEF ResultOf
 <2>3. IF kind[p] = "suite" THEN Len(measured[p]) = Len(Suite!Schedule) ELSE Len(measured[p]) = 1
   BY <2>1, <2>2 DEF Complete, Sampled
 <2>4. \A i \in DOMAIN measured[p] : measured[p][i] BY <2>1 DEF OfIntactBuild
 <2> QED BY <2>3, <2>4
<1>2. Suite!SuccessIsLoadable BY SuccessLoads DEF Suite!SuccessIsLoadable
<1>3. Suite!ReasonIsTruthful
 <2> SUFFICES ASSUME NEW p \in Procs, kind[p] = "suite", result[p] # Suite!NoResult
              PROVE  LET s  == result[p].samples
                         k  == Len(s)
                         ok == \A i \in DOMAIN s : Suite!Passes(s[i]) IN
                       CASE result[p].reason = "passed" -> k = Len(Suite!Schedule) /\ ok
                         [] result[p].reason = "lock-unavailable" -> k = 0
                         [] result[p].reason = "integrity-failed" -> k < Len(Suite!Schedule) /\ ok
                         [] OTHER -> /\ k > 0 /\ ~Suite!Passes(s[k])
                                     /\ result[p].reason = Suite!FailureOf(s[k].item)
                                     /\ \A i \in 1 .. k - 1 : Suite!Passes(s[i])
   BY DEF Suite!ReasonIsTruthful
 <2>1. /\ result[p] = ResultOf(state[p]) /\ Shown(state[p])
       /\ state[p].reason = "passed" => Len(state[p].samples) = Len(Suite!Schedule)
   BY DEF SuiteInv, Published, Sampled, Complete
 <2>2. result[p].reason = state[p].reason /\ result[p].samples = state[p].samples BY <2>1 DEF ResultOf
 <2> QED BY <2>1, <2>2 DEF Shown, AllPass
<1> QED BY <1>1, <1>2, <1>3

\* Every step of a suite opens a run, decides it once, or leaves it.
LEMMA LifecycleStep ==
  ASSUME SuiteInv, Suite!Next, NEW q \in Procs
  PROVE  Suite!Lifecycle(q)!Next \/ UNCHANGED Suite!Lifecycle(q)!vars
<1>1. SuiteTyped /\ LocksHeld /\ Placed(q) BY DEF SuiteInv, LocksHeld
<1>2. \/ run'[q] = run[q]
      \/ run[q] = "none" /\ run'[q] = "active"
      \/ run[q] = "active" /\ run'[q] \in {"SUCCESS", "FAILURE", "INTERRUPTED"}
 <2>1. ASSUME NEW p \in Procs, Suite!Bind(p)
       PROVE  \/ run'[q] = run[q]
              \/ run[q] = "none" /\ run'[q] = "active"
              \/ run[q] = "active" /\ run'[q] \in {"SUCCESS", "FAILURE", "INTERRUPTED"}
  <3>1. Placed(p) BY DEF SuiteInv, LocksHeld
  <3> QED BY <1>1, <2>1, <3>1 DEF SuiteTyped, Placed, Suite!Bind, Suite!At, Suite!Goto, Suite!Kept
 <2>2. ASSUME NEW p \in Procs, Suite!Finalize(p)
       PROVE  \/ run'[q] = run[q]
              \/ run[q] = "none" /\ run'[q] = "active"
              \/ run[q] = "active" /\ run'[q] \in {"SUCCESS", "FAILURE", "INTERRUPTED"}
  <3>1. Placed(p) BY DEF SuiteInv, LocksHeld
  <3> QED BY <1>1, <2>2, <3>1 DEF SuiteTyped, Placed, Suite!Finalize, Suite!At, Suite!Goto, Suite!Kept,
    Suite!OutcomeOf
 <2>3. ASSUME NEW p \in Procs, Suite!Recover(p)
       PROVE  \/ run'[q] = run[q]
              \/ run[q] = "none" /\ run'[q] = "active"
              \/ run[q] = "active" /\ run'[q] \in {"SUCCESS", "FAILURE", "INTERRUPTED"}
  <3>1. Placed(p) BY DEF SuiteInv, LocksHeld
  <3> QED BY <1>1, <2>3, <3>1 DEF SuiteTyped, Placed, Suite!Recover, Suite!At, Suite!Goto, Suite!Kept
 <2>4. ASSUME NEW p \in Procs,
                \/ Suite!Lease(p)
                \/ Suite!Snapshots(p)
                \/ Suite!LockMachine(p)
                \/ Suite!Invoke(p)
                \/ Suite!IntegrityFails(p)
                \/ Suite!Protocol(p)
                \/ Suite!Scratch(p)
                \/ Suite!Verify(p)
                \/ Suite!Publish(p)
                \/ Suite!Unlock(p)
                \/ Suite!Release(p)
                \/ Suite!Raise(p)
                \/ Suite!Kill(p)
       PROVE  run' = run
   BY <2>4 DEF Suite!Lease, Suite!Snapshots, Suite!LockMachine, Suite!Invoke, Suite!IntegrityFails, Suite!Protocol,
     Suite!Scratch, Suite!Verify, Suite!Publish, Suite!Unlock, Suite!Release, Suite!Raise, Suite!Kill
 <2>5. ASSUME NEW b \in Builds, Suite!BuildChanges(b) PROVE run' = run BY <2>5 DEF Suite!BuildChanges
 <2> QED BY <2>1, <2>2, <2>3, <2>4, <2>5 DEF Suite!Next, Suite!Step
<1>3. CASE run'[q] = run[q] BY <1>3 DEF Suite!Lifecycle!vars
<1>4. CASE run[q] = "none" /\ run'[q] = "active" BY <1>4 DEF Suite!Lifecycle!Next, Suite!Lifecycle!Open
<1>5. CASE run[q] = "active" /\ run'[q] \in {"SUCCESS", "FAILURE", "INTERRUPTED"}
  BY <1>5 DEF Suite!Lifecycle!Next, Suite!Lifecycle!Seal
<1> QED BY <1>2, <1>3, <1>4, <1>5

\* MachineIsGuarded: types, nesting of the locks and exclusion on the machine, for every number of
\* processes and builds and every interruption.
THEOREM MachineGuarded == Spec => []MachineIsGuarded
<1>1. (system = "suite" => SuiteInv) => MachineIsGuarded BY GuardedMachine DEF MachineIsGuarded
<1> QED BY <1>1, SuiteInvariance, PTL

\* SuiteResultIsTruthful: a success measured nothing but its build and is accepted by
\* load_finalized_suite_snapshot, and a failure names the sample that failed, for every manifest.
THEOREM SuiteTruthful == Spec => []SuiteResultIsTruthful
<1>1. (system = "suite" => SuiteInv) => SuiteResultIsTruthful BY TruthfulResult DEF SuiteResultIsTruthful
<1> QED BY <1>1, SuiteInvariance, PTL

\* RunsImplementLifecycle: each run is a RunLifecycle, opened once and decided once.
THEOREM LifecyclesKept == Spec => RunsImplementLifecycle
<1> DEFINE Moves == system = "suite" =>
              \A p \in Procs : Suite!Lifecycle(p)!Next \/ UNCHANGED Suite!Lifecycle(p)!vars
<1>1. Init => (system = "suite" => \A p \in Procs : Suite!Lifecycle(p)!Init)
  BY DEF Init, Suite!Init, Suite!Lifecycle!Init
<1>2. (system = "suite" => SuiteInv) /\ [Next]_vars => [Moves]_vars
 <2> SUFFICES ASSUME system = "suite" => SuiteInv, Next, system = "suite" PROVE Moves OBVIOUS
 <2>1. Suite!Next BY DEF Next
 <2> QED BY <2>1, LifecycleStep
<1> QED BY <1>1, <1>2, SuiteInvariance, PTL DEF Spec, RunsImplementLifecycle

----------------------------------------
(* The invariant of one capsule *)

\* What texts, entries and phase results are made of; a text quotes only texts that quote none.
Observations == [c : Coordinates, passed : BOOLEAN]
Words        == {"", "json", "text", "control", "binary", "ambient secret", "child secret", "response",
                 "request", "process", "build", "machine", "withheld", "unavailable"}
Ops          == {"describe", "correctness", "benchmark"}
Sayings      == [is : Words, op : Ops \cup {""}, coords : Seq(Observations), prior : {<< >>}]
Texts        == [is : Words, op : Ops \cup {""}, coords : Seq(Observations), prior : Seq(Sayings)]
Outcomes     == {"exited", "timed_out", "spawn_failed", "capture_failed"}
Codes        == {"0", "1", "none"}
Returns      == [outcome : Outcomes, code : Codes, out : [text : Sayings, complete : BOOLEAN],
                 err : [text : Texts, complete : BOOLEAN], spoolError : BOOLEAN]
Categories   == {"none", "capture-failed", "spawn-failed", "timed-out", "nonzero-exit", "incomplete-capture"}
PhaseResults == [op : Ops, request : Texts, outcome : Outcomes, code : Codes, category : Categories,
                 complete : BOOLEAN, failure : {"none", "process", "unsafe", "response"}, answer : Seq(Sayings)]
EntryNames   == {"build.json", "machine.json", "request.json", "process.json", "stdout.json", "stdout.txt",
                 "stdout-unavailable.txt", "stderr.txt"}
Media        == {"application/json", "text/plain"}
Entries      == [path : (Ops \cup {"capsule"}) \X EntryNames, text : Texts, media : Media]

\* Where a run is in each of its context managers
Before  == {"lease", "bind", "begin", "inputs"}
InPhase == {"preflight", "check", "start", "collect", "conclude", "terminal", "authenticate"}
Closing == {"verify", "publish"}
Leaving == {"unlock", "finish", "release", "done"}
CapsuleStages == Before \cup InPhase \cup Closing \cup Leaving \cup {"write", "lock", "scratch", "unscratch"}

\* Every variable has a value of its kind; a process has an exit code unless it was not spawned.
CapsuleTyped ==
  /\ inputs \in Texts \X Texts /\ n \in 1 .. 3
  /\ pc \in CapsuleStages
  /\ raised \in BOOLEAN /\ disturbed \in BOOLEAN /\ leased \in BOOLEAN /\ locked \in BOOLEAN
  /\ scratch \in BOOLEAN /\ run \in {"none", "active", "success", "failure"}
  /\ exe \in [good : BOOLEAN, file : Nat] /\ hashed \in Nat /\ trouble \in 0 .. MaxCapsuleTrouble
  /\ child # Capsule!None => child \in Returns /\ (child.outcome = "spawn_failed" <=> child.code = "none")
  /\ ran \subseteq Ops /\ undone \subseteq Ops
  /\ todo \in Seq(Entries) /\ phases \in Seq(PhaseResults) /\ answers \in Seq(Sayings)

\* Lease, run, lock and scratch files are held where the step is inside of them, and an exception
\* is on its way out.
Ordered ==
  /\ leased <=> pc \notin {"lease", "done"}
  /\ pc \in {"lease", "bind", "begin"} => run = "none"
  /\ pc \notin {"lease", "bind", "begin", "release", "done"} => run = "active"
  /\ pc \in {"release", "done"} => run # "active"
  /\ pc \in Before \cup {"lock", "finish", "release", "done"} => ~locked
  /\ pc \in InPhase \cup {"scratch", "unscratch"} => locked
  /\ pc \in Before \cup Closing \cup {"lock", "scratch"} => ~scratch
  /\ pc \in InPhase \cup {"unscratch"} => scratch
  /\ pc = "write" => (locked <=> scratch)
  /\ pc \in Leaving /\ scratch => disturbed
  /\ raised => pc \in Leaving \cup {"unscratch"}

\* Each copy put back is another file, for which one was put there before; and a child of another
\* executable is caught, unless the swap was undone without a trace while it ran.
ExecutableKnown ==
  /\ exe.file + (IF exe.good THEN 0 ELSE 1) <= trouble /\ hashed <= exe.file
  /\ pc = "collect" /\ Capsule!Op \in ran \ undone /\ exe.good => hashed < exe.file

\* The request of the i-th operation
RequestAt(i) ==
  IF i = 1 THEN Capsule!Text("request", "describe", << >>, << >>)
    ELSE Capsule!Text("request", Capsule!Operations[i], answers[1].coords, <<answers[i - 1]>>)

\* The i-th phase result is of the i-th operation, is accepted by its models, and when its answer
\* was accepted it is that answer.
PhaseInOrder(i) ==
  /\ phases[i].op = Capsule!Operations[i] /\ phases[i].request = RequestAt(i)
  /\ Capsule!ExactCategory(phases[i]) /\ Capsule!AcceptedDigest(phases[i])
  /\ Len(phases[i].answer) <= 1
  /\ i <= Len(answers) => phases[i].failure = "none" /\ phases[i].answer = <<answers[i]>>

\* The i-th answer is of the coordinates of the first.
Covers(i) == Capsule!Names(answers[i].coords) = Capsule!Names(answers[1].coords)

AllPassed == \A i \in DOMAIN answers[2].coords : answers[2].coords[i].passed

\* The phases are those of the operations in order, all but the last have done what the next one
\* needs, and a protocol result is the judgement of them.
InOrder ==
  /\ Len(phases) \in {n - 1, n} /\ Len(answers) \in {n - 1, n} /\ Len(answers) <= Len(phases)
  /\ \A i \in DOMAIN phases : PhaseInOrder(i)
  /\ \A i \in 1 .. n - 1 : Covers(i)
  /\ n = 3 => AllPassed
  /\ result # Capsule!NoResult =>
       /\ Len(phases) = n /\ Capsule!Judged /\ result = Capsule!Terminal
       /\ Capsule!Reason = Capsule!Passed => n = 3

\* How far the operation is at each step
Counted ==
  /\ pc \in Before \cup {"lock", "scratch", "preflight", "check", "start", "collect"} => Len(phases) = n - 1
  /\ pc \in Before \cup {"lock", "scratch", "preflight"} => n = 1
  /\ pc = "write" => Len(phases) = (IF locked THEN n ELSE n - 1) /\ Len(answers) = n - 1
  /\ pc = "write" /\ ~locked => n = 1
  /\ pc \in {"conclude", "terminal", "authenticate"} => Len(phases) = n
  /\ pc \in Before \cup InPhase \cup {"write", "lock", "scratch"} =>
       (result # Capsule!NoResult <=> pc \in {"terminal", "authenticate"})
  /\ pc \in Closing => (result # Capsule!NoResult <=> locked)
  /\ pc = "unscratch" /\ ~raised => result # Capsule!NoResult
  /\ child # Capsule!None =>
       (pc = "write" /\ locked) \/ (pc = "unscratch" /\ raised) \/ pc \in {"collect", "conclude"} \cup Leaving
  /\ pc = "collect" => child # Capsule!None

\* The texts at a path in a set of entries, and the entries that stand for the output of an operation
TextsAt(path, entries) == {e.text : e \in {f \in entries : f.path = path}}
OutputOf(op, entries) ==
  {e \in entries : e.path[1] = op /\ e.path[2] \notin {"request.json", "process.json", "stderr.txt"}}

\* The evidence of the i-th phase is among the entries.
Evidenced(i, entries) ==
  LET op == Capsule!Operations[i] IN
    /\ TextsAt(<<op, "request.json">>, entries) = {phases[i].request}
    /\ TextsAt(<<op, "process.json">>, entries) # {}
    /\ Capsule!ToSet(phases[i].answer) \subseteq TextsAt(<<op, "stdout.json">>, entries)
    /\ \E only : OutputOf(op, entries) = {only}

ProtocolResult == Capsule!Published("protocol", "result.json")
CapsuleResult  == Capsule!Published("capsule", "result.json")

\* What is published: entries free of secrets, none before both inputs were looked at, those of all
\* phases before this one and of none to come, and a protocol result of its own.
Witnessed ==
  /\ \A e \in portable :
       /\ e.media \in Media /\ Capsule!Safe(e.text)
       /\ e.path[1] \in Ops \cup {"capsule", "protocol"}
  /\ portable # {} => Capsule!Preflight
  /\ \A i \in 1 .. 3 : i > Len(phases) => \A e \in portable : e.path[1] # Capsule!Operations[i]
  /\ \A i \in 1 .. n - 1 : Evidenced(i, portable)
  /\ ProtocolResult # {} => result # Capsule!NoResult /\ ProtocolResult = {Capsule!ResultText(result)}

\* Entries published, and those of the artifacts still to be published
Settled == portable \cup Capsule!ToSet(todo)

Inputs == Capsule!ToSet(Capsule!InputEntries)

\* The artifacts in hand are safe, and of the operation or the inputs.
InHand ==
  \A e \in Capsule!ToSet(todo) :
    Capsule!Safe(e.text) /\ e.path[1] = IF locked THEN Capsule!Op ELSE "capsule"

\* What is published at each step
Staged ==
  /\ pc \in Closing \cup {"write", "lock"} \/ locked => Capsule!Preflight
  /\ pc = "write" => InHand /\ Inputs \subseteq Settled /\ (locked => Evidenced(n, Settled))
  /\ pc = "lock" \/ locked => Inputs \subseteq portable
  /\ pc = "conclude" \/ result # Capsule!NoResult => Evidenced(n, portable)
  /\ pc \in Before \cup InPhase \cup {"write", "lock", "scratch"} /\ pc # "authenticate" => ProtocolResult = {}
  /\ ~raised /\ result # Capsule!NoResult /\ pc \in Closing \cup {"authenticate", "unscratch", "unlock", "finish"} =>
       ProtocolResult # {}
  /\ pc \notin Leaving => CapsuleResult = {}
  /\ ~raised /\ pc \in {"unlock", "finish"} => CapsuleResult = {Capsule!EnclosingText(Capsule!EnclosingReason)}

\* A child of another executable leaves nothing, and the exception is on its way, unless the swap
\* was undone without a trace.
StrangersLeaveNothing ==
  \A op \in ran \ undone :
    /\ op = Capsule!Op /\ Len(phases) = n - 1 /\ ProtocolResult = {} /\ result = Capsule!NoResult
    /\ pc = "collect" \/ raised

\* What a run that succeeded has come to
Succeeded ==
  run = "success" =>
    /\ result # Capsule!NoResult /\ Capsule!Reason = Capsule!Passed
    /\ ProtocolResult = {Capsule!ResultText(result)}
    /\ CapsuleResult = {Capsule!EnclosingText("passed")}

CapsuleInv ==
  /\ CapsuleTyped /\ Ordered /\ ExecutableKnown /\ InOrder /\ Counted /\ Witnessed /\ Staged
  /\ StrangersLeaveNothing /\ Succeeded
----------------------------------------
(* Operations and texts *)

\* The three operations are different, and there is no other.
LEMMA OperationsAre ==
  /\ Capsule!Operations[1] = "describe" /\ Capsule!Operations[2] = "correctness"
  /\ Capsule!Operations[3] = "benchmark"
  /\ \A i \in 1 .. 3 : Capsule!Operations[i] \in Ops
  /\ \A i, j \in 1 .. 3 : Capsule!Operations[i] = Capsule!Operations[j] => i = j
  /\ Capsule!ToSet(Capsule!Operations) = Ops
<1>1. /\ Capsule!Operations[1] = "describe" /\ Capsule!Operations[2] = "correctness"
      /\ Capsule!Operations[3] = "benchmark"
      /\ DOMAIN Capsule!Operations = 1 .. 3
  BY DEF Capsule!Operations
<1>2. \A i \in 1 .. 3 : i = 1 \/ i = 2 \/ i = 3 OBVIOUS
<1> QED BY <1>1, <1>2 DEF Ops, Capsule!ToSet

\* The operation at hand is one of them.
LEMMA OpIs == ASSUME n \in 1 .. 3 PROVE Capsule!Op \in Ops /\ Capsule!Op = Capsule!Operations[n]
BY OperationsAre DEF Capsule!Op

\* The number of coordinates is a number.
LEMMA CoordinateCount == Capsule!Cardinality(Coordinates) \in Nat
<1>1. IsFiniteSet(Coordinates) BY MeasurementAssumption DEF Capsule!CapsuleAssumption, Capsule!IsFiniteSet, IsFiniteSet
<1>2. Capsule!Cardinality(Coordinates) = Cardinality(Coordinates) BY DEF Capsule!Cardinality, Cardinality
<1> QED BY <1>1, <1>2, FS_CardinalityType
\* A text that quotes none is a text.
LEMMA SayingsAreTexts == Sayings \subseteq Texts
<1>1. << >> \in Seq(Sayings) OBVIOUS
<1>2. {<< >>} \subseteq Seq(Sayings) BY <1>1
<1> QED BY <1>2 DEF Sayings, Texts

\* A text of a word quotes none.
LEMMA PlainIsSaying == ASSUME NEW word \in Words PROVE Capsule!Plain(word) \in Sayings
BY DEF Capsule!Plain, Capsule!Text, Sayings

\* The answers a child may give are texts.
LEMMA AnswersAreSayings == ASSUME n \in 1 .. 3 PROVE Capsule!Answers \subseteq Sayings
<1> DEFINE Card   == Capsule!Cardinality(Coordinates)
           yes    == TRUE
           Passes == IF n = 2 THEN BOOLEAN ELSE {yes}
           Seen   == {Capsule!Observed(c, p) : c \in Coordinates, p \in Passes}
           Listed == IF n = 1 THEN {[i \in DOMAIN s |-> Capsule!Observed(s[i], TRUE)] : s \in Capsule!Orders}
                       ELSE UNION {[1 .. k -> Seen] : k \in 1 .. Card}
<1>1. Capsule!Answers = {Capsule!Text("response", Capsule!Op, cs, << >>) : cs \in Listed} BY DEF Capsule!Answers
<1>1a. n = 1 => Listed = {[i \in DOMAIN s |-> Capsule!Observed(s[i], TRUE)] : s \in Capsule!Orders} OBVIOUS
<1>1b. n # 1 => Listed = UNION {[1 .. k -> Seen] : k \in 1 .. Card} OBVIOUS
<1>2. \A c \in Coordinates, p \in BOOLEAN : Capsule!Observed(c, p) \in Observations
  BY DEF Capsule!Observed, Observations
<1>3. ASSUME NEW k \in Nat, NEW f \in [1 .. k -> Observations] PROVE f \in Seq(Observations) OBVIOUS
<1>4. ASSUME NEW cs \in Listed PROVE cs \in Seq(Observations)
 <2>1. CASE n = 1
  <3>1. PICK s \in Capsule!Orders : cs = [i \in DOMAIN s |-> Capsule!Observed(s[i], TRUE)]
   <4> HIDE DEF Listed
   <4> QED BY <1>1a, <1>4, <2>1
  <3>2. PICK k \in 1 .. Card : s \in [1 .. k -> Coordinates] BY <3>1 DEF Capsule!Orders, Capsule!Lists
  <3>3. k \in Nat /\ DOMAIN s = 1 .. k /\ \A i \in 1 .. k : s[i] \in Coordinates BY <3>2, CoordinateCount
  <3>4. cs \in [1 .. k -> Observations]
   <4>1. yes \in BOOLEAN /\ cs = [i \in DOMAIN s |-> Capsule!Observed(s[i], yes)] BY <3>1
   <4> HIDE DEF yes
   <4> QED BY <1>2, <3>3, <4>1
  <3> QED BY <1>3, <3>3, <3>4
 <2>2. CASE n # 1
  <3>1. PICK k \in 1 .. Card : cs \in [1 .. k -> Seen]
   <4> HIDE DEF Listed, Seen, Card
   <4> QED BY <1>1b, <1>4, <2>2
  <3>2. Seen \subseteq Observations
   <4>1. Passes \subseteq BOOLEAN
    <5>1. yes \in BOOLEAN OBVIOUS
    <5> HIDE DEF yes
    <5> QED BY <5>1
   <4> HIDE DEF Passes
   <4> QED BY <1>2, <4>1
  <3>3. k \in Nat /\ cs \in [1 .. k -> Observations]
   <4> HIDE DEF Seen
   <4> QED BY <3>1, <3>2, CoordinateCount
  <3> QED BY <1>3, <3>3
 <2> QED BY <2>1, <2>2
<1>5. ASSUME NEW cs \in Seq(Observations)
      PROVE  Capsule!Text("response", Capsule!Op, cs, << >>) \in Sayings
  BY OpIs DEF Capsule!Text, Sayings, Words
<1> HIDE DEF Listed
<1> QED BY <1>1, <1>4, <1>5

\* The request is that of the operation, and a text.
LEMMA RequestIs ==
  ASSUME n \in 1 .. 3, answers \in Seq(Sayings), Len(answers) \in {n - 1, n}
  PROVE  Capsule!Request \in Texts /\ Capsule!Request = RequestAt(n)
<1>1. CASE n = 1
 <2>1. Capsule!Request = Capsule!Text("request", "describe", << >>, << >>)
   BY <1>1, OperationsAre DEF Capsule!Request, Capsule!Op
 <2> QED BY <1>1, <2>1 DEF RequestAt, Capsule!Text, Texts, Words, Ops
<1>2. CASE n # 1
 <2>1. answers[1] \in Sayings /\ answers[n - 1] \in Sayings BY <1>2
 <2>2. answers[1].coords \in Seq(Observations) BY <2>1 DEF Sayings
 <2>2a. <<answers[n - 1]>> \in Seq(Sayings) BY <2>1
 <2>3. Capsule!Request = Capsule!Text("request", Capsule!Operations[n], answers[1].coords, <<answers[n - 1]>>)
   BY <1>2 DEF Capsule!Request, Capsule!Op, Capsule!Scenario
 <2>4. Capsule!Operations[n] \in Ops BY OperationsAre
 <2>5. Capsule!Request \in Texts BY <2>2, <2>2a, <2>3, <2>4 DEF Capsule!Text, Texts, Words
 <2> QED BY <1>2, <2>3, <2>5 DEF RequestAt
<1> QED BY <1>1, <1>2

\* What run_process returns is of its kind.
LEMMA ReturnedIsTyped ==
  ASSUME n \in 1 .. 3, answers \in Seq(Sayings), Len(answers) \in {n - 1, n}, NEW c \in Capsule!Returned
  PROVE  /\ c.r \in Returns /\ (c.r.outcome = "spawn_failed" <=> c.r.code = "none")
         /\ c.cost \in {0, 1}
<1> DEFINE Typed(x) == /\ x.r \in Returns /\ (x.r.outcome = "spawn_failed" <=> x.r.code = "none")
                       /\ x.cost \in {0, 1}
           SaidOuts == [text : Sayings, complete : BOOLEAN]
           SaidErrs == [text : Texts, complete : BOOLEAN]
           silent   == Capsule!Whole(Capsule!Empty)
           missing  == Capsule!Missing
           no       == FALSE
           yes      == TRUE
<1>1. Prints \subseteq Words BY MeasurementAssumption DEF Capsule!CapsuleAssumption, Words
<1>2. Capsule!Empty \in Sayings BY PlainIsSaying DEF Capsule!Empty, Words
<1>3. Capsule!Outs \subseteq SaidOuts
 <2> DEFINE Said == {Capsule!Empty} \cup {Capsule!Plain(p) : p \in Prints} \cup Capsule!Answers
 <2>1. Said \subseteq Sayings BY <1>1, <1>2, PlainIsSaying, AnswersAreSayings
 <2>2. Capsule!Outs = {Capsule!Whole(t) : t \in Said} BY DEF Capsule!Outs
 <2>3. \A t \in Sayings : Capsule!Whole(t) \in SaidOuts BY DEF Capsule!Whole
 <2> HIDE DEF Said, SaidOuts
 <2> QED BY <2>1, <2>2, <2>3
<1>4. Capsule!Whole(Capsule!Empty) \in SaidErrs /\ Capsule!Whole(Capsule!Empty) \in SaidOuts
  BY <1>2, SayingsAreTexts DEF Capsule!Whole
<1>5. Capsule!Missing \in SaidErrs /\ Capsule!Missing \in SaidOuts BY <1>2, SayingsAreTexts DEF Capsule!Missing
<1>6. ASSUME NEW out \in Capsule!Outs PROVE Capsule!Noise(out) \subseteq SaidErrs
 <2> DEFINE Heard == {Capsule!Plain(p) : p \in Prints} \cup {Capsule!Request, out.text} \cup Capsule!ToSet(answers)
 <2>1. Capsule!ToSet(answers) \subseteq Texts BY SayingsAreTexts DEF Capsule!ToSet
 <2>2. out.text \in Texts BY <1>3, SayingsAreTexts
 <2>3. Heard \subseteq Texts BY <1>1, <2>1, <2>2, RequestIs, PlainIsSaying, SayingsAreTexts
 <2>4. Capsule!Noise(out) \subseteq {Capsule!Whole(t) : t \in Heard} BY DEF Capsule!Noise
 <2>5. \A t \in Texts : Capsule!Whole(t) \in SaidErrs BY DEF Capsule!Whole
 <2> HIDE DEF Heard, SaidErrs
 <2> QED BY <2>3, <2>4, <2>5
<1>7. ASSUME NEW o \in Outcomes, NEW code \in Codes, NEW out \in SaidOuts, NEW err \in SaidErrs, NEW b \in BOOLEAN
      PROVE  LET r == Capsule!Result(o, code, out, err, b) IN
               r \in Returns /\ r.outcome = o /\ r.code = code
  BY DEF Capsule!Result, Returns
<1>8. /\ {"exited", "timed_out", "spawn_failed", "capture_failed"} \subseteq Outcomes
      /\ {"0", "1", "none"} \subseteq Codes /\ no \in BOOLEAN /\ yes \in BOOLEAN
  BY DEF Outcomes, Codes
<1>9. /\ silent \in SaidErrs /\ silent \in SaidOuts /\ missing \in SaidErrs /\ missing \in SaidOuts BY <1>4, <1>5
<1>10. Capsule!Quiet = {[r |-> Capsule!Result("exited", "0", out, silent, no), cost |-> 0] : out \in Capsule!Outs}
  BY DEF Capsule!Quiet
<1>11. Capsule!Noisy = UNION {{[r |-> Capsule!Result("exited", "0", out, err, no), cost |-> 1] :
                                 err \in Capsule!Noise(out)} : out \in Capsule!Outs}
  BY DEF Capsule!Noisy
<1>12. Capsule!Broken =
         {[r |-> Capsule!Result(o, "1", out, silent, no), cost |-> 1] : o \in {"exited", "timed_out"}, out \in Capsule!Outs}
         \cup {[r |-> Capsule!Result("spawn_failed", "none", silent, silent, no), cost |-> 1],
               [r |-> Capsule!Result("exited", "0", missing, silent, yes), cost |-> 1]}
  BY DEF Capsule!Broken
<1>13. Capsule!Overrun =
         {[r |-> Capsule!Result(o, "1", pair[1], pair[2], no), cost |-> 1] :
            o \in {"capture_failed", "timed_out"}, pair \in {<<missing, silent>>, <<silent, missing>>}}
  BY DEF Capsule!Overrun
<1> HIDE DEF SaidOuts, SaidErrs, silent, missing, no, yes
<1>14. ASSUME c \in Capsule!Quiet PROVE Typed(c) BY <1>3, <1>7, <1>8, <1>9, <1>10, <1>14
<1>15. ASSUME c \in Capsule!Noisy PROVE Typed(c)
 <2> DEFINE Heard(out) == {[r |-> Capsule!Result("exited", "0", out, err, no), cost |-> 1] : err \in Capsule!Noise(out)}
 <2>1. PICK out \in Capsule!Outs : c \in Heard(out)
  <3> HIDE DEF Heard
  <3>1. Capsule!Noisy = UNION {Heard(out) : out \in Capsule!Outs} BY <1>11 DEF Heard
  <3> QED BY <1>15, <3>1
 <2>2. PICK err \in Capsule!Noise(out) : c = [r |-> Capsule!Result("exited", "0", out, err, no), cost |-> 1] BY <2>1
 <2> QED BY <1>3, <1>6, <1>7, <1>8, <2>2
<1>16. ASSUME c \in Capsule!Broken PROVE Typed(c)
 <2>1. \/ \E o \in {"exited", "timed_out"}, out \in Capsule!Outs :
            c = [r |-> Capsule!Result(o, "1", out, silent, no), cost |-> 1]
       \/ c = [r |-> Capsule!Result("spawn_failed", "none", silent, silent, no), cost |-> 1]
       \/ c = [r |-> Capsule!Result("exited", "0", missing, silent, yes), cost |-> 1]
   BY <1>12, <1>16
 <2>2. CASE \E o \in {"exited", "timed_out"}, out \in Capsule!Outs :
              c = [r |-> Capsule!Result(o, "1", out, silent, no), cost |-> 1]
   BY <1>3, <1>7, <1>8, <1>9, <2>2
 <2>3. CASE c = [r |-> Capsule!Result("spawn_failed", "none", silent, silent, no), cost |-> 1]
   BY <1>7, <1>8, <1>9, <2>3
 <2>4. CASE c = [r |-> Capsule!Result("exited", "0", missing, silent, yes), cost |-> 1] BY <1>7, <1>8, <1>9, <2>4
 <2> QED BY <2>1, <2>2, <2>3, <2>4
<1>17. ASSUME c \in Capsule!Overrun PROVE Typed(c)
 <2>1. PICK o \in {"capture_failed", "timed_out"}, pair \in {<<missing, silent>>, <<silent, missing>>} :
         c = [r |-> Capsule!Result(o, "1", pair[1], pair[2], no), cost |-> 1]
   BY <1>13, <1>17
 <2>2. pair[1] \in SaidOuts /\ pair[2] \in SaidErrs BY <1>9, <2>1
 <2> QED BY <1>7, <1>8, <2>1, <2>2
<1> QED BY <1>14, <1>15, <1>16, <1>17 DEF Capsule!Returned

\* The bound of trouble is a number.
LEMMA CapsuleTroubleBound == MaxCapsuleTrouble \in Nat
BY MeasurementAssumption DEF Capsule!CapsuleAssumption
----------------------------------------
(* Sequences and their elements *)

\* What is in a concatenation is in one of its parts.
LEMMA ConcatenatedSet ==
  ASSUME NEW S, NEW s \in Seq(S), NEW t \in Seq(S)
  PROVE  s \o t \in Seq(S) /\ Capsule!ToSet(s \o t) = Capsule!ToSet(s) \cup Capsule!ToSet(t)
<1>1. /\ s \o t \in Seq(S) /\ Len(s \o t) = Len(s) + Len(t)
      /\ \A i \in 1 .. Len(s) : (s \o t)[i] = s[i]
      /\ \A i \in 1 .. Len(t) : (s \o t)[Len(s) + i] = t[i]
  OBVIOUS
<1>2. ASSUME NEW i \in DOMAIN (s \o t) PROVE (s \o t)[i] \in Capsule!ToSet(s) \cup Capsule!ToSet(t)
 <2>1. CASE i <= Len(s) BY <1>1, <2>1 DEF Capsule!ToSet
 <2>2. CASE i > Len(s)
  <3>1. i - Len(s) \in 1 .. Len(t) /\ i = Len(s) + (i - Len(s)) BY <1>1, <2>2
  <3>2. (s \o t)[i] = t[i - Len(s)] BY <1>1, <3>1
  <3> QED BY <3>1, <3>2 DEF Capsule!ToSet
 <2> QED BY <1>1, <2>1, <2>2
<1>3. ASSUME NEW i \in DOMAIN s PROVE s[i] \in Capsule!ToSet(s \o t)
 <2>1. i \in DOMAIN (s \o t) /\ (s \o t)[i] = s[i] BY <1>1
 <2> QED BY <2>1 DEF Capsule!ToSet
<1>4. ASSUME NEW i \in DOMAIN t PROVE t[i] \in Capsule!ToSet(s \o t)
 <2>1. Len(s) + i \in DOMAIN (s \o t) /\ (s \o t)[Len(s) + i] = t[i] BY <1>1
 <2> QED BY <2>1 DEF Capsule!ToSet
<1>5. Capsule!ToSet(s \o t) \subseteq Capsule!ToSet(s) \cup Capsule!ToSet(t)
 <2>1. Capsule!ToSet(s \o t) = {(s \o t)[i] : i \in DOMAIN (s \o t)} BY DEF Capsule!ToSet
 <2> QED BY <1>2, <2>1
<1>6. Capsule!ToSet(s) \subseteq Capsule!ToSet(s \o t) /\ Capsule!ToSet(t) \subseteq Capsule!ToSet(s \o t)
 <2>1. Capsule!ToSet(s) = {s[i] : i \in DOMAIN s} /\ Capsule!ToSet(t) = {t[i] : i \in DOMAIN t} BY DEF Capsule!ToSet
 <2> HIDE DEF Capsule!ToSet
 <2> QED BY <1>3, <1>4, <2>1
<1> QED BY <1>1, <1>5, <1>6

\* A sequence is its first element and the rest.
LEMMA HeadAndTail ==
  ASSUME NEW S, NEW s \in Seq(S), s # << >>
  PROVE  /\ Head(s) \in S /\ Tail(s) \in Seq(S)
         /\ Capsule!ToSet(s) = {Head(s)} \cup Capsule!ToSet(Tail(s))
<1>1. /\ Head(s) \in S /\ Tail(s) \in Seq(S) /\ s = <<Head(s)>> \o Tail(s) /\ <<Head(s)>> \in Seq(S) OBVIOUS
<1>2. Capsule!ToSet(<<Head(s)>>) = {Head(s)} BY DEF Capsule!ToSet
<1>3. Capsule!ToSet(<<Head(s)>> \o Tail(s)) = Capsule!ToSet(<<Head(s)>>) \cup Capsule!ToSet(Tail(s))
 <2> DEFINE first == <<Head(s)>>
 <2>1. first \in Seq(S) /\ Tail(s) \in Seq(S) BY <1>1
 <2> HIDE DEF first
 <2>2. Capsule!ToSet(first \o Tail(s)) = Capsule!ToSet(first) \cup Capsule!ToSet(Tail(s))
   BY ONLY ZenonT(60), <2>1, ConcatenatedSet
 <2> QED BY <2>2 DEF first
<1> QED BY <1>1, <1>2, <1>3

\* The artifacts of a phase
LEMMA ArtifactsAre ==
  ASSUME n \in 1 .. 3, answers \in Seq(Sayings), Len(answers) \in {n - 1, n}, NEW r \in Returns
  PROVE  /\ Capsule!Artifacts(r) \in Seq(Entries)
         /\ Capsule!ToSet(Capsule!Artifacts(r)) =
              {Capsule!Entry(Capsule!Op, "request.json", Capsule!Request),
               Capsule!Entry(Capsule!Op, "process.json", Capsule!Text("process", Capsule!Op, << >>, << >>)),
               Capsule!StdoutArtifact(r)}
              \cup IF Capsule!KeepsStderr(r)
                     THEN {[path |-> <<Capsule!Op, "stderr.txt">>, text |-> r.err.text, media |-> "text/plain"]}
                     ELSE {}
<1> DEFINE request == Capsule!Entry(Capsule!Op, "request.json", Capsule!Request)
           process == Capsule!Entry(Capsule!Op, "process.json", Capsule!Text("process", Capsule!Op, << >>, << >>))
           out     == Capsule!StdoutArtifact(r)
           err     == [path |-> <<Capsule!Op, "stderr.txt">>, text |-> r.err.text, media |-> "text/plain"]
           rest    == IF Capsule!KeepsStderr(r) THEN <<err>> ELSE << >>
<1>1. ASSUME NEW name \in EntryNames, NEW text \in Texts PROVE Capsule!Entry(Capsule!Op, name, text) \in Entries
  BY OpIs DEF Capsule!Entry, Entries, Media
<1>2. Capsule!Request \in Texts /\ Capsule!Op \in Ops BY RequestIs, OpIs
<1>3. Capsule!Text("process", Capsule!Op, << >>, << >>) \in Texts
 <2>1. << >> \in Seq(Observations) /\ << >> \in Seq(Sayings) OBVIOUS
 <2>2. "process" \in Words BY DEF Words
 <2>3. Capsule!Op \in Ops \cup {""} BY <1>2
 <2> QED BY <2>1, <2>2, <2>3 DEF Capsule!Text, Texts
<1>4. request \in Entries /\ process \in Entries BY <1>1, <1>2, <1>3 DEF EntryNames
<1>5. out \in Entries
 <2>1. Capsule!Plain("withheld") \in Texts /\ Capsule!Plain("unavailable") \in Texts /\ r.out.text \in Texts
   BY PlainIsSaying, SayingsAreTexts DEF Words, Returns
 <2>2. \/ out = Capsule!Entry(Capsule!Op, "stdout-unavailable.txt", Capsule!Plain("withheld"))
       \/ out = Capsule!Entry(Capsule!Op, "stdout-unavailable.txt", Capsule!Plain("unavailable"))
       \/ out = Capsule!Entry(Capsule!Op, "stdout.json", r.out.text)
       \/ out = Capsule!Entry(Capsule!Op, "stdout.txt", r.out.text)
   BY DEF Capsule!StdoutArtifact
 <2> HIDE DEF out
 <2> QED BY <1>1, <2>1, <2>2 DEF EntryNames
<1>6. err \in Entries BY <1>2 DEF Entries, Returns, EntryNames, Media
<1>7. Capsule!Artifacts(r) = <<request, process, out>> \o rest BY DEF Capsule!Artifacts, Capsule!JsonArtifacts
<1> HIDE DEF request, process, out, err
<1> DEFINE front == <<request, process, out>>
<1>8. front \in Seq(Entries) /\ rest \in Seq(Entries) BY <1>4, <1>5, <1>6
<1>9. Capsule!ToSet(front) = {request, process, out} BY DEF Capsule!ToSet
<1>10. Capsule!ToSet(rest) = IF Capsule!KeepsStderr(r) THEN {err} ELSE {} BY DEF Capsule!ToSet
<1> HIDE DEF rest, front
<1>11. /\ Capsule!Artifacts(r) \in Seq(Entries)
       /\ Capsule!ToSet(Capsule!Artifacts(r)) = {request, process, out} \cup IF Capsule!KeepsStderr(r) THEN {err} ELSE {}
 <2>1. Capsule!Artifacts(r) = front \o rest BY <1>7 DEF front
 <2>2. front \o rest \in Seq(Entries) /\ Capsule!ToSet(front \o rest) = Capsule!ToSet(front) \cup Capsule!ToSet(rest)
   BY ONLY <1>8, ConcatenatedSet
 <2> QED BY ONLY <1>9, <1>10, <2>1, <2>2
<1> QED BY <1>11 DEF request, process, out, err

\* The phase result is one its models accept.
LEMMA PhaseIs ==
  ASSUME n \in 1 .. 3, answers \in Seq(Sayings), Len(answers) \in {n - 1, n},
         NEW r \in Returns, r.outcome = "spawn_failed" <=> r.code = "none"
  PROVE  LET phase == Capsule!Phase(r) IN
           /\ phase \in PhaseResults /\ phase.op = Capsule!Op /\ phase.request = Capsule!Request
           /\ Capsule!ExactCategory(phase) /\ Capsule!AcceptedDigest(phase)
           /\ phase.failure = Capsule!Failure(r)
           /\ phase.answer = IF Capsule!Failure(r) = "none" THEN <<r.out.text>> ELSE << >>
<1> DEFINE phase  == Capsule!Phase(r)
           answer == IF Capsule!Failure(r) = "none" THEN <<r.out.text>> ELSE << >>
           whole  == r.out.complete /\ r.err.complete
<1>1. phase = [op |-> Capsule!Op, request |-> Capsule!Request, outcome |-> r.outcome, code |-> r.code,
               category |-> Capsule!Category(r), complete |-> whole, failure |-> Capsule!Failure(r), answer |-> answer]
  BY DEF Capsule!Phase
<1>2. Capsule!Request \in Texts /\ Capsule!Op \in Ops BY RequestIs, OpIs
<1>3. r.outcome \in Outcomes /\ r.code \in Codes /\ r.out.text \in Sayings /\ whole \in BOOLEAN BY DEF Returns
<1>4. Capsule!Category(r) \in Categories BY DEF Capsule!Category, Categories
<1>5. /\ Capsule!Failure(r) \in {"none", "process", "unsafe", "response"}
      /\ Capsule!Failure(r) = "process" <=> Capsule!Category(r) # "none"
 <2>1. CASE Capsule!Category(r) # "none" BY <2>1 DEF Capsule!Failure
 <2>2. CASE Capsule!Category(r) = "none" /\ (~Capsule!Safe(r.out.text) \/ ~Capsule!Safe(r.err.text))
   BY <2>2 DEF Capsule!Failure
 <2>3. CASE Capsule!Category(r) = "none" /\ ~(~Capsule!Safe(r.out.text) \/ ~Capsule!Safe(r.err.text))
   BY <2>3 DEF Capsule!Failure
 <2> QED BY <2>1, <2>2, <2>3
<1>6. answer \in Seq(Sayings) /\ (answer # << >> <=> Capsule!Failure(r) = "none") BY <1>3
<1>7. Capsule!Category(r) =
        IF r.outcome = "exited" /\ r.code # "0" THEN "nonzero-exit"
        ELSE IF r.outcome = "exited" /\ ~whole THEN "incomplete-capture"
        ELSE IF r.outcome = "exited" THEN "none"
        ELSE IF r.outcome = "spawn_failed" THEN "spawn-failed"
        ELSE IF r.outcome = "timed_out" THEN "timed-out"
        ELSE "capture-failed"
 <2>1. CASE r.outcome # "exited" BY <1>3, <2>1 DEF Capsule!Category, Outcomes
 <2>2. CASE r.outcome = "exited" /\ r.code # "0" BY <2>2 DEF Capsule!Category
 <2>3. CASE r.outcome = "exited" /\ r.code = "0" /\ ~whole BY <2>3 DEF Capsule!Category
 <2>4. CASE r.outcome = "exited" /\ r.code = "0" /\ whole BY <2>4 DEF Capsule!Category
 <2> QED BY <2>1, <2>2, <2>3, <2>4
<1> HIDE DEF answer, whole, phase
<1>8. /\ phase \in PhaseResults /\ phase.op = Capsule!Op /\ phase.request = Capsule!Request
      /\ phase.outcome = r.outcome /\ phase.code = r.code /\ phase.category = Capsule!Category(r)
      /\ phase.complete = whole /\ phase.failure = Capsule!Failure(r) /\ phase.answer = answer
  BY <1>1, <1>2, <1>3, <1>4, <1>5, <1>6 DEF PhaseResults
<1>9. Capsule!ExactCategory(phase) BY <1>7, <1>8 DEF Capsule!ExactCategory
<1>10. Capsule!AcceptedDigest(phase) BY <1>5, <1>6, <1>8 DEF Capsule!AcceptedDigest
<1> QED BY <1>8, <1>9, <1>10 DEF phase, answer

\* A sequence of at most one element that is not empty is that element.
LEMMA Singleton ==
  ASSUME NEW S, NEW s \in Seq(S), s # << >>, Len(s) <= 1
  PROVE  Len(s) = 1 /\ s = <<s[1]>> /\ s[1] \in S
<1>1. Len(s) = 1
 <2>1. Len(s) \in Nat /\ (s = << >> <=> Len(s) = 0) BY EmptySeq
 <2> QED BY <2>1
<1>2. s[1] \in S BY <1>1
<1>3. DOMAIN s = 1 .. 1 /\ s = [i \in 1 .. 1 |-> s[i]] BY <1>1
<1>4. s = <<s[1]>> BY <1>1, <1>2, <1>3
<1> QED BY <1>1, <1>2, <1>4
----------------------------------------
(* Steps of a capsule *)

\* Whatever a step does, it leads to a step.
LEMMA CapsuleSteps ==
  ASSUME Capsule!Next, pc \in CapsuleStages
  PROVE  pc' \in CapsuleStages
<1> USE DEF CapsuleStages, Before, InPhase, Closing, Leaving
<1>1. Capsule!Unwound \in CapsuleStages BY DEF Capsule!Unwound
<1>2. ASSUME Capsule!Lease PROVE pc' \in CapsuleStages BY <1>1, <1>2 DEF Capsule!Lease, Capsule!At, Capsule!Goto
<1>3. ASSUME Capsule!Bind PROVE pc' \in CapsuleStages
  BY <1>1, <1>3 DEF Capsule!Bind, Capsule!At, Capsule!Goto, Capsule!Refuse, Capsule!Raise
<1>4. ASSUME Capsule!Begin PROVE pc' \in CapsuleStages BY <1>1, <1>4 DEF Capsule!Begin, Capsule!At, Capsule!Goto
<1>5. ASSUME Capsule!Inputs PROVE pc' \in CapsuleStages
  BY <1>1, <1>5 DEF Capsule!Inputs, Capsule!At, Capsule!Goto, Capsule!Refuse, Capsule!Raise
<1>6. ASSUME Capsule!Write PROVE pc' \in CapsuleStages
 <2>1. Capsule!Raise \/ pc' = pc BY <1>6 DEF Capsule!Write, Capsule!Refuse
 <2> QED BY <1>1, <2>1 DEF Capsule!Raise, Capsule!Goto
<1>7. ASSUME Capsule!Written PROVE pc' \in CapsuleStages BY <1>1, <1>7 DEF Capsule!Written, Capsule!At, Capsule!Goto
<1>8. ASSUME Capsule!Lock PROVE pc' \in CapsuleStages
  BY <1>1, <1>8 DEF Capsule!Lock, Capsule!At, Capsule!Goto, Capsule!AfterRefusal
<1>9. ASSUME Capsule!Scratch PROVE pc' \in CapsuleStages BY <1>1, <1>9 DEF Capsule!Scratch, Capsule!At, Capsule!Goto
<1>10. ASSUME Capsule!Hash PROVE pc' \in CapsuleStages
  BY <1>1, <1>10 DEF Capsule!Hash, Capsule!At, Capsule!Goto, Capsule!Refuse, Capsule!Raise
<1>11. ASSUME Capsule!Check PROVE pc' \in CapsuleStages
  BY <1>1, <1>11 DEF Capsule!Check, Capsule!At, Capsule!Goto, Capsule!Refuse, Capsule!Raise
<1>12. ASSUME Capsule!Start PROVE pc' \in CapsuleStages BY <1>1, <1>12 DEF Capsule!Start, Capsule!At, Capsule!Goto
<1>13. ASSUME Capsule!Collect PROVE pc' \in CapsuleStages
  BY <1>1, <1>13 DEF Capsule!Collect, Capsule!At, Capsule!Goto, Capsule!Refuse, Capsule!Raise
<1>14. ASSUME Capsule!Accept PROVE pc' \in CapsuleStages BY <1>1, <1>14 DEF Capsule!Accept, Capsule!At
<1>15. ASSUME Capsule!Conclude PROVE pc' \in CapsuleStages
  BY <1>1, <1>15 DEF Capsule!Conclude, Capsule!At, Capsule!Goto, Capsule!Following
<1>16. ASSUME Capsule!PublishProtocol PROVE pc' \in CapsuleStages
  BY <1>1, <1>16 DEF Capsule!PublishProtocol, Capsule!At, Capsule!Goto, Capsule!Refuse, Capsule!Raise
<1>17. ASSUME Capsule!Authenticate PROVE pc' \in CapsuleStages
  BY <1>1, <1>17 DEF Capsule!Authenticate, Capsule!At, Capsule!Goto
<1>18. ASSUME Capsule!Unscratch PROVE pc' \in CapsuleStages
  BY <1>1, <1>18 DEF Capsule!Unscratch, Capsule!At, Capsule!Goto
<1>19. ASSUME Capsule!Verify PROVE pc' \in CapsuleStages
  BY <1>1, <1>19 DEF Capsule!Verify, Capsule!At, Capsule!Goto, Capsule!Refuse, Capsule!Raise
<1>20. ASSUME Capsule!PublishResult PROVE pc' \in CapsuleStages
  BY <1>1, <1>20 DEF Capsule!PublishResult, Capsule!At, Capsule!Goto
<1>21. ASSUME Capsule!Unlock PROVE pc' \in CapsuleStages BY <1>1, <1>21 DEF Capsule!Unlock, Capsule!At, Capsule!Goto
<1>22. ASSUME Capsule!Finish PROVE pc' \in CapsuleStages BY <1>1, <1>22 DEF Capsule!Finish, Capsule!At, Capsule!Goto
<1>23. ASSUME Capsule!Release PROVE pc' \in CapsuleStages BY <1>1, <1>23 DEF Capsule!Release, Capsule!At, Capsule!Goto
<1>24. ASSUME Capsule!Fails PROVE pc' \in CapsuleStages
 <2>1. Capsule!Raise BY <1>24 DEF Capsule!Fails
 <2> QED BY <1>1, <2>1 DEF Capsule!Raise, Capsule!Goto
<1>25. ASSUME Capsule!Swap PROVE pc' \in CapsuleStages BY <1>1, <1>25 DEF Capsule!Swap, Capsule!At
<1> QED BY <1>2, <1>3, <1>4, <1>5, <1>6, <1>7, <1>8, <1>9, <1>10, <1>11, <1>12, <1>13, <1>14, <1>15, <1>16,
       <1>17, <1>18, <1>19, <1>20, <1>21, <1>22, <1>23, <1>24, <1>25 DEF Capsule!Next, Capsule!Step
\* A step leaves every variable a value of its kind.
LEMMA CapsuleTypedStep ==
  ASSUME CapsuleInv, Capsule!Next
  PROVE  CapsuleTyped'
<1>1. CapsuleTyped /\ InOrder /\ Counted /\ Ordered BY DEF CapsuleInv
<1>0. todo \in Seq(Entries) /\ phases \in Seq(PhaseResults) BY <1>1 DEF CapsuleTyped
<1>s. pc' \in CapsuleStages BY <1>1, CapsuleSteps DEF CapsuleTyped
<1>2. ASSUME Capsule!Lease PROVE CapsuleTyped'
  BY <1>1, <1>2, <1>s DEF CapsuleTyped, Capsule!Lease, Capsule!At, Capsule!Goto, Capsule!Kept, Capsule!resources,
    Capsule!protocol, Capsule!evidence, Capsule!files, Capsule!strangers
<1>3. ASSUME Capsule!Bind PROVE CapsuleTyped'
  BY ZenonT(60), <1>1, <1>3, <1>s DEF CapsuleTyped, Capsule!Bind, Capsule!At, Capsule!Goto, Capsule!Kept,
    Capsule!Refuse, Capsule!Raise, Capsule!resources, Capsule!protocol, Capsule!evidence, Capsule!files, Capsule!strangers
<1>4. ASSUME Capsule!Begin PROVE CapsuleTyped'
  BY <1>1, <1>4, <1>s DEF CapsuleTyped, Capsule!Begin, Capsule!At, Capsule!Goto, Capsule!Kept, Capsule!resources,
    Capsule!protocol, Capsule!evidence, Capsule!files, Capsule!strangers
<1>5. ASSUME Capsule!Inputs PROVE CapsuleTyped'
 <2>1. Capsule!InputEntries \in Seq(Entries)
  <3>1. inputs[1] \in Texts /\ inputs[2] \in Texts BY <1>1 DEF CapsuleTyped
  <3>2. /\ Capsule!Entry("capsule", "build.json", inputs[1]) \in Entries
        /\ Capsule!Entry("capsule", "machine.json", inputs[2]) \in Entries
    BY <3>1 DEF Capsule!Entry, Entries, EntryNames, Media
  <3> QED BY <3>2 DEF Capsule!InputEntries
 <2>2. todo' \in Seq(Entries) BY <1>1, <1>5, <2>1 DEF CapsuleTyped, Capsule!Inputs
 <2> QED BY ZenonT(60), <1>1, <1>s, CapsuleTroubleBound, <1>5, <2>2 DEF CapsuleTyped, Capsule!Inputs, Capsule!At,
   Capsule!Goto, Capsule!Kept, Capsule!Refuse, Capsule!Raise, Capsule!resources, Capsule!protocol, Capsule!evidence,
   Capsule!files, Capsule!strangers
<1>6. ASSUME Capsule!Write PROVE CapsuleTyped'
 <2>1. todo' = todo \/ (todo' = Tail(todo) /\ todo # << >>)
   BY <1>6 DEF Capsule!Write, Capsule!Refuse, Capsule!Raise, Capsule!evidence
 <2>2. todo' \in Seq(Entries) BY SMTT(40), <1>0, <2>1, HeadAndTail
 <2>3. /\ raised' \in BOOLEAN /\ disturbed' \in BOOLEAN /\ trouble' \in 0 .. MaxCapsuleTrouble
  <3>1. \/ UNCHANGED <<raised, disturbed, trouble>>
        \/ raised' = TRUE /\ UNCHANGED <<disturbed, trouble>>
        \/ raised' = TRUE /\ disturbed' = TRUE /\ trouble < MaxCapsuleTrouble /\ trouble' = trouble + 1
    BY <1>6 DEF Capsule!Write, Capsule!Kept, Capsule!Refuse, Capsule!Raise
  <3>2. raised \in BOOLEAN /\ disturbed \in BOOLEAN /\ trouble \in 0 .. MaxCapsuleTrouble BY <1>1 DEF CapsuleTyped
  <3>3. trouble' \in 0 .. MaxCapsuleTrouble
   <4>1. trouble' = trouble \/ (trouble < MaxCapsuleTrouble /\ trouble' = trouble + 1) BY <3>1
   <4> QED BY <3>2, <4>1, CapsuleTroubleBound
  <3> QED BY <3>1, <3>2, <3>3
 <2>4. UNCHANGED <<inputs, n, leased, locked, scratch, run, exe, hashed, child, ran, undone, phases, answers>>
   BY <1>6 DEF Capsule!Write, Capsule!resources, Capsule!protocol, Capsule!files, Capsule!strangers
 <2> QED BY <1>1, <1>s, <2>2, <2>3, <2>4 DEF CapsuleTyped
<1>7. ASSUME Capsule!Written PROVE CapsuleTyped'
  BY <1>1, <1>7, <1>s DEF CapsuleTyped, Capsule!Written, Capsule!At, Capsule!Goto, Capsule!Kept, Capsule!resources,
    Capsule!protocol, Capsule!evidence, Capsule!files, Capsule!strangers
<1>8. ASSUME Capsule!Lock PROVE CapsuleTyped'
  BY ZenonT(60), <1>1, <1>8, <1>s DEF CapsuleTyped, Capsule!Lock, Capsule!At, Capsule!Goto, Capsule!Kept,
    Capsule!AfterRefusal, Capsule!resources, Capsule!protocol, Capsule!evidence, Capsule!files, Capsule!strangers
<1>9. ASSUME Capsule!Scratch PROVE CapsuleTyped'
  BY ZenonT(60), <1>1, <1>9, <1>s DEF CapsuleTyped, Capsule!Scratch, Capsule!At, Capsule!Goto, Capsule!Kept,
    Capsule!resources, Capsule!protocol, Capsule!evidence, Capsule!files, Capsule!strangers
<1>10. ASSUME Capsule!Hash PROVE CapsuleTyped'
  BY ZenonT(60), <1>1, <1>10, <1>s DEF CapsuleTyped, Capsule!Hash, Capsule!At, Capsule!Goto, Capsule!Kept,
    Capsule!Refuse, Capsule!Raise, Capsule!resources, Capsule!protocol, Capsule!evidence, Capsule!files, Capsule!strangers
<1>11. ASSUME Capsule!Check PROVE CapsuleTyped'
  BY ZenonT(60), <1>1, <1>11, <1>s DEF CapsuleTyped, Capsule!Check, Capsule!At, Capsule!Goto, Capsule!Kept,
    Capsule!Refuse, Capsule!Raise, Capsule!resources, Capsule!protocol, Capsule!evidence, Capsule!files, Capsule!strangers
<1>12. ASSUME Capsule!Start PROVE CapsuleTyped'
 <2>1. PICK c \in Capsule!Returned :
         /\ trouble + c.cost <= MaxCapsuleTrouble /\ trouble' = trouble + c.cost /\ child' = c.r
         /\ disturbed' = (disturbed \/ c.r.spoolError)
   BY <1>12 DEF Capsule!Start
 <2>2. n \in 1 .. 3 /\ answers \in Seq(Sayings) /\ Len(answers) \in {n - 1, n} BY <1>1 DEF CapsuleTyped, InOrder
 <2>3. /\ child' \in Returns /\ (child'.outcome = "spawn_failed" <=> child'.code = "none")
       /\ c.cost \in {0, 1} /\ c.r.spoolError \in BOOLEAN
   BY <2>1, <2>2, ReturnedIsTyped DEF Returns
 <2>4. disturbed' \in BOOLEAN BY <2>1
 <2>5. trouble' \in 0 .. MaxCapsuleTrouble BY <1>1, <2>1, <2>3, CapsuleTroubleBound DEF CapsuleTyped
 <2>6. ran' \subseteq Ops /\ undone' = undone BY <1>1, <1>12, OpIs DEF CapsuleTyped, Capsule!Start
 <2>7. /\ pc' = "collect" /\ UNCHANGED <<inputs, raised, leased, locked, scratch, run, n, phases, answers, result,
                                      todo, portable, exe, hashed>>
   BY <1>12 DEF Capsule!Start, Capsule!Goto, Capsule!resources, Capsule!protocol, Capsule!evidence, Capsule!files, Capsule!strangers
 <2> QED BY <1>1, <2>3, <2>4, <2>5, <2>6, <2>7, <1>s DEF CapsuleTyped
<1>13. ASSUME Capsule!Collect PROVE CapsuleTyped'
 <2>1. child \in Returns /\ (child.outcome = "spawn_failed" <=> child.code = "none")
   BY <1>1, <1>13 DEF CapsuleTyped, Counted, Capsule!Collect, Capsule!At
 <2>2. n \in 1 .. 3 /\ answers \in Seq(Sayings) /\ Len(answers) \in {n - 1, n} BY <1>1 DEF CapsuleTyped, InOrder
 <2>3. Capsule!Artifacts(child) \in Seq(Entries) /\ Capsule!Phase(child) \in PhaseResults
   BY <2>1, <2>2, ArtifactsAre, PhaseIs
 <2>4. phases' \in Seq(PhaseResults) /\ todo' \in Seq(Entries)
  <3>1. \/ phases' = Append(phases, Capsule!Phase(child)) /\ todo' = Capsule!Artifacts(child)
        \/ phases' = phases /\ todo' = todo
    BY <1>13 DEF Capsule!Collect
  <3> QED BY <1>0, <2>3, <3>1
 <2> QED BY ZenonT(60), <1>1, <1>s, CapsuleTroubleBound, <1>13, <2>4 DEF CapsuleTyped, Capsule!Collect, Capsule!At,
   Capsule!Goto, Capsule!Kept, Capsule!Refuse, Capsule!Raise, Capsule!resources, Capsule!protocol, Capsule!evidence,
   Capsule!files, Capsule!strangers
<1>14. ASSUME Capsule!Accept PROVE CapsuleTyped'
 <2>1. phases \in Seq(PhaseResults) /\ phases # << >> /\ Capsule!Last(phases) = phases[Len(phases)]
   BY <1>1, <1>14 DEF CapsuleTyped, Counted, Capsule!Accept, Capsule!At, Capsule!Last
 <2>2. Capsule!Last(phases).answer \in Seq(Sayings)
  <3>1. phases[Len(phases)] \in PhaseResults BY <2>1
  <3> QED BY <2>1, <3>1 DEF PhaseResults
 <2>3. answers' \in Seq(Sayings) BY <1>1, <1>14, <2>2 DEF CapsuleTyped, Capsule!Accept
 <2> QED BY <1>1, <1>s, CapsuleTroubleBound, <1>14, <2>3 DEF CapsuleTyped, Capsule!Accept, Capsule!At, Capsule!Kept,
   Capsule!resources, Capsule!protocol, Capsule!evidence, Capsule!files, Capsule!strangers
<1>15. ASSUME Capsule!Conclude PROVE CapsuleTyped'
  BY <1>1, <1>15, <1>s DEF CapsuleTyped, Capsule!Conclude, Capsule!At, Capsule!Goto, Capsule!Kept, Capsule!Following,
    Capsule!resources, Capsule!protocol, Capsule!evidence, Capsule!files, Capsule!strangers
<1>16. ASSUME Capsule!PublishProtocol PROVE CapsuleTyped'
  BY ZenonT(60), <1>1, <1>16, <1>s DEF CapsuleTyped, Capsule!PublishProtocol, Capsule!At, Capsule!Goto, Capsule!Kept,
    Capsule!Refuse, Capsule!Raise, Capsule!resources, Capsule!protocol, Capsule!evidence, Capsule!files, Capsule!strangers
<1>17. ASSUME Capsule!Authenticate PROVE CapsuleTyped'
  BY <1>1, <1>17, <1>s DEF CapsuleTyped, Capsule!Authenticate, Capsule!At, Capsule!Goto, Capsule!Kept,
    Capsule!resources, Capsule!protocol, Capsule!evidence, Capsule!files, Capsule!strangers
<1>18. ASSUME Capsule!Unscratch PROVE CapsuleTyped'
 <2>1. /\ raised' \in BOOLEAN /\ disturbed' \in BOOLEAN /\ trouble' \in 0 .. MaxCapsuleTrouble
       /\ scratch' \in BOOLEAN
  <3>1. \/ UNCHANGED <<raised, disturbed, trouble>> /\ scratch' = FALSE
        \/ /\ raised' = TRUE /\ disturbed' = TRUE /\ trouble < MaxCapsuleTrouble /\ trouble' = trouble + 1
           /\ scratch' = scratch
    BY <1>18 DEF Capsule!Unscratch, Capsule!Kept
  <3>2. /\ raised \in BOOLEAN /\ disturbed \in BOOLEAN /\ trouble \in 0 .. MaxCapsuleTrouble
        /\ scratch \in BOOLEAN
    BY <1>1 DEF CapsuleTyped
  <3>3. trouble' \in 0 .. MaxCapsuleTrouble
   <4>1. trouble' = trouble \/ (trouble < MaxCapsuleTrouble /\ trouble' = trouble + 1) BY <3>1
   <4> QED BY <3>2, <4>1, CapsuleTroubleBound
  <3> QED BY <3>1, <3>2, <3>3
 <2>2. UNCHANGED <<inputs, n, leased, locked, run, exe, hashed, child, ran, undone, todo, phases, answers>>
   BY <1>18 DEF Capsule!Unscratch, Capsule!protocol, Capsule!evidence, Capsule!files, Capsule!strangers
 <2> QED BY <1>1, <1>s, <2>1, <2>2 DEF CapsuleTyped
<1>19. ASSUME Capsule!Verify PROVE CapsuleTyped'
  BY ZenonT(60), <1>1, <1>19, <1>s DEF CapsuleTyped, Capsule!Verify, Capsule!At, Capsule!Goto, Capsule!Kept,
    Capsule!Refuse, Capsule!Raise, Capsule!resources, Capsule!protocol, Capsule!evidence, Capsule!files, Capsule!strangers
<1>20. ASSUME Capsule!PublishResult PROVE CapsuleTyped'
  BY <1>1, <1>20, <1>s DEF CapsuleTyped, Capsule!PublishResult, Capsule!At, Capsule!Goto, Capsule!Kept,
    Capsule!resources, Capsule!protocol, Capsule!evidence, Capsule!files, Capsule!strangers
<1>21. ASSUME Capsule!Unlock PROVE CapsuleTyped'
  BY <1>1, <1>21, <1>s DEF CapsuleTyped, Capsule!Unlock, Capsule!At, Capsule!Goto, Capsule!Kept, Capsule!resources,
    Capsule!protocol, Capsule!evidence, Capsule!files, Capsule!strangers
<1>22. ASSUME Capsule!Finish PROVE CapsuleTyped'
  BY <1>1, <1>22, <1>s DEF CapsuleTyped, Capsule!Finish, Capsule!At, Capsule!Goto, Capsule!Kept, Capsule!resources,
    Capsule!protocol, Capsule!evidence, Capsule!files, Capsule!strangers
<1>23. ASSUME Capsule!Release PROVE CapsuleTyped'
  BY <1>1, <1>23, <1>s DEF CapsuleTyped, Capsule!Release, Capsule!At, Capsule!Goto, Capsule!Kept, Capsule!resources,
    Capsule!protocol, Capsule!evidence, Capsule!files, Capsule!strangers
<1>24. ASSUME Capsule!Fails PROVE CapsuleTyped'
  BY <1>1, <1>24, <1>s, CapsuleTroubleBound DEF CapsuleTyped, Capsule!Fails, Capsule!At, Capsule!Raise,
    Capsule!resources, Capsule!protocol, Capsule!evidence, Capsule!files, Capsule!strangers
<1>25. ASSUME Capsule!Swap PROVE CapsuleTyped'
 <2>1. /\ disturbed' = TRUE /\ trouble' \in {trouble, trouble + 1} /\ (trouble' # trouble => trouble < MaxCapsuleTrouble)
       /\ UNCHANGED <<inputs, pc, n, raised, leased, locked, scratch, run, hashed, child, ran, phases, answers, todo>>
   BY <1>25 DEF Capsule!Swap, Capsule!resources, Capsule!protocol, Capsule!evidence
 <2>2. exe' \in [good : BOOLEAN, file : Nat]
  <3>1. exe \in [good : BOOLEAN, file : Nat] BY <1>1 DEF CapsuleTyped
  <3>2. CASE exe' = [exe EXCEPT !.good = FALSE] BY <3>1, <3>2
  <3>3. CASE exe' = [exe EXCEPT !.good = TRUE] BY <3>1, <3>3
  <3>4. CASE exe' = [good |-> TRUE, file |-> exe.file + 1]
   <4>1. exe.file + 1 \in Nat BY <3>1
   <4> QED BY <3>4, <4>1
  <3> QED BY <1>25, <3>2, <3>3, <3>4 DEF Capsule!Swap
 <2>3. undone' \subseteq Ops BY <1>1, <1>25, OpIs DEF CapsuleTyped, Capsule!Swap
 <2>4. trouble' \in 0 .. MaxCapsuleTrouble BY <1>1, <2>1, CapsuleTroubleBound DEF CapsuleTyped
 <2> QED BY <1>1, <2>1, <2>2, <2>3, <2>4 DEF CapsuleTyped
<1> QED BY <1>2, <1>3, <1>4, <1>5, <1>6, <1>7, <1>8, <1>9, <1>10, <1>11, <1>12, <1>13, <1>14, <1>15, <1>16,
       <1>17, <1>18, <1>19, <1>20, <1>21, <1>22, <1>23, <1>24, <1>25 DEF Capsule!Next, Capsule!Step
\* An exception unwinds what is held, and nothing else.
LEMMA RaiseIsOrdered ==
  ASSUME CapsuleTyped, Ordered, pc \notin Leaving \cup {"unscratch"}, Capsule!Raise,
         UNCHANGED <<leased, locked, scratch, run>>
  PROVE  Ordered'
<1> USE DEF CapsuleStages, Before, InPhase, Closing, Leaving
<1>1. /\ pc' = Capsule!Unwound /\ raised' = TRUE
      /\ leased' = leased /\ locked' = locked /\ scratch' = scratch /\ run' = run
  BY DEF Capsule!Raise, Capsule!Goto
<1>2. CASE scratch
 <2>1. Capsule!Unwound = "unscratch" BY <1>2 DEF Capsule!Unwound
 <2>2. locked /\ leased /\ run = "active" BY <1>2 DEF CapsuleTyped, Ordered
 <2> QED BY <1>1, <1>2, <2>1, <2>2 DEF Ordered
<1>3. CASE ~scratch /\ locked
 <2>1. Capsule!Unwound = "unlock" BY <1>3 DEF Capsule!Unwound
 <2>2. leased /\ run = "active" BY <1>3 DEF CapsuleTyped, Ordered
 <2> QED BY <1>1, <1>3, <2>1, <2>2 DEF Ordered
<1>4. CASE ~scratch /\ ~locked /\ run = "active"
 <2>1. Capsule!Unwound = "finish" BY <1>4 DEF Capsule!Unwound
 <2>2. leased BY <1>4 DEF CapsuleTyped, Ordered
 <2> QED BY <1>1, <1>4, <2>1, <2>2 DEF Ordered
<1>5. CASE ~scratch /\ ~locked /\ run # "active"
 <2>1. Capsule!Unwound = IF leased THEN "release" ELSE "done" BY <1>5 DEF Capsule!Unwound
 <2> QED BY <1>1, <1>5, <2>1 DEF Ordered
<1> QED BY <1>2, <1>3, <1>4, <1>5

\* A step leaves what is held where the step is inside of it.
LEMMA CapsuleOrderedStep ==
  ASSUME CapsuleInv, Capsule!Next
  PROVE  Ordered'
<1> USE DEF CapsuleStages, Before, InPhase, Closing, Leaving
<1>1. CapsuleTyped /\ Ordered BY DEF CapsuleInv
<1>2. ASSUME Capsule!Lease PROVE Ordered'
  BY <1>1, <1>2 DEF CapsuleTyped, Ordered, Capsule!Lease, Capsule!At, Capsule!Goto, Capsule!Kept, Capsule!resources
<1>3. ASSUME Capsule!Bind PROVE Ordered'
 <2>1. /\ UNCHANGED <<leased, locked, scratch, run>>
       /\ Capsule!Raise \/ (pc' = "begin" /\ raised' = raised /\ disturbed' = disturbed)
       /\ Capsule!At("bind")
   BY <1>3 DEF Capsule!Bind, Capsule!Refuse, Capsule!Kept, Capsule!Goto, Capsule!resources
 <2>2. CASE Capsule!Raise BY <1>1, <2>1, <2>2, RaiseIsOrdered DEF Capsule!At
 <2>3. CASE pc' = "begin" /\ raised' = raised /\ disturbed' = disturbed
   BY <1>1, <2>1, <2>3 DEF Capsule!At, CapsuleTyped, Ordered
 <2> QED BY <2>1, <2>2, <2>3
<1>4. ASSUME Capsule!Begin PROVE Ordered'
  BY <1>1, <1>4 DEF CapsuleTyped, Ordered, Capsule!Begin, Capsule!At, Capsule!Goto, Capsule!Kept, Capsule!resources
<1>5. ASSUME Capsule!Inputs PROVE Ordered'
 <2>1. /\ UNCHANGED <<leased, locked, scratch, run>>
       /\ Capsule!Raise \/ (pc' = "write" /\ raised' = raised /\ disturbed' = disturbed)
       /\ Capsule!At("inputs")
   BY <1>5 DEF Capsule!Inputs, Capsule!Refuse, Capsule!Kept, Capsule!Goto, Capsule!resources
 <2>2. CASE Capsule!Raise BY <1>1, <2>1, <2>2, RaiseIsOrdered DEF Capsule!At
 <2>3. CASE pc' = "write" /\ raised' = raised /\ disturbed' = disturbed
   BY <1>1, <2>1, <2>3 DEF Capsule!At, CapsuleTyped, Ordered
 <2> QED BY <2>1, <2>2, <2>3
<1>6. ASSUME Capsule!Write PROVE Ordered'
 <2>1. pc \notin Leaving \cup {"unscratch"} /\ UNCHANGED <<leased, locked, scratch, run>>
   BY <1>6 DEF Capsule!Write, Capsule!At, Capsule!resources
 <2>2. Capsule!Raise \/ UNCHANGED <<pc, raised, disturbed>> BY <1>6 DEF Capsule!Write, Capsule!Refuse, Capsule!Kept
 <2>3. CASE Capsule!Raise BY <1>1, <2>1, <2>3, RaiseIsOrdered
 <2>4. CASE UNCHANGED <<pc, raised, disturbed>> BY <1>1, <2>1, <2>4 DEF Ordered
 <2> QED BY <2>2, <2>3, <2>4
<1>7. ASSUME Capsule!Written PROVE Ordered'
  BY <1>1, <1>7 DEF CapsuleTyped, Ordered, Capsule!Written, Capsule!At, Capsule!Goto, Capsule!Kept, Capsule!resources
<1>8. ASSUME Capsule!Lock PROVE Ordered'
  BY <1>1, <1>8 DEF CapsuleTyped, Ordered, Capsule!Lock, Capsule!At, Capsule!Goto, Capsule!Kept, Capsule!AfterRefusal,
    Capsule!resources
<1>9. ASSUME Capsule!Scratch PROVE Ordered'
  BY <1>1, <1>9 DEF CapsuleTyped, Ordered, Capsule!Scratch, Capsule!At, Capsule!Goto, Capsule!Kept, Capsule!resources
<1>10. ASSUME Capsule!Hash PROVE Ordered'
 <2>1. /\ UNCHANGED <<leased, locked, scratch, run>>
       /\ Capsule!Raise \/ (pc' = "check" /\ raised' = raised /\ disturbed' = disturbed)
       /\ Capsule!At("preflight")
   BY <1>10 DEF Capsule!Hash, Capsule!Refuse, Capsule!Kept, Capsule!Goto, Capsule!resources
 <2>2. CASE Capsule!Raise BY <1>1, <2>1, <2>2, RaiseIsOrdered DEF Capsule!At
 <2>3. CASE pc' = "check" /\ raised' = raised /\ disturbed' = disturbed
   BY <1>1, <2>1, <2>3 DEF Capsule!At, CapsuleTyped, Ordered
 <2> QED BY <2>1, <2>2, <2>3
<1>11. ASSUME Capsule!Check PROVE Ordered'
 <2>1. /\ UNCHANGED <<leased, locked, scratch, run>>
       /\ Capsule!Raise \/ (pc' = "start" /\ raised' = raised /\ disturbed' = disturbed)
       /\ Capsule!At("check")
   BY <1>11 DEF Capsule!Check, Capsule!Refuse, Capsule!Kept, Capsule!Goto, Capsule!resources
 <2>2. CASE Capsule!Raise BY <1>1, <2>1, <2>2, RaiseIsOrdered DEF Capsule!At
 <2>3. CASE pc' = "start" /\ raised' = raised /\ disturbed' = disturbed
   BY <1>1, <2>1, <2>3 DEF Capsule!At, CapsuleTyped, Ordered
 <2> QED BY <2>1, <2>2, <2>3
<1>12. ASSUME Capsule!Start PROVE Ordered'
  BY <1>1, <1>12 DEF CapsuleTyped, Ordered, Capsule!Start, Capsule!At, Capsule!Goto, Capsule!resources
<1>13. ASSUME Capsule!Collect PROVE Ordered'
 <2>1. /\ UNCHANGED <<leased, locked, scratch, run>>
       /\ Capsule!Raise \/ (pc' = "write" /\ raised' = raised /\ disturbed' = disturbed)
       /\ Capsule!At("collect")
   BY <1>13 DEF Capsule!Collect, Capsule!Refuse, Capsule!Kept, Capsule!Goto, Capsule!resources
 <2>2. CASE Capsule!Raise BY <1>1, <2>1, <2>2, RaiseIsOrdered DEF Capsule!At
 <2>3. CASE pc' = "write" /\ raised' = raised /\ disturbed' = disturbed
   BY <1>1, <2>1, <2>3 DEF Capsule!At, CapsuleTyped, Ordered
 <2> QED BY <2>1, <2>2, <2>3
<1>14. ASSUME Capsule!Accept PROVE Ordered'
  BY <1>1, <1>14 DEF CapsuleTyped, Ordered, Capsule!Accept, Capsule!At, Capsule!Kept, Capsule!resources
<1>15. ASSUME Capsule!Conclude PROVE Ordered'
  BY <1>1, <1>15 DEF CapsuleTyped, Ordered, Capsule!Conclude, Capsule!At, Capsule!Goto, Capsule!Kept,
    Capsule!Following, Capsule!resources
<1>16. ASSUME Capsule!PublishProtocol PROVE Ordered'
 <2>1. /\ UNCHANGED <<leased, locked, scratch, run>>
       /\ Capsule!Raise \/ (pc' = "authenticate" /\ raised' = raised /\ disturbed' = disturbed)
       /\ Capsule!At("terminal")
   BY <1>16 DEF Capsule!PublishProtocol, Capsule!Refuse, Capsule!Kept, Capsule!Goto, Capsule!resources
 <2>2. CASE Capsule!Raise BY <1>1, <2>1, <2>2, RaiseIsOrdered DEF Capsule!At
 <2>3. CASE pc' = "authenticate" /\ raised' = raised /\ disturbed' = disturbed
   BY <1>1, <2>1, <2>3 DEF Capsule!At, CapsuleTyped, Ordered
 <2> QED BY <2>1, <2>2, <2>3
<1>17. ASSUME Capsule!Authenticate PROVE Ordered'
  BY <1>1, <1>17 DEF CapsuleTyped, Ordered, Capsule!Authenticate, Capsule!At, Capsule!Goto, Capsule!Kept,
    Capsule!resources
<1>18. ASSUME Capsule!Unscratch PROVE Ordered'
 <2>1. /\ pc = "unscratch" /\ UNCHANGED <<leased, locked, run>>
       /\ \/ scratch' = FALSE /\ pc' = "unlock" /\ raised' = raised
          \/ scratch' = FALSE /\ pc' = "verify" /\ raised' = raised /\ ~raised
          \/ scratch' = scratch /\ pc' = "unlock" /\ disturbed' = TRUE
   BY <1>18 DEF Capsule!Unscratch, Capsule!At, Capsule!Goto, Capsule!Kept
 <2>2. leased /\ locked /\ scratch /\ run = "active" BY <1>1, <2>1 DEF Ordered
 <2>3. CASE scratch' = FALSE /\ pc' = "unlock" BY <2>1, <2>2, <2>3 DEF Ordered
 <2>4. CASE scratch' = FALSE /\ pc' = "verify" /\ raised' = raised /\ ~raised BY <2>1, <2>2, <2>4 DEF Ordered
 <2>5. CASE scratch' = scratch /\ pc' = "unlock" /\ disturbed' = TRUE BY <2>1, <2>2, <2>5 DEF Ordered
 <2> QED BY <2>1, <2>3, <2>4, <2>5
<1>19. ASSUME Capsule!Verify PROVE Ordered'
 <2>1. /\ UNCHANGED <<leased, locked, scratch, run>>
       /\ Capsule!Raise \/ (pc' = "publish" /\ raised' = raised /\ disturbed' = disturbed)
       /\ Capsule!At("verify")
   BY <1>19 DEF Capsule!Verify, Capsule!Refuse, Capsule!Kept, Capsule!Goto, Capsule!resources
 <2>2. CASE Capsule!Raise BY <1>1, <2>1, <2>2, RaiseIsOrdered DEF Capsule!At
 <2>3. CASE pc' = "publish" /\ raised' = raised /\ disturbed' = disturbed
   BY <1>1, <2>1, <2>3 DEF Capsule!At, CapsuleTyped, Ordered
 <2> QED BY <2>1, <2>2, <2>3
<1>20. ASSUME Capsule!PublishResult PROVE Ordered'
  BY <1>1, <1>20 DEF CapsuleTyped, Ordered, Capsule!PublishResult, Capsule!At, Capsule!Goto, Capsule!Kept,
    Capsule!resources
<1>21. ASSUME Capsule!Unlock PROVE Ordered'
  BY <1>1, <1>21 DEF CapsuleTyped, Ordered, Capsule!Unlock, Capsule!At, Capsule!Goto, Capsule!Kept, Capsule!resources
<1>22. ASSUME Capsule!Finish PROVE Ordered'
  BY <1>1, <1>22 DEF CapsuleTyped, Ordered, Capsule!Finish, Capsule!At, Capsule!Goto, Capsule!Kept, Capsule!resources
<1>23. ASSUME Capsule!Release PROVE Ordered'
  BY <1>1, <1>23 DEF CapsuleTyped, Ordered, Capsule!Release, Capsule!At, Capsule!Goto, Capsule!Kept, Capsule!resources
<1>24. ASSUME Capsule!Fails PROVE Ordered'
 <2>1. pc \notin Leaving \cup {"unscratch"} /\ UNCHANGED <<leased, locked, scratch, run>>
   BY <1>24 DEF Capsule!Fails, Capsule!At, Capsule!resources
 <2>2. Capsule!Raise BY <1>24 DEF Capsule!Fails
 <2> QED BY <1>1, <2>1, <2>2, RaiseIsOrdered
<1>25. ASSUME Capsule!Swap PROVE Ordered'
  BY <1>1, <1>25 DEF CapsuleTyped, Ordered, Capsule!Swap, Capsule!At, Capsule!resources
<1> QED BY <1>2, <1>3, <1>4, <1>5, <1>6, <1>7, <1>8, <1>9, <1>10, <1>11, <1>12, <1>13, <1>14, <1>15, <1>16,
       <1>17, <1>18, <1>19, <1>20, <1>21, <1>22, <1>23, <1>24, <1>25 DEF Capsule!Next, Capsule!Step

\* A step leaves the hash older than a copy that was put back.
LEMMA CapsuleExecutableStep ==
  ASSUME CapsuleInv, Capsule!Next
  PROVE  ExecutableKnown'
<1>1. CapsuleTyped /\ ExecutableKnown /\ Ordered /\ StrangersLeaveNothing /\ n \in 1 .. 3
  BY DEF CapsuleInv, CapsuleTyped
<1>2. exe.file \in Nat /\ exe.good \in BOOLEAN /\ hashed \in Nat /\ trouble \in Nat
  BY <1>1, CapsuleTroubleBound DEF CapsuleTyped
<1>3. ASSUME exe' = exe, hashed' \in {hashed, exe.file}, trouble' \in {trouble, trouble + 1}, pc' # "collect"
      PROVE  ExecutableKnown'
  BY <1>1, <1>2, <1>3 DEF ExecutableKnown
<1>4. ASSUME Capsule!Lease \/ Capsule!Bind \/ Capsule!Begin \/ Capsule!Inputs \/ Capsule!Write
             \/ Capsule!Written \/ Capsule!Lock
             \/ Capsule!Scratch \/ Capsule!Hash \/ Capsule!Check \/ Capsule!Collect \/ Capsule!Accept
             \/ Capsule!Conclude \/ Capsule!PublishProtocol \/ Capsule!Authenticate
             \/ Capsule!Unscratch \/ Capsule!Verify \/ Capsule!PublishResult \/ Capsule!Unlock
             \/ Capsule!Finish \/ Capsule!Release \/ Capsule!Fails
      PROVE  exe' = exe /\ hashed' \in {hashed, exe.file} /\ trouble' \in {trouble, trouble + 1} /\ pc' # "collect"
 <2>1. exe' = exe /\ hashed' \in {hashed, exe.file} /\ trouble' \in {trouble, trouble + 1}
   BY <1>4 DEF Capsule!Lease, Capsule!Bind, Capsule!Begin, Capsule!Inputs, Capsule!Write, Capsule!Written,
     Capsule!Lock, Capsule!Scratch, Capsule!Hash, Capsule!Check, Capsule!Collect, Capsule!Accept, Capsule!Conclude,
     Capsule!PublishProtocol, Capsule!Authenticate, Capsule!Unscratch, Capsule!Verify, Capsule!PublishResult,
     Capsule!Unlock, Capsule!Finish, Capsule!Release, Capsule!Fails, Capsule!Kept, Capsule!Refuse, Capsule!files
 <2>2. Capsule!Unwound # "collect" BY DEF Capsule!Unwound
 <2>3. pc' # "collect"
   BY <1>4, <2>2 DEF Capsule!Lease, Capsule!Bind, Capsule!Begin, Capsule!Inputs, Capsule!Write, Capsule!Written,
     Capsule!Lock, Capsule!Scratch, Capsule!Hash, Capsule!Check, Capsule!Collect, Capsule!Accept, Capsule!Conclude,
     Capsule!PublishProtocol, Capsule!Authenticate, Capsule!Unscratch, Capsule!Verify, Capsule!PublishResult,
     Capsule!Unlock, Capsule!Finish, Capsule!Release, Capsule!Fails, Capsule!Refuse, Capsule!Raise, Capsule!Goto,
     Capsule!At, Capsule!AfterRefusal
 <2> QED BY <2>1, <2>3
<1>6. ASSUME Capsule!Start PROVE ExecutableKnown'
 <2>1. PICK c \in Capsule!Returned : trouble' = trouble + c.cost BY <1>6 DEF Capsule!Start
 <2>2. c.cost \in {0, 1} BY <1>1, <2>1, ReturnedIsTyped DEF CapsuleInv, CapsuleTyped, InOrder
 <2>3. /\ exe' = exe /\ hashed' = hashed /\ (ran' = ran \/ ~exe.good) /\ undone' = undone /\ n' = n
       /\ pc = "start"
   BY <1>6 DEF Capsule!Start, Capsule!files, Capsule!protocol, Capsule!At
 <2>4. ran \ undone = {} BY <1>1, <2>3 DEF StrangersLeaveNothing, Ordered, Leaving
 <2>5. Capsule!Op' = Capsule!Op BY <2>3 DEF Capsule!Op
 <2> QED BY <1>1, <1>2, <2>1, <2>2, <2>3, <2>4, <2>5 DEF ExecutableKnown
<1>7. ASSUME Capsule!Swap PROVE ExecutableKnown'
 <2>1. hashed' = hashed /\ ran' = ran /\ pc' = pc /\ n' = n BY <1>7 DEF Capsule!Swap, Capsule!protocol
 <2>2. Capsule!Op' = Capsule!Op BY <2>1 DEF Capsule!Op
 <2>3. \/ exe.good /\ trouble' = trouble + 1 /\ exe' = [exe EXCEPT !.good = FALSE]
       \/ ~exe.good /\ trouble' = trouble /\ exe' = [good |-> TRUE, file |-> exe.file + 1]
       \/ /\ ~exe.good /\ trouble' = trouble /\ exe' = [exe EXCEPT !.good = TRUE]
          /\ undone' = IF pc = "collect" /\ Capsule!Op \in ran THEN undone \cup {Capsule!Op} ELSE undone
   BY <1>7 DEF Capsule!Swap, Capsule!At
 <2>4. exe \in [good : BOOLEAN, file : Nat] BY <1>1 DEF CapsuleTyped
 <2>5. CASE exe.good /\ trouble' = trouble + 1 /\ exe' = [exe EXCEPT !.good = FALSE]
  <3>1. exe'.good = FALSE /\ exe'.file = exe.file BY <2>4, <2>5
  <3> QED BY <1>1, <1>2, <2>1, <2>5, <3>1 DEF ExecutableKnown
 <2>6. CASE ~exe.good /\ trouble' = trouble /\ exe' = [good |-> TRUE, file |-> exe.file + 1]
  <3>1. exe'.good = TRUE /\ exe'.file = exe.file + 1 BY <2>6
  <3> QED BY <1>1, <1>2, <2>1, <2>6, <3>1 DEF ExecutableKnown
 <2>7. CASE /\ ~exe.good /\ trouble' = trouble /\ exe' = [exe EXCEPT !.good = TRUE]
            /\ undone' = IF pc = "collect" /\ Capsule!Op \in ran THEN undone \cup {Capsule!Op} ELSE undone
  <3>1. exe'.good = TRUE /\ exe'.file = exe.file BY <2>4, <2>7
  <3>2. exe'.file <= trouble' /\ hashed' <= exe'.file BY <1>1, <1>2, <2>1, <2>7, <3>1 DEF ExecutableKnown
  <3>3. ~(pc' = "collect" /\ Capsule!Op' \in ran' \ undone') BY <2>1, <2>2, <2>7
  <3> QED BY <1>2, <3>1, <3>2, <3>3 DEF ExecutableKnown
 <2> QED BY <2>3, <2>5, <2>6, <2>7
<1> QED BY <1>3, <1>4, <1>6, <1>7 DEF Capsule!Next, Capsule!Step
\* What is known of phases, answers and result is known while they stay as they are.
LEMMA InOrderFrame ==
  ASSUME InOrder, UNCHANGED <<n, phases, answers, result>>
  PROVE  InOrder'
<1>1. Capsule!Reason' = Capsule!Reason /\ Capsule!Terminal' = Capsule!Terminal /\ (Capsule!Judged' <=> Capsule!Judged)
  BY DEF Capsule!Reason, Capsule!Terminal, Capsule!Judged, Capsule!Last, Capsule!Op, Capsule!Scenario, Capsule!Names
<1>2. ASSUME NEW i PROVE (PhaseInOrder(i)' <=> PhaseInOrder(i)) /\ (Covers(i)' <=> Covers(i))
  BY DEF PhaseInOrder, Covers, RequestAt, Capsule!Names, Capsule!ExactCategory, Capsule!AcceptedDigest
<1>3. AllPassed' <=> AllPassed BY DEF AllPassed
<1> QED BY <1>1, <1>2, <1>3 DEF InOrder

\* The result is none where the operation is not judged yet.
LEMMA NoResultYet ==
  ASSUME Counted, pc \in {"write", "collect", "conclude"}
  PROVE  result = Capsule!NoResult
BY DEF Counted, InPhase

\* A step keeps phases and answers in order.
LEMMA CapsuleInOrderStep ==
  ASSUME CapsuleInv, Capsule!Next
  PROVE  InOrder'
<1>1. CapsuleTyped /\ InOrder /\ Counted BY DEF CapsuleInv
<1>2. /\ n \in 1 .. 3 /\ phases \in Seq(PhaseResults) /\ answers \in Seq(Sayings)
      /\ Len(phases) \in Nat /\ Len(answers) \in Nat
  BY <1>1 DEF CapsuleTyped
<1>3. ASSUME Capsule!Lease \/ Capsule!Bind \/ Capsule!Begin \/ Capsule!Inputs \/ Capsule!Write
             \/ Capsule!Written \/ Capsule!Lock
             \/ Capsule!Scratch \/ Capsule!Hash \/ Capsule!Check \/ Capsule!Start
             \/ Capsule!PublishProtocol \/ Capsule!Authenticate \/ Capsule!Unscratch
             \/ Capsule!Verify \/ Capsule!PublishResult \/ Capsule!Unlock \/ Capsule!Finish
             \/ Capsule!Release \/ Capsule!Fails \/ Capsule!Swap
      PROVE  InOrder'
 <2>1. UNCHANGED <<n, phases, answers, result>>
   BY <1>3 DEF Capsule!Lease, Capsule!Bind, Capsule!Begin, Capsule!Inputs, Capsule!Write, Capsule!Written,
     Capsule!Lock, Capsule!Scratch, Capsule!Hash, Capsule!Check, Capsule!Start, Capsule!PublishProtocol,
     Capsule!Authenticate, Capsule!Unscratch, Capsule!Verify, Capsule!PublishResult, Capsule!Unlock, Capsule!Finish,
     Capsule!Release, Capsule!Fails, Capsule!Swap, Capsule!protocol
 <2> QED BY <1>1, <2>1, InOrderFrame
<1>4. ASSUME Capsule!Collect PROVE InOrder'
 <2>1. pc = "collect" /\ Len(phases) = n - 1 /\ Len(answers) = n - 1 /\ result = Capsule!NoResult
   BY <1>1, <1>2, <1>4, NoResultYet DEF Capsule!Collect, Capsule!At, Counted, InOrder
 <2>2. child \in Returns /\ (child.outcome = "spawn_failed" <=> child.code = "none")
   BY <1>1, <2>1 DEF CapsuleTyped, Counted
 <2>3. /\ UNCHANGED <<n, answers, result>>
       /\ phases' = phases \/ phases' = Append(phases, Capsule!Phase(child))
   BY <1>4 DEF Capsule!Collect
 <2>4. CASE phases' = phases BY <1>1, <2>3, <2>4, InOrderFrame
 <2>5. CASE phases' = Append(phases, Capsule!Phase(child))
  <3> DEFINE phase == Capsule!Phase(child)
  <3>1. /\ phase \in PhaseResults /\ phase.op = Capsule!Op /\ phase.request = RequestAt(n)
        /\ Capsule!ExactCategory(phase) /\ Capsule!AcceptedDigest(phase) /\ Len(phase.answer) <= 1
   <4>1. Len(answers) \in {n - 1, n} BY <2>1
   <4>2. /\ phase \in PhaseResults /\ phase.op = Capsule!Op /\ phase.request = RequestAt(n)
         /\ Capsule!ExactCategory(phase) /\ Capsule!AcceptedDigest(phase)
         /\ phase.answer = <<child.out.text>> \/ phase.answer = << >>
     BY ONLY <1>2, <2>2, <4>1, PhaseIs, RequestIs
   <4>3. Len(<<child.out.text>>) = 1 /\ Len(<< >>) = 0 OBVIOUS
   <4>4. Len(phase.answer) <= 1
    <5> HIDE DEF phase
    <5>1. CASE phase.answer = <<child.out.text>> BY ONLY <4>3, <5>1
    <5>2. CASE phase.answer = << >> BY ONLY <4>3, <5>2
    <5> QED BY ONLY <4>2, <5>1, <5>2
   <4> HIDE DEF phase
   <4> QED BY ONLY <4>2, <4>4
  <3> HIDE DEF phase
  <3>2. /\ Len(phases') = n /\ phases'[n] = phase /\ DOMAIN phases' = 1 .. n
        /\ \A i \in 1 .. n - 1 : phases'[i] = phases[i]
    BY <1>2, <2>1, <2>5, <3>1 DEF phase
  <3>3. ASSUME NEW i \in 1 .. n - 1 PROVE PhaseInOrder(i)'
   <4>1. PhaseInOrder(i) /\ i \in DOMAIN phases BY <1>1, <1>2, <2>1 DEF InOrder
   <4>2. RequestAt(i)' = RequestAt(i) BY <2>3 DEF RequestAt
   <4> QED BY <2>3, <3>2, <4>1, <4>2 DEF PhaseInOrder
  <3>4. PhaseInOrder(n)'
   <4>1. RequestAt(n)' = RequestAt(n) BY <2>3 DEF RequestAt
   <4>2. ~(n' <= Len(answers)') BY <1>2, <2>1, <2>3
   <4> QED BY <2>3, <3>1, <3>2, <4>1, <4>2 DEF PhaseInOrder, Capsule!Op
  <3>5. \A i \in DOMAIN phases' : PhaseInOrder(i)'
   <4>1. \A i \in DOMAIN phases' : i = n \/ i \in 1 .. n - 1 BY <1>2, <3>2
   <4> QED BY <3>3, <3>4, <4>1, <2>3
  <3>6. (\A i \in 1 .. n - 1 : Covers(i))' /\ (n = 3 => AllPassed)'
    BY <1>1, <2>3 DEF InOrder, Covers, AllPassed, Capsule!Names
  <3>7. Len(answers)' \in {n' - 1, n'} /\ Len(answers)' <= Len(phases)' /\ Len(phases)' \in {n' - 1, n'}
    BY <1>2, <2>1, <2>3, <3>2
  <3> QED BY <2>1, <2>3, <3>5, <3>6, <3>7 DEF InOrder
 <2> QED BY <2>3, <2>4, <2>5
<1>5. ASSUME Capsule!Accept PROVE InOrder'
 <2>1. /\ pc = "conclude" /\ Len(phases) = n /\ Len(answers) = n - 1 /\ result = Capsule!NoResult
       /\ phases[n].answer # << >> /\ answers' = answers \o phases[n].answer
       /\ UNCHANGED <<n, phases, result>>
   BY <1>1, <1>2, <1>5, NoResultYet DEF Capsule!Accept, Capsule!At, Capsule!Last, Counted, InOrder
 <2>2. n \in DOMAIN phases /\ PhaseInOrder(n) /\ phases[n].answer \in Seq(Sayings)
  <3>1. n \in DOMAIN phases /\ phases[n] \in PhaseResults BY <1>2, <2>1
  <3> QED BY <1>1, <3>1 DEF InOrder, PhaseResults
 <2>3. /\ phases[n].failure = "none" /\ Len(phases[n].answer) = 1
       /\ phases[n].answer = <<phases[n].answer[1]>> /\ phases[n].answer[1] \in Sayings
  <3>1. phases[n].failure = "none" /\ Len(phases[n].answer) <= 1 BY <2>1, <2>2 DEF PhaseInOrder, Capsule!AcceptedDigest
  <3> DEFINE answer == phases[n].answer
  <3>2. answer \in Seq(Sayings) /\ answer # << >> /\ Len(answer) <= 1 BY <2>1, <2>2, <3>1
  <3> HIDE DEF answer
  <3>3. Len(answer) = 1 /\ answer = <<answer[1]>> /\ answer[1] \in Sayings BY ONLY <3>2, Singleton
  <3> QED BY <3>1, <3>3 DEF answer
 <2>4. answers' = Append(answers, phases[n].answer[1]) BY SMTT(40), <1>2, <2>1, <2>3
 <2>5. /\ Len(answers') = n /\ answers'[n] = phases[n].answer[1]
       /\ \A i \in 1 .. n - 1 : answers'[i] = answers[i]
   BY <1>2, <2>1, <2>3, <2>4
 <2>6. ASSUME NEW i \in 1 .. n PROVE PhaseInOrder(i)'
  <3>1. PhaseInOrder(i) /\ i \in DOMAIN phases BY <1>1, <1>2, <2>1 DEF InOrder
  <3>2. RequestAt(i)' = RequestAt(i) BY <1>2, <2>5 DEF RequestAt
  <3>3. phases[i].failure = "none" /\ phases[i].answer = <<answers'[i]>>
    BY <1>2, <2>1, <2>3, <2>5, <3>1 DEF PhaseInOrder
  <3> QED BY <2>1, <3>1, <3>2, <3>3 DEF PhaseInOrder
 <2>7. DOMAIN phases' = 1 .. n BY <1>2, <2>1
 <2>8. (\A i \in 1 .. n - 1 : Covers(i))' /\ (n = 3 => AllPassed)'
  <3>1. n # 1 => answers'[1] = answers[1] BY <1>2, <2>5
  <3>2. \A i \in 1 .. n - 1 : Covers(i)'
   <4> SUFFICES ASSUME NEW i \in 1 .. n - 1 PROVE Covers(i)' BY <2>1
   <4>1. Covers(i) /\ answers'[i] = answers[i] /\ answers'[1] = answers[1] BY <1>1, <1>2, <2>5, <3>1 DEF InOrder
   <4> QED BY <4>1 DEF Covers, Capsule!Names
  <3>3. n = 3 => answers'[2] = answers[2] BY <2>5
  <3>4. n = 3 => AllPassed' BY <1>1, <3>3 DEF InOrder, AllPassed
  <3> QED BY <2>1, <3>2, <3>4
 <2>9. Len(answers)' \in {n' - 1, n'} /\ Len(answers)' <= Len(phases)' /\ Len(phases)' \in {n' - 1, n'}
   BY <1>2, <2>1, <2>5
 <2> QED BY <2>1, <2>6, <2>7, <2>8, <2>9 DEF InOrder
<1>6. ASSUME Capsule!Conclude PROVE InOrder'
 <2>1. /\ pc = "conclude" /\ Len(phases) = n /\ result = Capsule!NoResult /\ Capsule!Judged
       /\ UNCHANGED <<phases, answers>>
   BY <1>1, <1>6, NoResultYet DEF Capsule!Conclude, Capsule!At, Counted
 <2>2. CASE Capsule!Reason = Capsule!Passed /\ n < 3
  <3>1. n' = n + 1 /\ result' = Capsule!NoResult BY <1>6, <2>1, <2>2 DEF Capsule!Conclude, Capsule!Following
  <3>2. /\ phases[n].failure = "none"
        /\ n > 1 => Capsule!Names(answers[Len(answers)].coords) = Capsule!Names(answers[1].coords)
        /\ n = 2 => \A o \in Capsule!ToSet(answers[2].coords) : o.passed
   <4>1. Capsule!Last(phases) = phases[n] BY <2>1 DEF Capsule!Last
   <4>2. Capsule!Op # "protocol" BY <1>2, OpIs DEF Ops
   <4> QED BY <2>2, <4>1, <4>2 DEF Capsule!Reason, Capsule!Passed, Capsule!Last, Capsule!Scenario
  <3>3. Len(answers) = n BY <2>1, <3>2 DEF Capsule!Judged, Capsule!Last
  <3>4. Covers(n) BY <1>2, <3>2, <3>3 DEF Covers
  <3>5. ASSUME NEW i \in DOMAIN phases PROVE PhaseInOrder(i)'
   <4>1. PhaseInOrder(i) BY <1>1 DEF InOrder
   <4> QED BY <2>1, <4>1 DEF PhaseInOrder, RequestAt
  <3>6. ASSUME NEW i \in 1 .. n' - 1 PROVE Covers(i)'
   <4>1. Covers(i) BY <1>1, <1>2, <3>1, <3>4 DEF InOrder
   <4> QED BY <2>1, <4>1 DEF Covers, Capsule!Names
  <3>7. n' = 3 => AllPassed' BY <1>2, <2>1, <3>1, <3>2 DEF AllPassed, Capsule!ToSet
  <3>8. Len(answers)' \in {n' - 1, n'} /\ Len(answers)' <= Len(phases)' /\ Len(phases)' \in {n' - 1, n'}
    BY <1>2, <2>1, <3>1, <3>3
  <3> QED BY <2>1, <3>1, <3>5, <3>6, <3>7, <3>8 DEF InOrder
 <2>3. CASE ~(Capsule!Reason = Capsule!Passed /\ n < 3)
  <3>1. n' = n /\ result' = Capsule!Terminal BY SMTT(40), <1>6, <2>3 DEF Capsule!Conclude
  <3>2. Capsule!Reason' = Capsule!Reason /\ Capsule!Terminal' = Capsule!Terminal /\ Capsule!Judged'
    BY <2>1, <3>1 DEF Capsule!Reason, Capsule!Terminal, Capsule!Judged, Capsule!Last, Capsule!Op, Capsule!Scenario,
      Capsule!Names
  <3>3. ASSUME NEW i \in DOMAIN phases PROVE PhaseInOrder(i)'
   <4>1. PhaseInOrder(i) BY <1>1 DEF InOrder
   <4> QED BY <2>1, <4>1 DEF PhaseInOrder, RequestAt
  <3>4. (\A i \in 1 .. n - 1 : Covers(i))' /\ (n = 3 => AllPassed)'
    BY <1>1, <2>1, <3>1 DEF InOrder, Covers, AllPassed, Capsule!Names
  <3>5. Capsule!Reason' = Capsule!Passed => n' = 3 BY <1>2, <2>3, <3>1, <3>2
  <3>6. Len(phases)' = n' /\ result' = Capsule!Terminal' BY <2>1, <3>1, <3>2
  <3>7. Len(answers)' \in {n' - 1, n'} /\ Len(answers)' <= Len(phases)' /\ Len(phases)' \in {n' - 1, n'}
    BY <1>1, <1>2, <2>1, <3>1 DEF InOrder
  <3> QED BY <2>1, <3>2, <3>3, <3>4, <3>5, <3>6, <3>7 DEF InOrder, Capsule!Passed
 <2> QED BY <2>2, <2>3
<1> QED BY <1>3, <1>4, <1>5, <1>6 DEF Capsule!Next, Capsule!Step
\* On the way out nothing is counted.
LEMMA RaiseIsCounted ==
  ASSUME Capsule!Raise
  PROVE  Counted' /\ pc' \in {"unscratch"} \cup Leaving /\ raised'
<1>1. pc' \in {"unscratch"} \cup Leaving /\ raised' BY DEF Capsule!Raise, Capsule!Goto, Capsule!Unwound, Leaving
<1> QED BY <1>1 DEF Counted, Before, InPhase, Closing, Leaving

\* The results of a child are not those of no child.
LEMMA ReturnsAreSome == \A r \in Returns : r # Capsule!None
<1> SUFFICES ASSUME NEW r \in Returns PROVE r # Capsule!None OBVIOUS
<1>1. r.outcome # "none" BY DEF Returns, Outcomes
<1> QED BY <1>1 DEF Capsule!None

\* A protocol result is not the lack of one.
LEMMA TerminalIsSome == Capsule!Terminal # Capsule!NoResult
<1>1. Capsule!Terminal.status # "none" BY DEF Capsule!Terminal
<1> QED BY <1>1 DEF Capsule!NoResult

\* A step keeps count of the operation.
LEMMA CapsuleCountedStep ==
  ASSUME CapsuleInv, Capsule!Next
  PROVE  Counted'
<1> USE DEF Before, InPhase, Closing, Leaving
<1>1. Ordered /\ Counted /\ n \in 1 .. 3 /\ Len(phases) \in Nat /\ Len(answers) \in Nat /\ pc \in CapsuleStages
  BY DEF CapsuleInv, CapsuleTyped
<1>0. /\ Len(answers) \in {n - 1, n} /\ Len(answers) <= Len(phases)
      /\ n \in 1 .. 3 /\ Len(phases) \in Nat /\ Len(answers) \in Nat
  BY <1>1 DEF CapsuleInv, InOrder
<1>2. ASSUME Capsule!Lease PROVE Counted'
  BY <1>0, <1>1, <1>2 DEF Counted, Ordered, Capsule!Lease, Capsule!At, Capsule!Goto, Capsule!Kept, Capsule!resources,
    Capsule!protocol
<1>3. ASSUME Capsule!Bind PROVE Counted'
 <2>1. /\ pc = "bind" /\ UNCHANGED <<n, phases, answers, result, child, locked>>
       /\ Capsule!Raise \/ (pc' = "begin" /\ raised' = raised)
   BY <1>3 DEF Capsule!Bind, Capsule!At, Capsule!Goto, Capsule!Kept, Capsule!Refuse, Capsule!resources,
     Capsule!protocol
 <2>2. CASE pc' = "begin" /\ raised' = raised BY <1>0, <1>1, <2>1, <2>2 DEF Counted, Ordered
 <2> QED BY <2>1, <2>2, RaiseIsCounted
<1>4. ASSUME Capsule!Begin PROVE Counted'
  BY <1>0, <1>1, <1>4 DEF Counted, Ordered, Capsule!Begin, Capsule!At, Capsule!Goto, Capsule!Kept, Capsule!resources,
    Capsule!protocol
<1>5. ASSUME Capsule!Inputs PROVE Counted'
 <2>1. /\ pc = "inputs" /\ UNCHANGED <<n, phases, answers, result, child, locked>>
       /\ Capsule!Raise \/ (pc' = "write" /\ raised' = raised)
   BY <1>5 DEF Capsule!Inputs, Capsule!At, Capsule!Goto, Capsule!Kept, Capsule!Refuse, Capsule!resources,
     Capsule!protocol
 <2>2. CASE pc' = "write" /\ raised' = raised BY <1>0, <1>1, <2>1, <2>2 DEF Counted, Ordered
 <2> QED BY <2>1, <2>2, RaiseIsCounted
<1>6. ASSUME Capsule!Write PROVE Counted'
 <2>1. Capsule!Raise \/ UNCHANGED <<pc, raised, n, phases, answers, result, child, locked>>
   BY <1>6 DEF Capsule!Write, Capsule!Refuse, Capsule!Kept, Capsule!resources, Capsule!protocol
 <2>2. CASE UNCHANGED <<pc, raised, n, phases, answers, result, child, locked>> BY <1>1, <2>2 DEF Counted
 <2> QED BY <2>1, <2>2, RaiseIsCounted
<1>7. ASSUME Capsule!Written PROVE Counted'
  BY <1>0, <1>1, <1>7 DEF Counted, Ordered, Capsule!Written, Capsule!At, Capsule!Goto, Capsule!Kept,
    Capsule!resources, Capsule!protocol
<1>8. ASSUME Capsule!Lock PROVE Counted'
  BY <1>0, <1>1, <1>8 DEF Counted, Ordered, Capsule!Lock, Capsule!At, Capsule!Goto, Capsule!Kept,
    Capsule!AfterRefusal, Capsule!resources, Capsule!protocol
<1>9. ASSUME Capsule!Scratch PROVE Counted'
  BY <1>0, <1>1, <1>9 DEF Counted, Ordered, Capsule!Scratch, Capsule!At, Capsule!Goto, Capsule!Kept,
    Capsule!resources, Capsule!protocol
<1>10. ASSUME Capsule!Hash PROVE Counted'
 <2>1. /\ pc = "preflight" /\ UNCHANGED <<n, phases, answers, result, child, locked>>
       /\ Capsule!Raise \/ (pc' = "check" /\ raised' = raised)
   BY <1>10 DEF Capsule!Hash, Capsule!At, Capsule!Goto, Capsule!Kept, Capsule!Refuse, Capsule!resources,
     Capsule!protocol
 <2>2. CASE pc' = "check" /\ raised' = raised BY <1>0, <1>1, <2>1, <2>2 DEF Counted, Ordered
 <2> QED BY <2>1, <2>2, RaiseIsCounted
<1>11. ASSUME Capsule!Check PROVE Counted'
 <2>1. /\ pc = "check" /\ UNCHANGED <<n, phases, answers, result, child, locked>>
       /\ Capsule!Raise \/ (pc' = "start" /\ raised' = raised)
   BY <1>11 DEF Capsule!Check, Capsule!At, Capsule!Goto, Capsule!Kept, Capsule!Refuse, Capsule!resources,
     Capsule!protocol
 <2>2. CASE pc' = "start" /\ raised' = raised BY <1>0, <1>1, <2>1, <2>2 DEF Counted, Ordered
 <2> QED BY <2>1, <2>2, RaiseIsCounted
<1>12. ASSUME Capsule!Start PROVE Counted'
 <2>1. /\ pc = "start" /\ pc' = "collect" /\ UNCHANGED <<n, phases, answers, result, locked, raised>>
       /\ \E c \in Capsule!Returned : child' = c.r
   BY <1>12 DEF Capsule!Start, Capsule!At, Capsule!Goto, Capsule!resources, Capsule!protocol
 <2>2. child' # Capsule!None
  <3>1. n \in 1 .. 3 /\ answers \in Seq(Sayings) /\ Len(answers) \in {n - 1, n} BY <1>0 DEF CapsuleInv, CapsuleTyped
  <3> QED BY <2>1, <3>1, ReturnedIsTyped, ReturnsAreSome
 <2> QED BY <1>0, <1>1, <2>1, <2>2 DEF Counted
<1>13. ASSUME Capsule!Collect PROVE Counted'
 <2>1. /\ pc = "collect" /\ UNCHANGED <<n, answers, result, child, locked>>
       /\ Capsule!Raise \/ (pc' = "write" /\ raised' = raised /\ phases' = Append(phases, Capsule!Phase(child)))
   BY <1>13 DEF Capsule!Collect, Capsule!At, Capsule!Goto, Capsule!Kept, Capsule!Refuse, Capsule!resources
 <2>2. CASE pc' = "write" /\ raised' = raised /\ phases' = Append(phases, Capsule!Phase(child))
  <3>1. locked /\ Len(phases) = n - 1 /\ result = Capsule!NoResult BY <1>1, <2>1, NoResultYet DEF Ordered, Counted
  <3>2. Len(phases') = n
   <4>1. phases \in Seq(PhaseResults) BY DEF CapsuleInv, CapsuleTyped
   <4> QED BY <1>0, <2>2, <3>1, <4>1
  <3> QED BY <1>0, <2>1, <2>2, <3>1, <3>2 DEF Counted
 <2> QED BY <2>1, <2>2, RaiseIsCounted
<1>14. ASSUME Capsule!Accept PROVE Counted'
 <2>1. pc = "conclude" /\ UNCHANGED <<pc, n, phases, result, child, locked, raised>>
   BY <1>14 DEF Capsule!Accept, Capsule!At, Capsule!Kept, Capsule!resources
 <2> QED BY <1>0, <1>1, <2>1 DEF Counted
<1>15. ASSUME Capsule!Conclude PROVE Counted'
 <2>1. /\ pc = "conclude" /\ child' = Capsule!None /\ UNCHANGED <<phases, answers, raised, locked>>
       /\ \/ n' = n + 1 /\ pc' = "check" /\ result' = result
          \/ n' = n /\ pc' = "terminal" /\ result' = Capsule!Terminal
   BY <1>15 DEF Capsule!Conclude, Capsule!At, Capsule!Goto, Capsule!Kept, Capsule!Following, Capsule!resources
 <2>2. Len(phases) = n /\ result = Capsule!NoResult BY <1>1, <2>1, NoResultYet DEF Counted
 <2>3. CASE n' = n + 1 /\ pc' = "check" /\ result' = result BY <1>0, <2>1, <2>2, <2>3 DEF Counted
 <2>4. CASE n' = n /\ pc' = "terminal" /\ result' = Capsule!Terminal
   BY <1>0, <2>1, <2>2, <2>4, TerminalIsSome DEF Counted
 <2> QED BY <2>1, <2>3, <2>4
<1>16. ASSUME Capsule!PublishProtocol PROVE Counted'
 <2>1. /\ pc = "terminal" /\ UNCHANGED <<n, phases, answers, result, child, locked>>
       /\ Capsule!Raise \/ (pc' = "authenticate" /\ raised' = raised)
   BY <1>16 DEF Capsule!PublishProtocol, Capsule!At, Capsule!Goto, Capsule!Kept, Capsule!Refuse, Capsule!resources,
     Capsule!protocol
 <2>2. CASE pc' = "authenticate" /\ raised' = raised BY <1>0, <1>1, <2>1, <2>2 DEF Counted, Ordered
 <2> QED BY <2>1, <2>2, RaiseIsCounted
<1>17. ASSUME Capsule!Authenticate PROVE Counted'
  BY <1>0, <1>1, <1>17 DEF Counted, Ordered, Capsule!Authenticate, Capsule!At, Capsule!Goto, Capsule!Kept,
    Capsule!resources, Capsule!protocol
<1>18. ASSUME Capsule!Unscratch PROVE Counted'
 <2>1. /\ pc = "unscratch" /\ UNCHANGED <<n, phases, answers, result, child, locked>>
       /\ pc' = "unlock" \/ (pc' = "verify" /\ raised' = raised /\ ~raised)
   BY <1>18 DEF Capsule!Unscratch, Capsule!At, Capsule!Goto, Capsule!Kept, Capsule!protocol
 <2>2. CASE pc' = "unlock" BY <2>1, <2>2 DEF Counted
 <2>3. CASE pc' = "verify" /\ raised' = raised /\ ~raised
  <3>1. locked /\ result # Capsule!NoResult /\ child = Capsule!None BY <1>1, <2>1, <2>3 DEF Counted, Ordered
  <3> QED BY <2>1, <2>3, <3>1 DEF Counted
 <2> QED BY <2>1, <2>2, <2>3
<1>19. ASSUME Capsule!Verify PROVE Counted'
 <2>1. /\ pc = "verify" /\ UNCHANGED <<n, phases, answers, result, child, locked>>
       /\ Capsule!Raise \/ (pc' = "publish" /\ raised' = raised)
   BY <1>19 DEF Capsule!Verify, Capsule!At, Capsule!Goto, Capsule!Kept, Capsule!Refuse, Capsule!resources,
     Capsule!protocol
 <2>2. CASE pc' = "publish" /\ raised' = raised BY <1>0, <1>1, <2>1, <2>2 DEF Counted, Ordered
 <2> QED BY <2>1, <2>2, RaiseIsCounted
<1>20. ASSUME Capsule!PublishResult PROVE Counted'
  BY <1>0, <1>1, <1>20 DEF Counted, Ordered, Capsule!PublishResult, Capsule!At, Capsule!Goto, Capsule!Kept,
    Capsule!resources, Capsule!protocol
<1>21. ASSUME Capsule!Unlock PROVE Counted'
  BY <1>0, <1>1, <1>21 DEF Counted, Ordered, Capsule!Unlock, Capsule!At, Capsule!Goto, Capsule!Kept,
    Capsule!resources, Capsule!protocol
<1>22. ASSUME Capsule!Finish PROVE Counted'
  BY <1>0, <1>1, <1>22 DEF Counted, Ordered, Capsule!Finish, Capsule!At, Capsule!Goto, Capsule!Kept,
    Capsule!resources, Capsule!protocol
<1>23. ASSUME Capsule!Release PROVE Counted'
  BY <1>0, <1>1, <1>23 DEF Counted, Ordered, Capsule!Release, Capsule!At, Capsule!Goto, Capsule!Kept,
    Capsule!resources, Capsule!protocol
<1>24. ASSUME Capsule!Fails PROVE Counted'
 <2>1. Capsule!Raise BY <1>24 DEF Capsule!Fails
 <2> QED BY <2>1, RaiseIsCounted
<1>25. ASSUME Capsule!Swap PROVE Counted'
  BY <1>0, <1>1, <1>25 DEF Counted, Ordered, Capsule!Swap, Capsule!At, Capsule!resources, Capsule!protocol
<1> QED BY <1>2, <1>3, <1>4, <1>5, <1>6, <1>7, <1>8, <1>9, <1>10, <1>11, <1>12, <1>13, <1>14, <1>15, <1>16,
       <1>17, <1>18, <1>19, <1>20, <1>21, <1>22, <1>23, <1>24, <1>25 DEF Capsule!Next, Capsule!Step
----------------------------------------
(* Entries *)

\* An entry elsewhere is no evidence of a phase.
LEMMA EvidencedElsewhere ==
  ASSUME NEW i, NEW entries, NEW e, e.path[1] # Capsule!Operations[i]
  PROVE  Evidenced(i, entries \cup {e}) <=> Evidenced(i, entries)
<1> DEFINE op == Capsule!Operations[i]
<1>1. \A name : TextsAt(<<op, name>>, entries \cup {e}) = TextsAt(<<op, name>>, entries)
 <2> SUFFICES ASSUME NEW name PROVE TextsAt(<<op, name>>, entries \cup {e}) = TextsAt(<<op, name>>, entries) OBVIOUS
 <2>1. e.path # <<op, name>> OBVIOUS
 <2> HIDE DEF op
 <2> QED BY <2>1 DEF TextsAt
<1>2. OutputOf(op, entries \cup {e}) = OutputOf(op, entries) BY DEF OutputOf
<1> HIDE DEF op
<1>3. op = Capsule!Operations[i] BY DEF op
<1> QED BY ONLY <1>1, <1>2, <1>3 DEF Evidenced

\* Where the output of a child is published
LEMMA StdoutIs ==
  ASSUME NEW r \in Returns
  PROVE  /\ \E name \in {"stdout-unavailable.txt", "stdout.json", "stdout.txt"} :
              Capsule!StdoutArtifact(r).path = <<Capsule!Op, name>>
         /\ Capsule!Failure(r) = "none" =>
              Capsule!StdoutArtifact(r) = Capsule!Entry(Capsule!Op, "stdout.json", r.out.text)
<1>1. \/ Capsule!StdoutArtifact(r) = Capsule!Entry(Capsule!Op, "stdout-unavailable.txt", Capsule!Plain("withheld"))
      \/ Capsule!StdoutArtifact(r) = Capsule!Entry(Capsule!Op, "stdout-unavailable.txt", Capsule!Plain("unavailable"))
      \/ Capsule!StdoutArtifact(r) = Capsule!Entry(Capsule!Op, "stdout.json", r.out.text)
      \/ Capsule!StdoutArtifact(r) = Capsule!Entry(Capsule!Op, "stdout.txt", r.out.text)
  BY DEF Capsule!StdoutArtifact
<1>2. \A name, text : Capsule!Entry(Capsule!Op, name, text).path = <<Capsule!Op, name>> BY DEF Capsule!Entry
<1>3. ASSUME Capsule!Failure(r) = "none"
      PROVE  Capsule!StdoutArtifact(r) = Capsule!Entry(Capsule!Op, "stdout.json", r.out.text)
 <2>1. Capsule!Category(r) = "none" /\ Capsule!Safe(r.out.text) /\ r.out.text.is = "response"
   BY <1>3 DEF Capsule!Failure
 <2>2. r.out.complete BY <2>1 DEF Capsule!Category
 <2>3. Capsule!Json(r.out.text) /\ r.out.text.is # "binary" BY <2>1 DEF Capsule!Json
 <2> QED BY <2>1, <2>2, <2>3 DEF Capsule!StdoutArtifact
<1> QED BY <1>1, <1>2, <1>3

\* The artifacts of a phase are its evidence, among entries that are not of it.
LEMMA ArtifactsAreEvidence ==
  ASSUME n \in 1 .. 3, answers \in Seq(Sayings), Len(answers) \in {n - 1, n}, NEW r \in Returns,
         NEW others, \A e \in others : e.path[1] # Capsule!Op
  PROVE  LET entries == others \cup Capsule!ToSet(Capsule!Artifacts(r)) IN
           /\ \A e \in Capsule!ToSet(Capsule!Artifacts(r)) : e.path[1] = Capsule!Op
           /\ TextsAt(<<Capsule!Op, "request.json">>, entries) = {Capsule!Request}
           /\ TextsAt(<<Capsule!Op, "process.json">>, entries) # {}
           /\ Capsule!Failure(r) = "none" => r.out.text \in TextsAt(<<Capsule!Op, "stdout.json">>, entries)
           /\ OutputOf(Capsule!Op, entries) = {Capsule!StdoutArtifact(r)}
<1> DEFINE request == Capsule!Entry(Capsule!Op, "request.json", Capsule!Request)
           process == Capsule!Entry(Capsule!Op, "process.json", Capsule!Text("process", Capsule!Op, << >>, << >>))
           out     == Capsule!StdoutArtifact(r)
           err     == [path |-> <<Capsule!Op, "stderr.txt">>, text |-> r.err.text, media |-> "text/plain"]
           mine    == Capsule!ToSet(Capsule!Artifacts(r))
           entries == others \cup mine
           op      == Capsule!Op
<1>1. request \in mine /\ process \in mine /\ out \in mine /\ mine \subseteq {request, process, out, err}
  BY ArtifactsAre
<1>2. /\ request.path = <<op, "request.json">> /\ request.text = Capsule!Request
      /\ process.path = <<op, "process.json">> /\ err.path = <<op, "stderr.txt">>
  BY DEF Capsule!Entry
<1>3. \E name \in {"stdout-unavailable.txt", "stdout.json", "stdout.txt"} : out.path = <<op, name>> BY StdoutIs
<1>4. Capsule!Failure(r) = "none" => out.path = <<op, "stdout.json">> /\ out.text = r.out.text
  BY StdoutIs DEF Capsule!Entry
<1> HIDE DEF request, process, out, err, mine, op
<1>5. \A e \in mine : e.path[1] = op BY <1>1, <1>2, <1>3
<1>6. \A e \in others : e.path[1] # op BY DEF op
<1>7. \A e \in entries : e.path[1] = op => e = request \/ e = process \/ e = out \/ e = err BY <1>1, <1>6
<1>8. /\ request.path[1] = op /\ request.path[2] = "request.json"
      /\ process.path[1] = op /\ process.path[2] = "process.json"
      /\ err.path[1] = op /\ err.path[2] = "stderr.txt"
      /\ out.path[1] = op /\ out.path[2] \in {"stdout-unavailable.txt", "stdout.json", "stdout.txt"}
  BY <1>2, <1>3
<1>9. \A e \in entries : \A name : e.path = <<op, name>> => e.path[1] = op /\ e.path[2] = name OBVIOUS
<1>10. TextsAt(<<op, "request.json">>, entries) = {Capsule!Request}
 <2>1. \A e \in entries : e.path = <<op, "request.json">> => e = request BY <1>7, <1>8, <1>9
 <2> QED BY <1>1, <1>2, <2>1 DEF TextsAt
<1>11. TextsAt(<<op, "process.json">>, entries) # {}
 <2>1. process.text \in TextsAt(<<op, "process.json">>, entries) BY <1>1, <1>2 DEF TextsAt
 <2> QED BY <2>1
<1>12. Capsule!Failure(r) = "none" => r.out.text \in TextsAt(<<op, "stdout.json">>, entries) BY <1>1, <1>4 DEF TextsAt
<1>13. OutputOf(op, entries) = {out} BY <1>1, <1>7, <1>8 DEF OutputOf
<1> QED BY <1>5, <1>10, <1>11, <1>12, <1>13 DEF out, mine, op

\* Another entry changes what is published at its path only.
LEMMA PublishedGrows ==
  ASSUME NEW e, portable' = portable \cup {e}
  PROVE  /\ ProtocolResult' =
              IF e.path = <<"protocol", "result.json">> THEN ProtocolResult \cup {e.text} ELSE ProtocolResult
         /\ CapsuleResult' =
              IF e.path = <<"capsule", "result.json">> THEN CapsuleResult \cup {e.text} ELSE CapsuleResult
<1> DEFINE At(path, entries) == {p.text : p \in {q \in entries : q.path = path}}
<1>1. \A path : At(path, portable \cup {e}) =
                   IF e.path = path THEN At(path, portable) \cup {e.text} ELSE At(path, portable)
  OBVIOUS
<1>2. /\ ProtocolResult = At(<<"protocol", "result.json">>, portable)
      /\ CapsuleResult = At(<<"capsule", "result.json">>, portable)
      /\ ProtocolResult' = At(<<"protocol", "result.json">>, portable')
      /\ CapsuleResult' = At(<<"capsule", "result.json">>, portable')
  BY DEF ProtocolResult, CapsuleResult, Capsule!Published
<1> HIDE DEF At
<1> QED BY <1>1, <1>2

\* What is published is that as long as it is.
LEMMA EvidenceFrame ==
  ASSUME UNCHANGED <<inputs, phases, portable>>
  PROVE  /\ ProtocolResult' = ProtocolResult /\ CapsuleResult' = CapsuleResult
         /\ Inputs' = Inputs /\ (Capsule!Preflight' <=> Capsule!Preflight)
         /\ \A i, entries : Evidenced(i, entries)' <=> Evidenced(i, entries)
<1>1. ProtocolResult' = ProtocolResult /\ CapsuleResult' = CapsuleResult
  BY DEF ProtocolResult, CapsuleResult, Capsule!Published
<1>2. Inputs' = Inputs BY DEF Inputs, Capsule!InputEntries
<1>3. Capsule!Preflight' <=> Capsule!Preflight BY DEF Capsule!Preflight
<1>4. \A i, entries : Evidenced(i, entries)' <=> Evidenced(i, entries) BY DEF Evidenced
<1> QED BY <1>1, <1>2, <1>3, <1>4
\* Safe entries of the inputs or of the operation add to what is witnessed.
LEMMA WitnessedGrows ==
  ASSUME CapsuleInv, UNCHANGED <<inputs, n, phases, answers, result>>, NEW e, portable' = portable \cup {e},
         e.media \in Media, Capsule!Safe(e.text), Capsule!Preflight,
         e.path[1] \in {"capsule", "protocol"} \/ (e.path[1] = Capsule!Op /\ Len(phases) = n),
         ProtocolResult' # {} => result # Capsule!NoResult /\ ProtocolResult' = {Capsule!ResultText(result)}
  PROVE  Witnessed'
<1>1. /\ Witnessed /\ n \in 1 .. 3 /\ Len(phases) \in Nat BY DEF CapsuleInv, CapsuleTyped
<1>2. e.path[1] \in Ops \cup {"capsule", "protocol"} BY <1>1, OpIs
<1>3. \A f \in portable' : f.media \in Media /\ Capsule!Safe(f.text) /\ f.path[1] \in Ops \cup {"capsule", "protocol"}
  BY <1>1, <1>2 DEF Witnessed
<1>4. Capsule!Preflight' BY DEF Capsule!Preflight
<1>5. ASSUME NEW i \in 1 .. 3, i > Len(phases) PROVE \A f \in portable' : f.path[1] # Capsule!Operations[i]
 <2>1. e.path[1] # Capsule!Operations[i]
  <3>1. CASE e.path[1] \in {"capsule", "protocol"} BY <3>1, OperationsAre DEF Ops
  <3>2. CASE e.path[1] = Capsule!Op /\ Len(phases) = n BY <1>1, <1>5, <3>2, OperationsAre, OpIs
  <3> QED BY <3>1, <3>2
 <2> QED BY <1>1, <1>5, <2>1 DEF Witnessed
<1>6. ASSUME NEW i \in 1 .. n - 1 PROVE Evidenced(i, portable)'
 <2>1. i \in 1 .. 3 /\ i # n BY <1>1
 <2>2. e.path[1] # Capsule!Operations[i]
  <3>1. CASE e.path[1] \in {"capsule", "protocol"} BY <2>1, <3>1, OperationsAre DEF Ops
  <3>2. CASE e.path[1] = Capsule!Op BY <1>1, <2>1, <3>2, OperationsAre, OpIs
  <3> QED BY <3>1, <3>2
 <2>3. Evidenced(i, portable \cup {e}) BY <1>1, <2>2, EvidencedElsewhere DEF Witnessed
 <2> QED BY <2>3 DEF Evidenced
<1>7. Capsule!ResultText(result)' = Capsule!ResultText(result) BY DEF Capsule!ResultText
<1> QED BY <1>3, <1>4, <1>5, <1>6, <1>7 DEF Witnessed

\* The artifact that is published next
LEMMA NextArtifact ==
  ASSUME CapsuleInv, Capsule!Write
  PROVE  LET e == Head(todo) IN
           /\ e \in Entries /\ Capsule!Safe(e.text) /\ e.path[1] = (IF locked THEN Capsule!Op ELSE "capsule")
           /\ e.path # <<"protocol", "result.json">> /\ e.path # <<"capsule", "result.json">>
           /\ Tail(todo) \in Seq(Entries) /\ Capsule!ToSet(todo) = {e} \cup Capsule!ToSet(Tail(todo))
           /\ portable' = portable \/ portable' = portable \cup {e}
           /\ (Capsule!Raise /\ todo' = todo)
                \/ (todo' = Tail(todo) /\ portable' = portable \cup {e} /\ UNCHANGED <<pc, raised>>)
           /\ pc = "write" /\ UNCHANGED <<inputs, n, phases, answers, result, locked>>
<1>1. /\ pc = "write" /\ todo # << >> /\ UNCHANGED <<inputs, n, phases, answers, result, locked>>
      /\ portable' = portable \/ portable' = portable \cup {Head(todo)}
      /\ (Capsule!Raise /\ todo' = todo)
           \/ (todo' = Tail(todo) /\ portable' = portable \cup {Head(todo)} /\ UNCHANGED <<pc, raised>>)
  BY DEF Capsule!Write, Capsule!At, Capsule!Refuse, Capsule!Kept, Capsule!protocol, Capsule!resources,
    Capsule!evidence
<1>2. /\ Head(todo) \in Entries /\ Tail(todo) \in Seq(Entries)
      /\ Capsule!ToSet(todo) = {Head(todo)} \cup Capsule!ToSet(Tail(todo))
  BY <1>1, HeadAndTail DEF CapsuleInv, CapsuleTyped
<1>3. Capsule!Safe(Head(todo).text) /\ Head(todo).path[1] = (IF locked THEN Capsule!Op ELSE "capsule")
  BY <1>1, <1>2 DEF CapsuleInv, Staged, InHand
<1>4. Head(todo).path[2] # "result.json" BY <1>2 DEF Entries, EntryNames
<1> QED BY <1>1, <1>2, <1>3, <1>4

\* A step keeps what the evidence is a witness of.
LEMMA CapsuleWitnessedStep ==
  ASSUME CapsuleInv, Capsule!Next
  PROVE  Witnessed'
<1>1. Ordered /\ Counted /\ Witnessed /\ Staged /\ n \in 1 .. 3 /\ Len(phases) \in Nat BY DEF CapsuleInv, CapsuleTyped
<1>2. /\ Len(answers) \in {n - 1, n} /\ phases \in Seq(PhaseResults) BY DEF CapsuleInv, InOrder, CapsuleTyped
<1>3. ASSUME Capsule!Lease \/ Capsule!Bind \/ Capsule!Begin \/ Capsule!Inputs \/ Capsule!Written \/ Capsule!Lock
             \/ Capsule!Scratch \/ Capsule!Hash \/ Capsule!Check \/ Capsule!Start
             \/ Capsule!Authenticate \/ Capsule!Unscratch
             \/ Capsule!Verify \/ Capsule!Unlock \/ Capsule!Finish \/ Capsule!Release \/ Capsule!Fails
             \/ Capsule!Swap
      PROVE  Witnessed'
 <2>1. UNCHANGED <<inputs, n, phases, answers, result, portable>>
   BY <1>3 DEF Capsule!Lease, Capsule!Bind, Capsule!Begin, Capsule!Inputs, Capsule!Written, Capsule!Lock,
     Capsule!Scratch, Capsule!Hash, Capsule!Check, Capsule!Start, Capsule!Authenticate, Capsule!Unscratch,
     Capsule!Verify, Capsule!Unlock, Capsule!Finish, Capsule!Release, Capsule!Fails, Capsule!Swap, Capsule!protocol,
     Capsule!evidence
 <2>2. Capsule!ResultText(result)' = Capsule!ResultText(result) BY <2>1 DEF Capsule!ResultText
 <2> QED BY <1>1, <2>1, <2>2, EvidenceFrame DEF Witnessed
<1>4. ASSUME Capsule!Write PROVE Witnessed'
 <2>1. CASE portable' = portable
  <3>1. UNCHANGED <<inputs, n, phases, answers, result>> BY <1>4, NextArtifact
  <3>2. Capsule!ResultText(result)' = Capsule!ResultText(result) BY <3>1 DEF Capsule!ResultText
  <3> QED BY <1>1, <2>1, <3>1, <3>2, EvidenceFrame DEF Witnessed
 <2>2. CASE portable' = portable \cup {Head(todo)}
  <3> DEFINE e == Head(todo)
  <3>1. /\ e \in Entries /\ Capsule!Safe(e.text) /\ e.path[1] = (IF locked THEN Capsule!Op ELSE "capsule")
        /\ e.path # <<"protocol", "result.json">> /\ pc = "write"
        /\ UNCHANGED <<inputs, n, phases, answers, result>>
    BY <1>4, NextArtifact
  <3> HIDE DEF e
  <3>2. Capsule!Preflight /\ (locked => Len(phases) = n) BY <1>1, <3>1 DEF Staged, Counted
  <3>3. portable' = portable \cup {e} BY <2>2 DEF e
  <3>4. ProtocolResult' = ProtocolResult BY <3>1, <3>3, PublishedGrows
  <3>5. ProtocolResult' # {} => result # Capsule!NoResult /\ ProtocolResult' = {Capsule!ResultText(result)}
    BY <1>1, <3>4 DEF Witnessed
  <3>6. e.media \in Media BY <3>1 DEF Entries
  <3>7. e.path[1] \in {"capsule", "protocol"} \/ (e.path[1] = Capsule!Op /\ Len(phases) = n) BY <3>1, <3>2
  <3> QED BY <3>1, <3>2, <3>3, <3>5, <3>6, <3>7, WitnessedGrows
 <2> QED BY <1>4, <2>1, <2>2, NextArtifact
<1>5. ASSUME Capsule!Collect PROVE Witnessed'
 <2>1. /\ UNCHANGED <<inputs, n, answers, result, portable>> /\ pc = "collect"
       /\ phases' = phases \/ phases' = Append(phases, Capsule!Phase(child))
   BY <1>5 DEF Capsule!Collect, Capsule!At
 <2>2. Len(phases) = n - 1 BY <1>1, <2>1 DEF Counted, InPhase
 <2>3. Len(phases') \in Nat /\ Len(phases') >= Len(phases) /\ \A i \in 1 .. n - 1 : phases'[i] = phases[i]
   BY <1>1, <1>2, <2>1, <2>2
 <2>4. \A i \in 1 .. n - 1 : Evidenced(i, portable)' BY <1>1, <2>1, <2>3 DEF Witnessed, Evidenced
 <2>5. ProtocolResult' = ProtocolResult /\ (Capsule!Preflight' <=> Capsule!Preflight)
   BY <2>1 DEF ProtocolResult, Capsule!Published, Capsule!Preflight
 <2>6. Capsule!ResultText(result)' = Capsule!ResultText(result) BY <2>1 DEF Capsule!ResultText
 <2>7. \A i \in 1 .. 3 : i > Len(phases') => i > Len(phases) BY <1>1, <2>3
 <2> QED BY <1>1, <2>1, <2>4, <2>5, <2>6, <2>7 DEF Witnessed
<1>6. ASSUME Capsule!Accept PROVE Witnessed'
 <2>1. UNCHANGED <<inputs, n, phases, result, portable>> /\ pc = "conclude"
   BY <1>6 DEF Capsule!Accept, Capsule!At, Capsule!evidence
 <2>2. ProtocolResult = {} BY <1>1, <2>1, NoResultYet DEF Witnessed
 <2> QED BY <1>1, <2>1, <2>2, EvidenceFrame DEF Witnessed
<1>7. ASSUME Capsule!Conclude PROVE Witnessed'
 <2>1. UNCHANGED <<inputs, phases, answers, portable>> /\ n' \in {n, n + 1} /\ pc = "conclude"
   BY <1>7 DEF Capsule!Conclude, Capsule!At, Capsule!evidence, Capsule!Following
 <2>2. ProtocolResult = {} /\ Evidenced(n, portable) BY <1>1, <2>1, NoResultYet DEF Witnessed, Staged
 <2>3. \A i \in 1 .. n' - 1 : i \in 1 .. n - 1 \/ i = n
  <3>1. CASE n' = n BY <3>1
  <3>2. CASE n' = n + 1
   <4>1. n \in Nat BY <1>1
   <4> QED BY <3>2, <4>1
  <3> QED BY <2>1, <3>1, <3>2
 <2>4. \A i \in 1 .. n' - 1 : Evidenced(i, portable)' BY <1>1, <2>1, <2>2, <2>3, EvidenceFrame DEF Witnessed
 <2> QED BY <1>1, <2>1, <2>2, <2>4, EvidenceFrame DEF Witnessed
<1>8. ASSUME Capsule!PublishProtocol PROVE Witnessed'
 <2> DEFINE e == Capsule!Entry("protocol", "result.json", Capsule!ResultText(result))
 <2>1. /\ pc = "terminal" /\ UNCHANGED <<inputs, n, phases, answers, result>>
       /\ portable' = portable \/ portable' = portable \cup {e}
   BY <1>8 DEF Capsule!PublishProtocol, Capsule!At, Capsule!protocol
 <2>2. /\ e.media \in Media /\ e.text = Capsule!ResultText(result) /\ Capsule!Safe(e.text)
       /\ e.path = <<"protocol", "result.json">>
   BY DEF Capsule!Entry, Media, Capsule!ResultText, Capsule!Text, Capsule!Safe, Capsule!Secrets
 <2> HIDE DEF e
 <2>3. ProtocolResult = {} /\ result # Capsule!NoResult /\ Capsule!Preflight
   BY <1>1, <2>1 DEF Staged, Counted, Ordered, InPhase
 <2>4. CASE portable' = portable
  <3>1. Capsule!ResultText(result)' = Capsule!ResultText(result) BY <2>1 DEF Capsule!ResultText
  <3> QED BY <1>1, <2>1, <2>4, <3>1, EvidenceFrame DEF Witnessed
 <2>5. CASE portable' = portable \cup {e}
  <3>1. ProtocolResult' = {Capsule!ResultText(result)} BY <2>2, <2>3, <2>5, PublishedGrows
  <3>2. e.path[1] \in {"capsule", "protocol"} BY <2>2
  <3> QED BY <2>1, <2>2, <2>3, <2>5, <3>1, <3>2, WitnessedGrows
 <2> QED BY <2>1, <2>4, <2>5
<1>9. ASSUME Capsule!PublishResult PROVE Witnessed'
 <2> DEFINE e == Capsule!Entry("capsule", "result.json", Capsule!EnclosingText(Capsule!EnclosingReason))
 <2>1. pc = "publish" /\ UNCHANGED <<inputs, n, phases, answers, result>> /\ portable' = portable \cup {e}
   BY <1>9 DEF Capsule!PublishResult, Capsule!At, Capsule!protocol
 <2>2. e.media \in Media /\ Capsule!Safe(e.text) /\ e.path = <<"capsule", "result.json">>
   BY DEF Capsule!Entry, Media, Capsule!EnclosingText, Capsule!Text, Capsule!Safe, Capsule!Secrets
 <2> HIDE DEF e
 <2>3. Capsule!Preflight BY <1>1, <2>1 DEF Staged, Closing
 <2>4. ProtocolResult' = ProtocolResult BY <2>1, <2>2, PublishedGrows
 <2>5. e.path[1] \in {"capsule", "protocol"} BY <2>2
 <2> QED BY <1>1, <2>1, <2>2, <2>3, <2>4, <2>5, WitnessedGrows DEF Witnessed
<1> QED BY <1>3, <1>4, <1>5, <1>6, <1>7, <1>8, <1>9 DEF Capsule!Next, Capsule!Step
\* What is published, and what is said of it, stays when nothing is published or judged.
LEMMA StagedFrame ==
  ASSUME UNCHANGED <<inputs, n, phases, answers, result, portable>>
  PROVE  /\ ProtocolResult' = ProtocolResult /\ CapsuleResult' = CapsuleResult
         /\ Inputs' = Inputs /\ (Capsule!Preflight' <=> Capsule!Preflight)
         /\ Evidenced(n, portable)' <=> Evidenced(n, portable)
         /\ Capsule!EnclosingText(Capsule!EnclosingReason)' = Capsule!EnclosingText(Capsule!EnclosingReason)
<1>1. /\ ProtocolResult' = ProtocolResult /\ CapsuleResult' = CapsuleResult
      /\ Inputs' = Inputs /\ (Capsule!Preflight' <=> Capsule!Preflight)
  BY EvidenceFrame
<1>2. Evidenced(n, portable)' <=> Evidenced(n, portable) BY DEF Evidenced
<1>3. Capsule!EnclosingText(Capsule!EnclosingReason)' = Capsule!EnclosingText(Capsule!EnclosingReason)
  BY DEF Capsule!EnclosingText, Capsule!EnclosingReason
<1> QED BY <1>1, <1>2, <1>3

\* An exception publishes nothing.
LEMMA RaiseIsStaged ==
  ASSUME Staged, pc' \in {"unscratch"} \cup Leaving, raised', pc \notin Leaving,
         UNCHANGED <<inputs, n, phases, answers, result, portable, locked>>
  PROVE  Staged'
<1> USE DEF Before, InPhase, Closing, Leaving
<1>1. /\ ProtocolResult' = ProtocolResult /\ CapsuleResult' = CapsuleResult
      /\ Inputs' = Inputs /\ (Capsule!Preflight' <=> Capsule!Preflight)
      /\ Evidenced(n, portable)' <=> Evidenced(n, portable)
  BY StagedFrame
<1> QED BY <1>1 DEF Staged

\* A step that publishes nothing and judges nothing, and does not come to publish, keeps what is
\* published where it was.
LEMMA QuietIsStaged ==
  ASSUME Staged, pc' # "write", UNCHANGED <<inputs, n, phases, answers, result, portable>>,
         pc' \in Closing \cup {"lock"} \/ locked' => Capsule!Preflight,
         pc' = "lock" \/ locked' => Inputs \subseteq portable,
         pc' = "conclude" => Evidenced(n, portable),
         pc' \in Before \cup InPhase \cup {"lock", "scratch"} /\ pc' # "authenticate" => ProtocolResult = {},
         ~raised' /\ result # Capsule!NoResult /\ pc' \in Closing \cup {"authenticate", "unscratch", "unlock", "finish"} =>
            ProtocolResult # {},
         pc' \notin Leaving => CapsuleResult = {},
         ~raised' /\ pc' \in {"unlock", "finish"} => CapsuleResult = {Capsule!EnclosingText(Capsule!EnclosingReason)}
  PROVE  Staged'
<1>1. /\ ProtocolResult' = ProtocolResult /\ CapsuleResult' = CapsuleResult
      /\ Inputs' = Inputs /\ (Capsule!Preflight' <=> Capsule!Preflight)
      /\ Evidenced(n, portable)' <=> Evidenced(n, portable)
      /\ Capsule!EnclosingText(Capsule!EnclosingReason)' = Capsule!EnclosingText(Capsule!EnclosingReason)
  BY StagedFrame
<1> QED BY <1>1 DEF Staged

\* A step keeps what is published at each step.
LEMMA CapsuleStagedStep ==
  ASSUME CapsuleInv, Capsule!Next
  PROVE  Staged'
<1> USE DEF Before, InPhase, Closing, Leaving
<1>1. Ordered /\ Counted /\ Witnessed /\ Staged /\ n \in 1 .. 3 /\ Len(phases) \in Nat BY DEF CapsuleInv, CapsuleTyped
<1>2. /\ Len(answers) \in {n - 1, n} /\ phases \in Seq(PhaseResults) /\ answers \in Seq(Sayings)
  BY DEF CapsuleInv, InOrder, CapsuleTyped
<1>3. ASSUME Capsule!Lease PROVE Staged'
 <2>1. /\ UNCHANGED <<inputs, n, phases, answers, result, portable>>
       /\ pc = "lease" /\ pc' = "bind" /\ locked' = locked
   BY <1>3 DEF Capsule!Lease, Capsule!At, Capsule!Goto, Capsule!Kept, Capsule!resources, Capsule!protocol,
     Capsule!evidence, Capsule!files
 <2> QED BY <1>1, <2>1, QuietIsStaged DEF Staged, Ordered, Counted
<1>4. ASSUME Capsule!Bind PROVE Staged'
 <2>1. UNCHANGED <<inputs, n, phases, answers, result, portable>> /\ pc = "bind" /\ locked' = locked
   BY <1>4 DEF Capsule!Bind, Capsule!At, Capsule!Goto, Capsule!Kept, Capsule!Refuse, Capsule!resources,
     Capsule!protocol, Capsule!evidence, Capsule!files
 <2>2. CASE pc' = "begin" BY <1>1, <2>1, <2>2, QuietIsStaged DEF Staged, Ordered, Counted
 <2>3. CASE Capsule!Raise BY <1>1, <2>1, <2>3, RaiseIsCounted, RaiseIsStaged
 <2>4. Capsule!Raise \/ pc' = "begin"
   BY <1>4 DEF Capsule!Bind, Capsule!At, Capsule!Goto, Capsule!Kept, Capsule!Refuse, Capsule!resources,
     Capsule!protocol, Capsule!evidence, Capsule!files
 <2> QED BY <2>2, <2>3, <2>4
<1>5. ASSUME Capsule!Begin PROVE Staged'
 <2>1. /\ UNCHANGED <<inputs, n, phases, answers, result, portable>>
       /\ pc = "begin" /\ pc' = "inputs" /\ locked' = locked
   BY <1>5 DEF Capsule!Begin, Capsule!At, Capsule!Goto, Capsule!Kept, Capsule!resources, Capsule!protocol,
     Capsule!evidence, Capsule!files
 <2> QED BY <1>1, <2>1, QuietIsStaged DEF Staged, Ordered, Counted
<1>6. ASSUME Capsule!Lock PROVE Staged'
 <2>1. /\ UNCHANGED <<inputs, n, phases, answers, result, portable>>
       /\ pc = "lock" /\ pc' \in {"scratch", "verify"}
   BY <1>6 DEF Capsule!Lock, Capsule!At, Capsule!Goto, Capsule!Kept, Capsule!AfterRefusal, Capsule!resources,
     Capsule!protocol, Capsule!evidence, Capsule!files
 <2> QED BY <1>1, <2>1, QuietIsStaged DEF Staged, Ordered, Counted
<1>7. ASSUME Capsule!Hash PROVE Staged'
 <2>1. UNCHANGED <<inputs, n, phases, answers, result, portable>> /\ pc = "preflight" /\ locked' = locked
   BY <1>7 DEF Capsule!Hash, Capsule!At, Capsule!Goto, Capsule!Kept, Capsule!Refuse, Capsule!resources,
     Capsule!protocol, Capsule!evidence, Capsule!files
 <2>2. CASE pc' = "check" BY <1>1, <2>1, <2>2, QuietIsStaged DEF Staged, Ordered, Counted
 <2>3. CASE Capsule!Raise BY <1>1, <2>1, <2>3, RaiseIsCounted, RaiseIsStaged
 <2>4. Capsule!Raise \/ pc' = "check"
   BY <1>7 DEF Capsule!Hash, Capsule!At, Capsule!Goto, Capsule!Kept, Capsule!Refuse, Capsule!resources,
     Capsule!protocol, Capsule!evidence, Capsule!files
 <2> QED BY <2>2, <2>3, <2>4
<1>8. ASSUME Capsule!Check PROVE Staged'
 <2>1. UNCHANGED <<inputs, n, phases, answers, result, portable>> /\ pc = "check" /\ locked' = locked
   BY <1>8 DEF Capsule!Check, Capsule!At, Capsule!Goto, Capsule!Kept, Capsule!Refuse, Capsule!resources,
     Capsule!protocol, Capsule!evidence, Capsule!files
 <2>2. CASE pc' = "start" BY <1>1, <2>1, <2>2, QuietIsStaged DEF Staged, Ordered, Counted
 <2>3. CASE Capsule!Raise BY <1>1, <2>1, <2>3, RaiseIsCounted, RaiseIsStaged
 <2>4. Capsule!Raise \/ pc' = "start"
   BY <1>8 DEF Capsule!Check, Capsule!At, Capsule!Goto, Capsule!Kept, Capsule!Refuse, Capsule!resources,
     Capsule!protocol, Capsule!evidence, Capsule!files
 <2> QED BY <2>2, <2>3, <2>4
<1>9. ASSUME Capsule!Start PROVE Staged'
 <2>1. /\ UNCHANGED <<inputs, n, phases, answers, result, portable>>
       /\ pc = "start" /\ pc' = "collect" /\ locked' = locked
   BY <1>9 DEF Capsule!Start, Capsule!At, Capsule!Goto, Capsule!resources, Capsule!protocol, Capsule!evidence,
     Capsule!files
 <2> QED BY <1>1, <2>1, QuietIsStaged DEF Staged, Ordered, Counted
<1>10. ASSUME Capsule!Authenticate PROVE Staged'
 <2>1. /\ UNCHANGED <<inputs, n, phases, answers, result, portable>>
       /\ pc = "authenticate" /\ pc' = "unscratch" /\ locked' = locked /\ raised' = raised
   BY <1>10 DEF Capsule!Authenticate, Capsule!At, Capsule!Goto, Capsule!Kept, Capsule!resources, Capsule!protocol,
     Capsule!evidence, Capsule!files
 <2> QED BY <1>1, <2>1, QuietIsStaged DEF Staged, Ordered, Counted
<1>11. ASSUME Capsule!Verify PROVE Staged'
 <2>1. UNCHANGED <<inputs, n, phases, answers, result, portable>> /\ pc = "verify" /\ locked' = locked
   BY <1>11 DEF Capsule!Verify, Capsule!At, Capsule!Goto, Capsule!Kept, Capsule!Refuse, Capsule!resources,
     Capsule!protocol, Capsule!evidence, Capsule!files
 <2>2. CASE pc' = "publish" BY <1>1, <2>1, <2>2, QuietIsStaged DEF Staged, Ordered, Counted
 <2>3. CASE Capsule!Raise BY <1>1, <2>1, <2>3, RaiseIsCounted, RaiseIsStaged
 <2>4. Capsule!Raise \/ pc' = "publish"
   BY <1>11 DEF Capsule!Verify, Capsule!At, Capsule!Goto, Capsule!Kept, Capsule!Refuse, Capsule!resources,
     Capsule!protocol, Capsule!evidence, Capsule!files
 <2> QED BY <2>2, <2>3, <2>4
<1>12. ASSUME Capsule!Unlock PROVE Staged'
 <2>1. /\ UNCHANGED <<inputs, n, phases, answers, result, portable>>
       /\ pc = "unlock" /\ pc' = "finish" /\ ~locked' /\ raised' = raised
   BY <1>12 DEF Capsule!Unlock, Capsule!At, Capsule!Goto, Capsule!Kept, Capsule!resources, Capsule!protocol,
     Capsule!evidence, Capsule!files
 <2> QED BY <1>1, <2>1, QuietIsStaged DEF Staged, Ordered, Counted
<1>13. ASSUME Capsule!Finish PROVE Staged'
 <2>1. /\ UNCHANGED <<inputs, n, phases, answers, result, portable>>
       /\ pc = "finish" /\ pc' = "release" /\ locked' = locked
   BY <1>13 DEF Capsule!Finish, Capsule!At, Capsule!Goto, Capsule!Kept, Capsule!resources, Capsule!protocol,
     Capsule!evidence, Capsule!files
 <2> QED BY <1>1, <2>1, QuietIsStaged DEF Staged, Ordered, Counted
<1>14. ASSUME Capsule!Release PROVE Staged'
 <2>1. /\ UNCHANGED <<inputs, n, phases, answers, result, portable>>
       /\ pc = "release" /\ pc' = "done" /\ locked' = locked
   BY <1>14 DEF Capsule!Release, Capsule!At, Capsule!Goto, Capsule!Kept, Capsule!resources, Capsule!protocol,
     Capsule!evidence, Capsule!files
 <2> QED BY <1>1, <2>1, QuietIsStaged DEF Staged, Ordered, Counted
<1>15. ASSUME Capsule!Written PROVE Staged'
 <2>1. /\ UNCHANGED <<inputs, n, phases, answers, result, portable>> /\ pc = "write" /\ locked' = locked
       /\ todo = << >> /\ pc' = (IF locked THEN "conclude" ELSE "lock")
   BY <1>15 DEF Capsule!Written, Capsule!At, Capsule!Goto, Capsule!Kept, Capsule!resources, Capsule!protocol,
     Capsule!evidence, Capsule!files
 <2>2. Settled = portable
  <3>1. Capsule!ToSet(todo) = {} BY <2>1 DEF Capsule!ToSet
  <3> QED BY <3>1 DEF Settled
 <2>3. Evidenced(n, Settled) <=> Evidenced(n, portable) BY <2>2
 <2> QED BY <1>1, <2>1, <2>2, <2>3, QuietIsStaged DEF Staged, Ordered, Counted
<1>16. ASSUME Capsule!Scratch PROVE Staged'
 <2>1. /\ UNCHANGED <<inputs, n, phases, answers, result, portable>> /\ pc = "scratch" /\ locked' = locked
       /\ pc' = "preflight" \/ (pc' = "unscratch" /\ raised')
   BY <1>16 DEF Capsule!Scratch, Capsule!At, Capsule!Goto, Capsule!Kept, Capsule!resources, Capsule!protocol,
     Capsule!evidence, Capsule!files
 <2>2. CASE pc' = "preflight" BY <1>1, <2>1, <2>2, QuietIsStaged DEF Staged, Ordered, Counted
 <2>3. CASE pc' = "unscratch" /\ raised' BY <1>1, <2>1, <2>3, RaiseIsStaged
 <2> QED BY <2>1, <2>2, <2>3
<1>17. ASSUME Capsule!Unscratch PROVE Staged'
 <2>1. /\ UNCHANGED <<inputs, n, phases, answers, result, portable>> /\ pc = "unscratch" /\ locked' = locked
       /\ \/ pc' = (IF raised THEN "unlock" ELSE "verify") /\ raised' = raised
          \/ pc' = "unlock" /\ raised'
   BY <1>17 DEF Capsule!Unscratch, Capsule!At, Capsule!Goto, Capsule!Kept, Capsule!resources, Capsule!protocol,
     Capsule!evidence, Capsule!files
 <2>2. CASE pc' = "verify" /\ ~raised' BY <1>1, <2>1, <2>2, QuietIsStaged DEF Staged, Ordered
 <2>3. CASE pc' = "unlock" /\ raised' BY <1>1, <2>1, <2>3, RaiseIsStaged
 <2> QED BY <2>1, <2>2, <2>3
<1>18. ASSUME Capsule!Fails PROVE Staged'
 <2>1. /\ UNCHANGED <<inputs, n, phases, answers, result, portable>>
       /\ locked' = locked /\ pc \notin Leaving /\ Capsule!Raise
   BY <1>18 DEF Capsule!Fails, Capsule!At, Capsule!resources, Capsule!protocol, Capsule!evidence, Capsule!files
 <2> QED BY <1>1, <2>1, RaiseIsCounted, RaiseIsStaged
<1>19. ASSUME Capsule!Swap PROVE Staged'
 <2>1. UNCHANGED <<inputs, n, phases, answers, result, portable>> /\ UNCHANGED <<pc, raised, locked, todo>>
   BY <1>19 DEF Capsule!Swap, Capsule!At, Capsule!resources, Capsule!protocol, Capsule!evidence, Capsule!files
 <2>2. /\ InHand' <=> InHand
       /\ Settled' = Settled /\ (Evidenced(n, Settled)' <=> Evidenced(n, Settled))
   BY <2>1 DEF InHand, Settled, Evidenced, Capsule!Op
 <2> QED BY <1>1, <2>1, <2>2, StagedFrame DEF Staged
<1>20. ASSUME Capsule!Inputs PROVE Staged'
 <2>1. /\ UNCHANGED <<inputs, n, phases, answers, result, portable>> /\ pc = "inputs" /\ locked' = locked
       /\ \/ Capsule!Preflight /\ todo' = Capsule!InputEntries /\ pc' = "write"
          \/ Capsule!Raise
   BY <1>20 DEF Capsule!Inputs, Capsule!At, Capsule!Goto, Capsule!Kept, Capsule!Refuse, Capsule!resources,
     Capsule!protocol, Capsule!evidence, Capsule!files
 <2>2. CASE Capsule!Raise BY <1>1, <2>1, <2>2, RaiseIsCounted, RaiseIsStaged
 <2>3. CASE Capsule!Preflight /\ todo' = Capsule!InputEntries /\ pc' = "write"
  <3>1. ~locked' /\ result = Capsule!NoResult /\ ProtocolResult = {} /\ CapsuleResult = {}
    BY <1>1, <2>1 DEF Ordered, Counted, Staged
  <3>2. Capsule!ToSet(todo') = Inputs /\ Inputs' = Inputs BY <2>1, <2>3, StagedFrame DEF Inputs
  <3>3. InHand'
   <4>1. Capsule!Safe(inputs[1]) /\ Capsule!Safe(inputs[2])
     BY <2>3 DEF Capsule!Preflight, Capsule!ToSet, CapsuleInv, CapsuleTyped
   <4>2. Inputs = {Capsule!Entry("capsule", "build.json", inputs[1]), Capsule!Entry("capsule", "machine.json", inputs[2])}
     BY DEF Inputs, Capsule!InputEntries, Capsule!ToSet
   <4>3. \A e \in Inputs : Capsule!Safe(e.text) /\ e.path[1] = "capsule" BY <4>1, <4>2 DEF Capsule!Entry
   <4> QED BY <3>1, <3>2, <4>3 DEF InHand, Capsule!Safe, Capsule!Secrets
  <3>4. Inputs' \subseteq Settled' BY <3>2 DEF Settled
  <3> QED BY <2>1, <2>3, <3>1, <3>3, <3>4, StagedFrame DEF Staged
 <2> QED BY <2>1, <2>2, <2>3
<1>21. ASSUME Capsule!Write PROVE Staged'
 <2> DEFINE e == Head(todo)
 <2>1. /\ e \in Entries /\ Capsule!Safe(e.text) /\ e.path[1] = (IF locked THEN Capsule!Op ELSE "capsule")
       /\ e.path # <<"protocol", "result.json">> /\ e.path # <<"capsule", "result.json">>
       /\ Tail(todo) \in Seq(Entries) /\ Capsule!ToSet(todo) = {e} \cup Capsule!ToSet(Tail(todo))
       /\ portable' = portable \/ portable' = portable \cup {e}
       /\ (Capsule!Raise /\ todo' = todo)
            \/ (todo' = Tail(todo) /\ portable' = portable \cup {e} /\ UNCHANGED <<pc, raised>>)
       /\ pc = "write" /\ UNCHANGED <<inputs, n, phases, answers, result, locked>>
   BY <1>21, NextArtifact
 <2> HIDE DEF e
 <2>2. /\ ProtocolResult' = ProtocolResult /\ CapsuleResult' = CapsuleResult
       /\ ProtocolResult = {} /\ CapsuleResult = {}
  <3>1. ProtocolResult = {} /\ CapsuleResult = {} BY <1>1, <2>1 DEF Staged
  <3>2. CASE portable' = portable BY <2>1, <3>1, <3>2, StagedFrame
  <3>3. CASE portable' = portable \cup {e} BY <2>1, <3>1, <3>3, PublishedGrows
  <3> QED BY <2>1, <3>1, <3>2, <3>3
 <2>3. /\ Inputs' = Inputs /\ (Capsule!Preflight' <=> Capsule!Preflight) /\ portable \subseteq portable'
   BY <2>1 DEF Inputs, Capsule!InputEntries, Capsule!Preflight
 <2>4. result = Capsule!NoResult BY <1>1, <2>1, NoResultYet
 <2>5. CASE Capsule!Raise
  <3>1. pc' \in {"unscratch"} \cup Leaving /\ raised' BY <2>5, RaiseIsCounted
  <3> QED BY <1>1, <2>1, <2>2, <2>3, <2>4, <3>1 DEF Staged
 <2>6. CASE todo' = Tail(todo) /\ portable' = portable \cup {e} /\ UNCHANGED <<pc, raised>>
  <3>1. Settled' = Settled BY <2>1, <2>6 DEF Settled
  <3>2. InHand'
   <4>1. InHand /\ Capsule!ToSet(todo') \subseteq Capsule!ToSet(todo) BY <1>1, <2>1, <2>6 DEF Staged
   <4> QED BY <2>1, <4>1 DEF InHand, Capsule!Op, Capsule!Safe, Capsule!Secrets
  <3>3. Evidenced(n, Settled)' <=> Evidenced(n, Settled) BY <2>1, <3>1 DEF Evidenced
  <3> QED BY <1>1, <2>1, <2>2, <2>3, <2>4, <2>6, <3>1, <3>2, <3>3 DEF Staged
 <2> QED BY <2>1, <2>5, <2>6
<1>22. ASSUME Capsule!Collect PROVE Staged'
 <2>1. /\ UNCHANGED <<inputs, n, answers, result, portable, locked>> /\ pc = "collect"
       /\ \/ /\ \A e \in Capsule!ToSet(Capsule!Artifacts(child)) : Capsule!Safe(e.text)
             /\ todo' = Capsule!Artifacts(child) /\ phases' = Append(phases, Capsule!Phase(child))
             /\ pc' = "write"
          \/ Capsule!Raise /\ phases' = phases
   BY <1>22 DEF Capsule!Collect, Capsule!At, Capsule!Goto, Capsule!Kept, Capsule!Refuse, Capsule!resources,
     Capsule!protocol, Capsule!evidence, Capsule!files
 <2>2. CASE Capsule!Raise /\ phases' = phases BY <1>1, <2>1, <2>2, RaiseIsCounted, RaiseIsStaged
 <2>3. CASE /\ \A e \in Capsule!ToSet(Capsule!Artifacts(child)) : Capsule!Safe(e.text)
            /\ todo' = Capsule!Artifacts(child) /\ phases' = Append(phases, Capsule!Phase(child))
            /\ pc' = "write"
  <3>1. /\ locked /\ result = Capsule!NoResult /\ ProtocolResult = {} /\ CapsuleResult = {}
        /\ Len(phases) = n - 1 /\ Capsule!Preflight /\ Inputs \subseteq portable
    BY <1>1, <2>1 DEF Ordered, Counted, Staged
  <3>2. child \in Returns /\ (child.outcome = "spawn_failed" <=> child.code = "none")
    BY <1>1, <2>1 DEF CapsuleInv, CapsuleTyped, Counted
  <3>3. \A e \in portable : e.path[1] # Capsule!Op BY <1>1, <3>1, OpIs DEF Witnessed
  <3> DEFINE entries == portable \cup Capsule!ToSet(Capsule!Artifacts(child))
             phase   == Capsule!Phase(child)
  <3>4. /\ \A e \in Capsule!ToSet(Capsule!Artifacts(child)) : e.path[1] = Capsule!Op
        /\ TextsAt(<<Capsule!Op, "request.json">>, entries) = {Capsule!Request}
        /\ TextsAt(<<Capsule!Op, "process.json">>, entries) # {}
        /\ Capsule!Failure(child) = "none" => child.out.text \in TextsAt(<<Capsule!Op, "stdout.json">>, entries)
        /\ OutputOf(Capsule!Op, entries) = {Capsule!StdoutArtifact(child)}
    BY ONLY <1>1, <1>2, <3>2, <3>3, ArtifactsAreEvidence
  <3>5. phase.request = Capsule!Request /\ phase.answer = IF Capsule!Failure(child) = "none" THEN <<child.out.text>> ELSE << >>
    BY ONLY <1>1, <1>2, <3>2, PhaseIs
  <3>6. Capsule!ToSet(phase.answer) \subseteq TextsAt(<<Capsule!Op, "stdout.json">>, entries)
   <4>1. CASE Capsule!Failure(child) = "none"
    <5> DEFINE said == child.out.text
    <5>1. phase.answer = <<said>> /\ said \in TextsAt(<<Capsule!Op, "stdout.json">>, entries) BY <3>4, <3>5, <4>1
    <5> HIDE DEF said, phase, entries
    <5>2. Capsule!ToSet(<<said>>) = {said} BY DEF Capsule!ToSet
    <5> QED BY <5>1, <5>2
   <4>2. CASE Capsule!Failure(child) # "none"
    <5>1. phase.answer = << >> BY <3>5, <4>2
    <5> HIDE DEF phase
    <5>2. Capsule!ToSet(<< >>) = {} BY DEF Capsule!ToSet
    <5> QED BY <5>1, <5>2
   <4> QED BY <4>1, <4>2
  <3>7. Settled' = entries BY <2>1, <2>3 DEF Settled
  <3> HIDE DEF entries, phase
  <3>8. phases'[n] = phase BY <1>1, <1>2, <2>3, <3>1 DEF phase
  <3>9. Evidenced(n, Settled)'
   <4> DEFINE one == Capsule!StdoutArtifact(child)
   <4>1. Capsule!Operations[n] = Capsule!Op BY OpIs, <1>1
   <4>2. OutputOf(Capsule!Op, entries) = {one} BY <3>4
   <4> HIDE DEF one
   <4>3. \E only : OutputOf(Capsule!Op, entries) = {only} BY <4>2
   <4> QED BY <2>1, <3>4, <3>5, <3>6, <3>7, <3>8, <4>1, <4>3 DEF Evidenced
  <3>10. InHand' BY <2>1, <2>3, <3>1, <3>4 DEF InHand, Capsule!Op, Capsule!Safe, Capsule!Secrets
  <3>11. /\ ProtocolResult' = ProtocolResult /\ CapsuleResult' = CapsuleResult
         /\ Inputs' = Inputs /\ (Capsule!Preflight' <=> Capsule!Preflight)
    BY <2>1 DEF ProtocolResult, CapsuleResult, Capsule!Published, Inputs, Capsule!InputEntries, Capsule!Preflight
  <3>12. Inputs' \subseteq Settled' /\ Inputs' \subseteq portable' BY <2>1, <3>1, <3>7, <3>11 DEF entries
  <3> QED BY <2>1, <2>3, <3>1, <3>9, <3>10, <3>11, <3>12 DEF Staged
 <2> QED BY <2>1, <2>2, <2>3
<1>23. ASSUME Capsule!Accept PROVE Staged'
 <2>1. UNCHANGED <<inputs, n, phases, result, portable, pc, raised, locked>> /\ pc = "conclude"
   BY <1>23 DEF Capsule!Accept, Capsule!At, Capsule!Kept, Capsule!resources, Capsule!protocol, Capsule!evidence,
     Capsule!files
 <2>2. Evidenced(n, portable)' <=> Evidenced(n, portable) BY <2>1 DEF Evidenced
 <2> QED BY <1>1, <2>1, <2>2, EvidenceFrame DEF Staged
<1>24. ASSUME Capsule!Conclude PROVE Staged'
 <2>1. /\ UNCHANGED <<inputs, phases, answers, portable, raised, locked>> /\ pc = "conclude"
       /\ \/ pc' = "check" /\ result' = result
          \/ pc' = "terminal" /\ n' = n
   BY <1>24 DEF Capsule!Conclude, Capsule!At, Capsule!Goto, Capsule!Kept, Capsule!Following, Capsule!resources,
     Capsule!protocol, Capsule!evidence, Capsule!files
 <2>2. result = Capsule!NoResult /\ ProtocolResult = {} /\ CapsuleResult = {} /\ Evidenced(n, portable)
   BY <1>1, <2>1, NoResultYet DEF Staged
 <2>3. CASE pc' = "check" /\ result' = result BY <1>1, <2>1, <2>2, <2>3, EvidenceFrame DEF Staged
 <2>4. CASE pc' = "terminal" /\ n' = n
  <3>1. Evidenced(n, portable)' BY <2>1, <2>2, <2>4 DEF Evidenced
  <3> QED BY <1>1, <2>1, <2>2, <2>4, <3>1, EvidenceFrame DEF Staged
 <2> QED BY <2>1, <2>3, <2>4
<1>25. ASSUME Capsule!PublishProtocol PROVE Staged'
 <2> DEFINE e == Capsule!Entry("protocol", "result.json", Capsule!ResultText(result))
 <2>1. /\ pc = "terminal" /\ UNCHANGED <<inputs, n, phases, answers, result, locked>>
       /\ \/ portable' = portable \cup {e} /\ pc' = "authenticate" /\ raised' = raised
          \/ Capsule!Raise /\ portable' = portable
   BY <1>25 DEF Capsule!PublishProtocol, Capsule!At, Capsule!Goto, Capsule!Kept, Capsule!Refuse, Capsule!resources,
     Capsule!protocol, Capsule!evidence, Capsule!files
 <2>2. e.path = <<"protocol", "result.json">> /\ e.path # <<"capsule", "result.json">> /\ e.path[1] = "protocol"
   BY DEF Capsule!Entry
 <2> HIDE DEF e
 <2>3. CASE Capsule!Raise /\ portable' = portable BY <1>1, <2>1, <2>3, RaiseIsCounted, RaiseIsStaged
 <2>4. CASE portable' = portable \cup {e} /\ pc' = "authenticate" /\ raised' = raised
  <3>1. ProtocolResult' # {} /\ CapsuleResult' = CapsuleResult BY <2>2, <2>4, PublishedGrows
  <3>2. /\ Inputs' = Inputs /\ (Capsule!Preflight' <=> Capsule!Preflight) /\ portable \subseteq portable'
    BY <2>1, <2>4 DEF Inputs, Capsule!InputEntries, Capsule!Preflight
  <3>3. result # Capsule!NoResult BY <1>1, <2>1 DEF Counted
  <3>4. Evidenced(n, portable)'
   <4>1. "protocol" # Capsule!Operations[n] BY <1>1, OperationsAre DEF Ops
   <4>2. Evidenced(n, portable \cup {e}) BY <1>1, <2>2, <3>3, <4>1, EvidencedElsewhere DEF Staged
   <4> QED BY <2>1, <2>4, <4>2 DEF Evidenced
  <3> QED BY <1>1, <2>1, <2>4, <3>1, <3>2, <3>4 DEF Staged, Ordered
 <2> QED BY <2>1, <2>3, <2>4
<1>26. ASSUME Capsule!PublishResult PROVE Staged'
 <2> DEFINE e == Capsule!Entry("capsule", "result.json", Capsule!EnclosingText(Capsule!EnclosingReason))
 <2>1. /\ pc = "publish" /\ pc' = "unlock" /\ portable' = portable \cup {e}
       /\ UNCHANGED <<inputs, n, phases, answers, result, locked, raised>>
   BY <1>26 DEF Capsule!PublishResult, Capsule!At, Capsule!Goto, Capsule!Kept, Capsule!resources, Capsule!protocol,
     Capsule!evidence, Capsule!files
 <2>2. /\ e.path = <<"capsule", "result.json">> /\ e.path # <<"protocol", "result.json">> /\ e.path[1] = "capsule"
       /\ e.text = Capsule!EnclosingText(Capsule!EnclosingReason)
   BY DEF Capsule!Entry
 <2> HIDE DEF e
 <2>3. Capsule!EnclosingText(Capsule!EnclosingReason)' = Capsule!EnclosingText(Capsule!EnclosingReason)
   BY <2>1 DEF Capsule!EnclosingText, Capsule!EnclosingReason
 <2>4. CapsuleResult' = {Capsule!EnclosingText(Capsule!EnclosingReason)'} /\ ProtocolResult' = ProtocolResult
  <3>1. CapsuleResult = {} BY <1>1, <2>1 DEF Staged
  <3> QED BY <2>1, <2>2, <2>3, <3>1, PublishedGrows
 <2>5. /\ Inputs' = Inputs /\ (Capsule!Preflight' <=> Capsule!Preflight) /\ portable \subseteq portable'
   BY <2>1 DEF Inputs, Capsule!InputEntries, Capsule!Preflight
 <2>6. result # Capsule!NoResult => Evidenced(n, portable)'
  <3>1. "capsule" # Capsule!Operations[n] BY <1>1, OperationsAre DEF Ops
  <3>2. result # Capsule!NoResult => Evidenced(n, portable \cup {e}) BY <1>1, <2>2, <3>1, EvidencedElsewhere DEF Staged
  <3> QED BY <2>1, <3>2 DEF Evidenced
 <2> QED BY <1>1, <2>1, <2>4, <2>5, <2>6 DEF Staged, Ordered
<1> QED BY <1>3, <1>4, <1>5, <1>6, <1>7, <1>8, <1>9, <1>10, <1>11, <1>12, <1>13, <1>14, <1>15, <1>16, <1>17,
       <1>18, <1>19, <1>20, <1>21, <1>22, <1>23, <1>24, <1>25, <1>26 DEF Capsule!Next, Capsule!Step
\* A step that runs another executable leaves an exception and nothing else.
LEMMA CapsuleStrangersStep ==
  ASSUME CapsuleInv, Capsule!Next
  PROVE  StrangersLeaveNothing'
<1> USE DEF Before, InPhase, Closing, Leaving
<1>1. Ordered /\ Counted /\ Staged /\ ExecutableKnown /\ StrangersLeaveNothing /\ n \in 1 .. 3
  BY DEF CapsuleInv, CapsuleTyped
<1>2. ASSUME UNCHANGED <<n, phases, result, portable, ran, undone>>, pc # "collect", raised => raised'
      PROVE  StrangersLeaveNothing'
 <2>1. ProtocolResult' = ProtocolResult /\ Capsule!Op' = Capsule!Op
   BY <1>2 DEF ProtocolResult, Capsule!Published, Capsule!Op
 <2> QED BY <1>1, <1>2, <2>1 DEF StrangersLeaveNothing
<1>3. ASSUME ran' = ran, undone' = undone, pc \notin {"collect", "unscratch"} \cup Leaving
      PROVE  StrangersLeaveNothing'
 <2>1. ran \ undone = {} BY <1>1, <1>3 DEF StrangersLeaveNothing, Ordered
 <2> QED BY <1>3, <2>1 DEF StrangersLeaveNothing
<1>4. ASSUME Capsule!Lease \/ Capsule!Bind \/ Capsule!Begin \/ Capsule!Inputs \/ Capsule!Write
             \/ Capsule!Written \/ Capsule!Lock \/ Capsule!Scratch \/ Capsule!Hash \/ Capsule!Check
             \/ Capsule!Accept \/ Capsule!Conclude \/ Capsule!PublishProtocol \/ Capsule!Authenticate
             \/ Capsule!Verify \/ Capsule!PublishResult \/ Capsule!Fails
      PROVE  StrangersLeaveNothing'
 <2>1. ran' = ran /\ undone' = undone /\ pc \notin {"collect", "unscratch"} \cup Leaving
   BY <1>4 DEF Capsule!Lease, Capsule!Bind, Capsule!Begin, Capsule!Inputs, Capsule!Write, Capsule!Written,
     Capsule!Lock, Capsule!Scratch, Capsule!Hash, Capsule!Check, Capsule!Accept, Capsule!Conclude,
     Capsule!PublishProtocol, Capsule!Authenticate, Capsule!Verify, Capsule!PublishResult, Capsule!Fails, Capsule!At,
     Capsule!strangers
 <2> QED BY <1>3, <2>1
<1>5. ASSUME Capsule!Unscratch \/ Capsule!Unlock \/ Capsule!Finish \/ Capsule!Release
      PROVE  StrangersLeaveNothing'
 <2>1. UNCHANGED <<n, phases, result, portable, ran, undone>> /\ pc # "collect" /\ (raised => raised')
   BY <1>5 DEF Capsule!Unscratch, Capsule!Unlock, Capsule!Finish, Capsule!Release, Capsule!At, Capsule!Kept,
     Capsule!protocol, Capsule!evidence, Capsule!strangers
 <2> QED BY <1>2, <2>1
<1>6. ASSUME Capsule!Start PROVE StrangersLeaveNothing'
 <2>1. /\ pc = "start" /\ pc' = "collect" /\ UNCHANGED <<n, phases, result, portable>>
       /\ (ran' = ran \/ ran' = ran \cup {Capsule!Op}) /\ undone' = undone
   BY <1>6 DEF Capsule!Start, Capsule!At, Capsule!Goto, Capsule!protocol, Capsule!evidence
 <2>2. /\ ran \ undone = {} /\ Len(phases) = n - 1 /\ result = Capsule!NoResult /\ ProtocolResult = {}
   BY <1>1, <2>1 DEF StrangersLeaveNothing, Ordered, Counted, Staged
 <2>3. ProtocolResult' = ProtocolResult /\ Capsule!Op' = Capsule!Op
   BY <2>1 DEF ProtocolResult, Capsule!Published, Capsule!Op
 <2> QED BY <2>1, <2>2, <2>3 DEF StrangersLeaveNothing
<1>7. ASSUME Capsule!Collect PROVE StrangersLeaveNothing'
 <2>1. CASE ran \ undone = {}
  <3>1. ran' \ undone' = {} BY <1>7, <2>1 DEF Capsule!Collect, Capsule!strangers
  <3> QED BY <3>1 DEF StrangersLeaveNothing
 <2>2. CASE ran \ undone # {}
  <3>4. pc = "collect" /\ Capsule!Op \in ran \ undone
    BY <1>1, <1>7, <2>2 DEF StrangersLeaveNothing, Capsule!Collect, Capsule!At
  <3>1. ~Capsule!Stable BY <1>1, <3>4 DEF ExecutableKnown, Capsule!Stable, CapsuleInv, CapsuleTyped
  <3>2. raised' /\ UNCHANGED <<n, phases, result, portable, ran, undone>>
    BY <1>7, <3>1 DEF Capsule!Collect, Capsule!Collected, Capsule!Refuse, Capsule!Raise, Capsule!strangers
  <3>3. ProtocolResult' = ProtocolResult /\ Capsule!Op' = Capsule!Op
    BY <3>2 DEF ProtocolResult, Capsule!Published, Capsule!Op
  <3> QED BY <1>1, <2>2, <3>2, <3>3 DEF StrangersLeaveNothing
 <2> QED BY <2>1, <2>2
<1>8. ASSUME Capsule!Swap PROVE StrangersLeaveNothing'
 <2>1. UNCHANGED <<n, phases, result, portable, ran, pc, raised>> /\ undone \subseteq undone'
   BY <1>8 DEF Capsule!Swap, Capsule!protocol, Capsule!evidence
 <2>2. ProtocolResult' = ProtocolResult /\ Capsule!Op' = Capsule!Op
   BY <2>1 DEF ProtocolResult, Capsule!Published, Capsule!Op
 <2> QED BY <1>1, <2>1, <2>2 DEF StrangersLeaveNothing
<1> QED BY <1>4, <1>5, <1>6, <1>7, <1>8 DEF Capsule!Next, Capsule!Step

\* What there is a judgement of is the judgement "passed" only when nothing went wrong.
LEMMA PassedIsPassed ==
  ASSUME n \in 1 .. 3, phases \in Seq(PhaseResults), Len(phases) = n, Capsule!Reason[2] = "passed"
  PROVE  Capsule!Reason = Capsule!Passed
<1>1. phases[n] \in PhaseResults /\ Capsule!Last(phases) = phases[n] BY DEF Capsule!Last
<1>2. phases[n].failure # "passed" BY <1>1 DEF PhaseResults
<1>3. /\ <<Capsule!Op, phases[n].failure>>[2] = phases[n].failure
      /\ <<Capsule!Op, "incomplete">>[2] = "incomplete" /\ <<Capsule!Op, "failed">>[2] = "failed"
  OBVIOUS
<1>4. \/ Capsule!Reason = <<Capsule!Op, phases[n].failure>> \/ Capsule!Reason = <<Capsule!Op, "incomplete">>
      \/ Capsule!Reason = <<Capsule!Op, "failed">> \/ Capsule!Reason = Capsule!Passed
  BY <1>1 DEF Capsule!Reason
<1> QED BY <1>2, <1>3, <1>4

\* A judgement stays when nothing is judged.
LEMMA SucceededFrame ==
  ASSUME Succeeded, UNCHANGED <<n, phases, answers, result, portable, run>>
  PROVE  Succeeded'
<1>1. /\ Capsule!Reason' = Capsule!Reason /\ Capsule!ResultText(result)' = Capsule!ResultText(result)
      /\ Capsule!EnclosingText("passed")' = Capsule!EnclosingText("passed") /\ Capsule!Passed' = Capsule!Passed
  BY DEF Capsule!Reason, Capsule!ResultText, Capsule!EnclosingText, Capsule!Last, Capsule!Op, Capsule!Scenario,
    Capsule!Names, Capsule!Passed
<1>2. ProtocolResult' = ProtocolResult /\ CapsuleResult' = CapsuleResult
  BY DEF ProtocolResult, CapsuleResult, Capsule!Published
<1> QED BY <1>1, <1>2 DEF Succeeded

\* A run succeeds with a result, and keeps it.
LEMMA CapsuleSucceededStep ==
  ASSUME CapsuleInv, Capsule!Next
  PROVE  Succeeded'
<1> USE DEF Leaving
<1>1. Ordered /\ Witnessed /\ Staged /\ InOrder /\ Succeeded /\ n \in 1 .. 3 /\ phases \in Seq(PhaseResults) /\ pc \in CapsuleStages
  BY DEF CapsuleInv, CapsuleTyped
<1>2. ASSUME Capsule!Lease \/ Capsule!Bind \/ Capsule!Begin \/ Capsule!Inputs \/ Capsule!Write
             \/ Capsule!Written \/ Capsule!Lock \/ Capsule!Scratch \/ Capsule!Hash \/ Capsule!Check
             \/ Capsule!Start \/ Capsule!Collect \/ Capsule!Accept \/ Capsule!Conclude
             \/ Capsule!PublishProtocol \/ Capsule!Authenticate \/ Capsule!Unscratch \/ Capsule!Verify
             \/ Capsule!PublishResult \/ Capsule!Unlock \/ Capsule!Fails
      PROVE  Succeeded'
 <2>1. (run' = run \/ run' = "active") /\ pc \notin {"release", "done"}
   BY <1>2 DEF Capsule!Lease, Capsule!Bind, Capsule!Begin, Capsule!Inputs, Capsule!Write, Capsule!Written,
     Capsule!Lock, Capsule!Scratch, Capsule!Hash, Capsule!Check, Capsule!Start, Capsule!Collect, Capsule!Accept,
     Capsule!Conclude, Capsule!PublishProtocol, Capsule!Authenticate, Capsule!Unscratch, Capsule!Verify,
     Capsule!PublishResult, Capsule!Unlock, Capsule!Fails, Capsule!At, Capsule!resources
 <2>2. run # "success" BY <1>1, <2>1 DEF Ordered
 <2> QED BY <2>1, <2>2 DEF Succeeded
<1>3. ASSUME Capsule!Release \/ Capsule!Swap PROVE Succeeded'
 <2>1. UNCHANGED <<n, phases, answers, result, portable, run>>
   BY <1>3 DEF Capsule!Release, Capsule!Swap, Capsule!protocol, Capsule!evidence, Capsule!resources
 <2> QED BY <1>1, <2>1, SucceededFrame
<1>4. ASSUME Capsule!Finish PROVE Succeeded'
 <2>1. /\ pc = "finish" /\ UNCHANGED <<n, phases, answers, result, portable>>
       /\ run' = "success" => ~raised /\ Capsule!EnclosingReason = "passed"
   BY <1>4 DEF Capsule!Finish, Capsule!At, Capsule!protocol, Capsule!evidence
 <2> SUFFICES ASSUME run' = "success" PROVE Succeeded' BY DEF Succeeded
 <2>2. ~raised /\ Capsule!EnclosingReason = "passed" BY <2>1
 <2>3. result # Capsule!NoResult /\ result.reason[2] = "passed" BY <2>2 DEF Capsule!EnclosingReason
 <2>4. Len(phases) = n /\ result = Capsule!Terminal BY <1>1, <2>3 DEF InOrder
 <2>5. Capsule!Reason = Capsule!Passed
  <3>1. Capsule!Reason[2] = "passed" BY <2>3, <2>4 DEF Capsule!Terminal
  <3> QED BY <1>1, <2>4, <3>1, PassedIsPassed
 <2>6. ProtocolResult = {Capsule!ResultText(result)} BY <1>1, <2>1, <2>2, <2>3 DEF Staged, Witnessed
 <2>7. CapsuleResult = {Capsule!EnclosingText("passed")} BY <1>1, <2>1, <2>2 DEF Staged
 <2>8. /\ Capsule!Reason' = Capsule!Reason /\ Capsule!ResultText(result)' = Capsule!ResultText(result)
       /\ Capsule!EnclosingText("passed")' = Capsule!EnclosingText("passed") /\ Capsule!Passed' = Capsule!Passed
   BY <2>1 DEF Capsule!Reason, Capsule!ResultText, Capsule!EnclosingText, Capsule!Last, Capsule!Op, Capsule!Scenario,
     Capsule!Names, Capsule!Passed
 <2>9. ProtocolResult' = ProtocolResult /\ CapsuleResult' = CapsuleResult
   BY <2>1 DEF ProtocolResult, CapsuleResult, Capsule!Published
 <2> QED BY <2>1, <2>3, <2>5, <2>6, <2>7, <2>8, <2>9 DEF Succeeded
<1> QED BY <1>2, <1>3, <1>4 DEF Capsule!Next, Capsule!Step

\* Before the first step
LEMMA CapsuleStarts == Capsule!Init => CapsuleInv
<1> SUFFICES ASSUME Capsule!Init PROVE CapsuleInv OBVIOUS
<1> USE DEF Before, InPhase, Closing, Leaving
<1>1. /\ pc = "lease" /\ n = 1 /\ raised = FALSE /\ disturbed = FALSE
      /\ leased = FALSE /\ locked = FALSE /\ scratch = FALSE /\ run = "none"
      /\ exe = [good |-> TRUE, file |-> 0] /\ hashed = 0 /\ child = Capsule!None /\ ran = {} /\ undone = {}
      /\ todo = << >> /\ phases = << >> /\ answers = << >> /\ result = Capsule!NoResult /\ portable = {} /\ trouble = 0
  BY DEF Capsule!Init
<1>2. CapsuleTyped
 <2>1. inputs \in Texts \X Texts
  <3>1. \A word \in {"build", "machine", "child secret", "ambient secret"} : Capsule!Plain(word) \in Texts
    BY PlainIsSaying, SayingsAreTexts DEF Words
  <3>2. inputs \in {Capsule!Plain("build"), Capsule!Plain("child secret")}
                     \X {Capsule!Plain("machine"), Capsule!Plain("ambient secret")}
    BY DEF Capsule!Init
  <3> QED BY <3>1, <3>2
 <2>2. exe \in [good : BOOLEAN, file : Nat] BY <1>1
 <2>3. << >> \in Seq(Entries) /\ << >> \in Seq(PhaseResults) /\ << >> \in Seq(Sayings) OBVIOUS
 <2>4. /\ raised \in BOOLEAN /\ disturbed \in BOOLEAN /\ leased \in BOOLEAN /\ locked \in BOOLEAN /\ scratch \in BOOLEAN
   BY <1>1
 <2>5. /\ pc \in CapsuleStages /\ n \in 1 .. 3 /\ run \in {"none", "active", "success", "failure"} /\ hashed \in Nat
       /\ trouble \in 0 .. MaxCapsuleTrouble /\ ran \subseteq Ops /\ undone \subseteq Ops /\ child = Capsule!None
       /\ todo = << >> /\ phases = << >> /\ answers = << >>
   BY <1>1, CapsuleTroubleBound DEF CapsuleStages
 <2> QED BY <2>1, <2>2, <2>3, <2>4, <2>5 DEF CapsuleTyped
<1>3. Ordered /\ Counted BY <1>1 DEF Ordered, Counted
<1>4. ExecutableKnown BY <1>1 DEF ExecutableKnown
<1>5. InOrder BY <1>1 DEF InOrder
<1>6. ProtocolResult = {} /\ CapsuleResult = {} BY <1>1 DEF ProtocolResult, CapsuleResult, Capsule!Published
<1>7. Witnessed /\ Staged BY <1>1, <1>6 DEF Witnessed, Staged
<1>8. StrangersLeaveNothing /\ Succeeded BY <1>1 DEF StrangersLeaveNothing, Succeeded
<1> QED BY <1>2, <1>3, <1>4, <1>5, <1>7, <1>8 DEF CapsuleInv

\* When nothing happens
LEMMA CapsuleStutters ==
  ASSUME CapsuleInv, UNCHANGED Capsule!vars
  PROVE  CapsuleInv'
<1>1. /\ UNCHANGED <<inputs, pc, raised, disturbed, leased, locked, scratch, run, n, phases, answers, result>>
      /\ UNCHANGED <<todo, portable, exe, hashed, child, ran, undone, trouble>>
  BY DEF Capsule!vars, Capsule!resources, Capsule!protocol, Capsule!evidence, Capsule!files, Capsule!strangers
<1>2. CapsuleTyped' /\ Ordered' /\ ExecutableKnown' /\ Counted'
  BY <1>1 DEF CapsuleInv, CapsuleTyped, Ordered, ExecutableKnown, Counted, Capsule!Op
<1>3. InOrder' BY <1>1, InOrderFrame DEF CapsuleInv
<1>4. Witnessed'
 <2>1. Capsule!ResultText(result)' = Capsule!ResultText(result) BY <1>1 DEF Capsule!ResultText
 <2> QED BY <1>1, <2>1, EvidenceFrame DEF CapsuleInv, Witnessed
<1>5. Staged'
 <2>1. /\ InHand' <=> InHand
       /\ Settled' = Settled /\ (Evidenced(n, Settled)' <=> Evidenced(n, Settled))
   BY <1>1 DEF InHand, Settled, Evidenced, Capsule!Op
 <2> QED BY <1>1, <2>1, StagedFrame DEF CapsuleInv, Staged
<1>6. StrangersLeaveNothing'
 <2>1. ProtocolResult' = ProtocolResult /\ Capsule!Op' = Capsule!Op
   BY <1>1 DEF ProtocolResult, Capsule!Published, Capsule!Op
 <2> QED BY <1>1, <2>1 DEF CapsuleInv, StrangersLeaveNothing
<1>7. Succeeded' BY <1>1, SucceededFrame DEF CapsuleInv
<1> QED BY <1>2, <1>3, <1>4, <1>5, <1>6, <1>7 DEF CapsuleInv

\* Every step keeps the invariant.
LEMMA CapsuleKept ==
  ASSUME CapsuleInv, Capsule!Next
  PROVE  CapsuleInv'
BY CapsuleTypedStep, CapsuleOrderedStep, CapsuleExecutableStep, CapsuleInOrderStep, CapsuleCountedStep,
  CapsuleWitnessedStep, CapsuleStagedStep, CapsuleStrangersStep, CapsuleSucceededStep DEF CapsuleInv
----------------------------------------
(* What the invariant says of a capsule *)

\* TypeOK of CapsuleRun
LEMMA CapsuleTypes == ASSUME CapsuleInv PROVE Capsule!TypeOK
<1>1. /\ CapsuleTyped /\ ExecutableKnown /\ n \in 1 .. 3 /\ trouble \in 0 .. MaxCapsuleTrouble /\ exe \in [good : BOOLEAN, file : Nat]
      /\ hashed \in Nat
  BY DEF CapsuleInv, CapsuleTyped
<1>2. exe.file \in 0 .. MaxCapsuleTrouble /\ hashed <= exe.file /\ trouble <= MaxCapsuleTrouble
 <2>1. exe.file \in Nat /\ MaxCapsuleTrouble \in Nat BY <1>1, CapsuleTroubleBound
 <2>2. exe.file <= trouble BY <1>1, <2>1 DEF ExecutableKnown
 <2> QED BY <1>1, <2>1, <2>2 DEF ExecutableKnown
<1>3. exe.good \in BOOLEAN /\ {raised, disturbed, leased, locked, scratch} \subseteq BOOLEAN BY <1>1 DEF CapsuleTyped
<1>4. Len(answers) <= Len(phases) /\ Len(phases) \in {n - 1, n} BY DEF CapsuleInv, InOrder
<1>5. \A e \in portable : e.media \in {"application/json", "text/plain"} BY DEF CapsuleInv, Witnessed, Media
<1>6. pc \in CapsuleStages /\ run \in {"none", "active", "success", "failure"}
      /\ ran \cup undone \subseteq Capsule!ToSet(Capsule!Operations)
  BY <1>1, OperationsAre DEF CapsuleTyped
<1> QED BY <1>1, <1>2, <1>3, <1>4, <1>5, <1>6 DEF Capsule!TypeOK, CapsuleStages, Before, InPhase, Closing, Leaving

\* What a run that succeeded has come through
LEMMA SuccessHasAll ==
  ASSUME CapsuleInv, result # Capsule!NoResult, Capsule!Reason = Capsule!Passed
  PROVE  /\ n = 3 /\ Len(phases) = 3 /\ Len(answers) = 3
         /\ Covers(2) /\ Covers(3) /\ AllPassed
<1>1. /\ InOrder /\ n \in 1 .. 3 /\ Len(answers) \in Nat BY DEF CapsuleInv, CapsuleTyped
<1>2. n = 3 /\ Len(phases) = 3 /\ Capsule!Judged /\ AllPassed BY <1>1 DEF InOrder
<1>3. /\ Capsule!Last(phases).failure = "none"
      /\ Capsule!Names(Capsule!Last(answers).coords) = Capsule!Names(Capsule!Scenario)
 <2>1. Capsule!Op # "protocol" BY <1>1, OpIs DEF Ops
 <2>2. Capsule!Reason = <<"protocol", "passed">> BY DEF Capsule!Passed
 <2> QED BY <1>2, <2>1, <2>2 DEF Capsule!Reason
<1>4. Len(answers) = 3 BY <1>2, <1>3 DEF Capsule!Judged
<1>5. Covers(3) BY <1>3, <1>4 DEF Covers, Capsule!Last, Capsule!Scenario
<1>6. Covers(2) BY <1>1, <1>2 DEF InOrder
<1> QED BY <1>2, <1>4, <1>5, <1>6

\* An answer accepted is in the evidence.
LEMMA AnswerIsPublished ==
  ASSUME CapsuleInv, NEW i \in 1 .. Len(answers), i \in 1 .. 3, Evidenced(i, portable)
  PROVE  /\ answers[i] \in Capsule!Answer(i)
         /\ Capsule!Published(Capsule!Operations[i], "request.json") = {RequestAt(i)}
<1>1. /\ InOrder /\ phases \in Seq(PhaseResults) /\ Len(answers) \in Nat BY DEF CapsuleInv, CapsuleTyped
<1>2. i \in DOMAIN phases BY <1>1 DEF InOrder
<1>3. phases[i].answer = <<answers[i]>> /\ phases[i].request = RequestAt(i) BY <1>1, <1>2 DEF InOrder, PhaseInOrder
<1>4. answers[i] \in Capsule!ToSet(phases[i].answer)
 <2> DEFINE said == answers[i]
 <2>1. phases[i].answer = <<said>> BY <1>3
 <2> HIDE DEF said
 <2>2. said \in Capsule!ToSet(<<said>>) BY DEF Capsule!ToSet
 <2> QED BY <2>1, <2>2 DEF said
<1>5. /\ TextsAt(<<Capsule!Operations[i], "request.json">>, portable) = {RequestAt(i)}
      /\ answers[i] \in TextsAt(<<Capsule!Operations[i], "stdout.json">>, portable)
  BY <1>3, <1>4 DEF Evidenced
<1> QED BY <1>5 DEF TextsAt, Capsule!Answer, Capsule!Published

\* A success has in its evidence what earned it.
LEMMA EarnedSuccess == ASSUME CapsuleInv PROVE Capsule!SuccessIsEarned
<1> SUFFICES ASSUME run = "success"
             PROVE  /\ ran \subseteq undone
                    /\ \E d \in Capsule!Answer(1), c \in Capsule!Answer(2), b \in Capsule!Answer(3) :
                         /\ Capsule!Names(c.coords) = Capsule!Names(d.coords)
                         /\ Capsule!Names(b.coords) = Capsule!Names(d.coords)
                         /\ \A o \in Capsule!ToSet(c.coords) : o.passed
                         /\ Capsule!Published("correctness", "request.json") =
                              {Capsule!Text("request", "correctness", d.coords, <<d>>)}
                         /\ Capsule!Published("benchmark", "request.json") =
                              {Capsule!Text("request", "benchmark", d.coords, <<c>>)}
                    /\ {t.op : t \in Capsule!Published("protocol", "result.json")
                                       \cup Capsule!Published("capsule", "result.json")} = {"passed"}
  BY DEF Capsule!SuccessIsEarned
<1>1. /\ result # Capsule!NoResult /\ Capsule!Reason = Capsule!Passed
      /\ ProtocolResult = {Capsule!ResultText(result)} /\ CapsuleResult = {Capsule!EnclosingText("passed")}
  BY DEF CapsuleInv, Succeeded
<1>2. ran \subseteq undone BY <1>1 DEF CapsuleInv, StrangersLeaveNothing
<1>3. n = 3 /\ Len(phases) = 3 /\ Len(answers) = 3 /\ Covers(2) /\ Covers(3) /\ AllPassed BY <1>1, SuccessHasAll
<1>4. Evidenced(1, portable) /\ Evidenced(2, portable) /\ Evidenced(3, portable)
  BY <1>1, <1>3 DEF CapsuleInv, Witnessed, Staged
<1>5. /\ answers[1] \in Capsule!Answer(1) /\ answers[2] \in Capsule!Answer(2) /\ answers[3] \in Capsule!Answer(3)
      /\ Capsule!Published("correctness", "request.json") = {RequestAt(2)}
      /\ Capsule!Published("benchmark", "request.json") = {RequestAt(3)}
 <2>1. /\ Capsule!Published(Capsule!Operations[2], "request.json") = {RequestAt(2)}
       /\ Capsule!Published(Capsule!Operations[3], "request.json") = {RequestAt(3)}
       /\ answers[1] \in Capsule!Answer(1) /\ answers[2] \in Capsule!Answer(2) /\ answers[3] \in Capsule!Answer(3)
   BY <1>3, <1>4, AnswerIsPublished
 <2> QED BY <2>1, OperationsAre
<1>6. /\ RequestAt(2) = Capsule!Text("request", "correctness", answers[1].coords, <<answers[1]>>)
      /\ RequestAt(3) = Capsule!Text("request", "benchmark", answers[1].coords, <<answers[2]>>)
  BY OperationsAre DEF RequestAt
<1>7. /\ Capsule!Names(answers[2].coords) = Capsule!Names(answers[1].coords)
      /\ Capsule!Names(answers[3].coords) = Capsule!Names(answers[1].coords)
      /\ \A o \in Capsule!ToSet(answers[2].coords) : o.passed
  BY <1>3 DEF Covers, AllPassed, Capsule!ToSet
<1>8. {t.op : t \in ProtocolResult \cup CapsuleResult} = {"passed"}
 <2>1. result = Capsule!Terminal BY <1>1 DEF CapsuleInv, InOrder
 <2>2. result.reason = Capsule!Passed BY <1>1, <2>1 DEF Capsule!Terminal
 <2>3. Capsule!ResultText(result).op = "passed" /\ Capsule!EnclosingText("passed").op = "passed"
   BY <2>2 DEF Capsule!ResultText, Capsule!EnclosingText, Capsule!Text, Capsule!Passed
 <2> QED BY <1>1, <2>3
<1> QED BY <1>2, <1>5, <1>6, <1>7, <1>8 DEF ProtocolResult, CapsuleResult

\* Another executable leaves no evidence, unless the swap was undone without a trace.
LEMMA EvidenceOfTheExecutable == ASSUME CapsuleInv PROVE Capsule!EvidenceIsOfTheExecutable
<1> SUFFICES ASSUME NEW op \in ran \ undone
             PROVE  Capsule!Published(op, "process.json") = {} /\ Capsule!Published("protocol", "result.json") = {}
  BY DEF Capsule!EvidenceIsOfTheExecutable
<1>1. op = Capsule!Op /\ Len(phases) = n - 1 /\ ProtocolResult = {} /\ n \in 1 .. 3
  BY DEF CapsuleInv, CapsuleTyped, StrangersLeaveNothing
<1>2. op = Capsule!Operations[n] BY <1>1, OpIs
<1>3. \A e \in portable : e.path[1] # op BY <1>1, <1>2 DEF CapsuleInv, Witnessed
<1>4. \A e \in portable : e.path # <<op, "process.json">> BY <1>3
<1> QED BY <1>1, <1>4 DEF Capsule!Published, ProtocolResult

\* A protocol result that was published is of the evidence beside it.
LEMMA ResultOfTheEvidence == ASSUME CapsuleInv PROVE Capsule!ResultIsOfTheEvidence
<1> SUFFICES ASSUME NEW t \in Capsule!Published("protocol", "result.json")
             PROVE  /\ t = Capsule!ResultText(result)
                    /\ \A i \in 1 .. 3 :
                         LET op == Capsule!Operations[i] IN
                         IF i > Len(result.phases) THEN \A e \in portable : e.path[1] # op
                           ELSE /\ Capsule!Published(op, "request.json") = {result.phases[i].request}
                                /\ Capsule!Published(op, "process.json") # {}
                                /\ Capsule!ToSet(result.phases[i].answer) \subseteq Capsule!Answer(i)
                                /\ Capsule!Cardinality({e \in portable :
                                     e.path[1] = op /\ e.path[2] \notin {"request.json", "process.json", "stderr.txt"}}) = 1
  BY DEF Capsule!ResultIsOfTheEvidence
<1>1. t \in ProtocolResult BY DEF ProtocolResult
<1>2. t = Capsule!ResultText(result) /\ result # Capsule!NoResult BY <1>1 DEF CapsuleInv, Witnessed
<1>3. Len(phases) = n /\ result.phases = phases /\ n \in 1 .. 3
  BY <1>2 DEF CapsuleInv, CapsuleTyped, InOrder, Capsule!Terminal
<1>4. ASSUME NEW i \in 1 .. 3, i > n PROVE \A e \in portable : e.path[1] # Capsule!Operations[i]
  BY <1>3, <1>4 DEF CapsuleInv, Witnessed
<1>5. ASSUME NEW i \in 1 .. 3, ~(i > n)
      PROVE  LET op == Capsule!Operations[i] IN
               /\ Capsule!Published(op, "request.json") = {phases[i].request}
               /\ Capsule!Published(op, "process.json") # {}
               /\ Capsule!ToSet(phases[i].answer) \subseteq Capsule!Answer(i)
               /\ Capsule!Cardinality({e \in portable :
                    e.path[1] = op /\ e.path[2] \notin {"request.json", "process.json", "stderr.txt"}}) = 1
 <2>1. Evidenced(i, portable)
  <3>1. CASE i = n BY <1>2, <3>1 DEF CapsuleInv, Staged
  <3>2. CASE i # n
   <4>1. i \in 1 .. n - 1 BY <1>3, <1>5, <3>2
   <4> QED BY <4>1 DEF CapsuleInv, Witnessed
  <3> QED BY <3>1, <3>2
 <2> DEFINE op == Capsule!Operations[i]
 <2>2. /\ TextsAt(<<op, "request.json">>, portable) = {phases[i].request}
       /\ TextsAt(<<op, "process.json">>, portable) # {}
       /\ Capsule!ToSet(phases[i].answer) \subseteq TextsAt(<<op, "stdout.json">>, portable)
       /\ \E only : OutputOf(op, portable) = {only}
   BY <2>1 DEF Evidenced
 <2>3. Capsule!Cardinality(OutputOf(op, portable)) = 1
  <3> DEFINE outputs == OutputOf(op, portable)
  <3>1. \E only : outputs = {only} BY <2>2
  <3> HIDE DEF outputs
  <3>2. Cardinality(outputs) = 1 BY <3>1, FS_Singleton
  <3>3. Capsule!Cardinality(outputs) = Cardinality(outputs) BY DEF Capsule!Cardinality, Cardinality
  <3> QED BY <3>2, <3>3 DEF outputs
 <2> QED BY <2>2, <2>3 DEF TextsAt, OutputOf, Capsule!Answer, Capsule!Published
<1> QED BY <1>2, <1>3, <1>4, <1>5

\* The validator of the protocol result accepts every judgement of the protocol.
LEMMA ConsistentResult == ASSUME CapsuleInv PROVE Capsule!ResultIsConsistent
<1> SUFFICES ASSUME result # Capsule!NoResult PROVE Capsule!Consistent(result) BY DEF Capsule!ResultIsConsistent
<1>1. /\ InOrder /\ n \in 1 .. 3 /\ phases \in Seq(PhaseResults) /\ answers \in Seq(Sayings)
      /\ Len(phases) \in Nat /\ Len(answers) \in Nat
  BY DEF CapsuleInv, CapsuleTyped
<1>2. /\ Len(phases) = n /\ Capsule!Judged /\ result = Capsule!Terminal /\ Len(answers) \in {n - 1, n}
      /\ \A i \in DOMAIN phases : PhaseInOrder(i)
      /\ \A i \in 1 .. n - 1 : Covers(i)
      /\ n = 3 => AllPassed
      /\ Capsule!Reason = Capsule!Passed => n = 3
  BY <1>1 DEF InOrder
<1> DEFINE r    == result
           last == phases[n]
           Covered(i) == Len(r.payload) >= i /\ Capsule!Names(r.payload[i]) = Capsule!Names(r.payload[1])
           Correct    == Covered(2) /\ \A o \in Capsule!ToSet(r.payload[2]) : o.passed
<1>3. /\ r.phases = phases /\ r.reason = Capsule!Reason /\ Capsule!Last(r.phases) = last
      /\ r.status = IF Capsule!Reason = Capsule!Passed THEN "passed" ELSE "failed"
      /\ Len(r.payload) = Len(answers) /\ \A i \in 1 .. Len(answers) : r.payload[i] = answers[i].coords
 <2>1. r.payload = [i \in DOMAIN answers |-> answers[i].coords] BY <1>2 DEF Capsule!Terminal
 <2>2. Len(r.payload) = Len(answers) /\ \A i \in 1 .. Len(answers) : r.payload[i] = answers[i].coords BY <1>1, <2>1
 <2> QED BY <1>2, <2>2 DEF Capsule!Terminal, Capsule!Last
<1>4. \A i \in DOMAIN phases : phases[i].op = Capsule!Operations[i] /\ Capsule!ExactCategory(phases[i])
                                 /\ Capsule!AcceptedDigest(phases[i])
  BY <1>2 DEF PhaseInOrder
<1>5. \A p \in Capsule!ToSet(Capsule!Front(phases)) : p.failure = "none"
 <2>1. Capsule!Front(phases) = SubSeq(phases, 1, n - 1) BY <1>2 DEF Capsule!Front
 <2>2. \A i \in 1 .. n - 1 : SubSeq(phases, 1, n - 1)[i] = phases[i] BY <1>1, <1>2
 <2>3. DOMAIN SubSeq(phases, 1, n - 1) = 1 .. n - 1 BY <1>1, <1>2
 <2>4. \A i \in 1 .. n - 1 : phases[i].failure = "none" BY <1>1, <1>2 DEF PhaseInOrder
 <2> QED BY <2>1, <2>2, <2>3, <2>4 DEF Capsule!ToSet
<1>6. Len(phases) \in 1 .. 3 BY <1>1, <1>2
<1>7. last \in PhaseResults /\ last.op = Capsule!Op /\ last.op = Capsule!Operations[n] /\ Capsule!Op \in Ops
  BY <1>1, <1>2, <1>4, OpIs
<1>8. (r.status = "passed") = (r.reason = Capsule!Passed) BY <1>3
<1>9. ASSUME n = 3, Len(answers) >= 2 PROVE Correct BY <1>1, <1>2, <1>3, <1>9 DEF Covers, AllPassed, Capsule!ToSet
<1>10. n = 1 <=> Capsule!Op = "describe" BY <1>1, <1>7, OperationsAre
<1>11. (n = 2 <=> Capsule!Op = "correctness") /\ (n = 3 <=> Capsule!Op = "benchmark") BY <1>1, <1>7, OperationsAre
<1> HIDE DEF r, last
<1>12. CASE last.failure # "none"
 <2>1. r.reason = <<last.op, last.failure>> BY <1>3, <1>7, <1>12 DEF Capsule!Reason
 <2>2. Len(answers) = n - 1 BY <1>1, <1>2, <1>12 DEF PhaseInOrder, last
 <2>3. last.op = "benchmark" => Correct BY <1>7, <1>9, <1>11, <2>2
 <2> QED BY <1>2, <1>3, <1>4, <1>5, <1>6, <1>8, <1>12, <2>1, <2>2, <2>3 DEF Capsule!Consistent, r
<1>13. CASE last.failure = "none"
 <2>1. Len(answers) = n /\ Capsule!Last(answers) = answers[n] BY <1>2, <1>3, <1>13 DEF Capsule!Judged, Capsule!Last, r
 <2>2. Covered(n) <=> Covers(n) BY <1>1, <1>3, <2>1 DEF Covers
 <2>3. Capsule!Last(phases) = last BY <1>3 DEF r
 <2> DEFINE Verdict ==
       CASE r.reason = <<"correctness", "incomplete">> -> Len(r.phases) = 2 /\ Len(r.payload) = 2 /\ ~Covered(2)
         [] r.reason = <<"correctness", "failed">> -> Len(r.phases) = 2 /\ Len(r.payload) = 2 /\ Covered(2) /\ ~Correct
         [] r.reason = <<"benchmark", "incomplete">> -> Len(r.phases) = 3 /\ Len(r.payload) = 3 /\ Correct /\ ~Covered(3)
         [] r.reason = Capsule!Passed -> Len(r.phases) = 3 /\ Correct /\ Covered(3)
         [] OTHER -> FALSE
 <2>4. ASSUME n > 1, ~Covers(n) PROVE Verdict
  <3>1. r.reason = <<Capsule!Op, "incomplete">>
    BY <1>3, <1>13, <2>1, <2>3, <2>4 DEF Capsule!Reason, Covers, Capsule!Scenario
  <3>2. CASE n = 2
   <4>1. r.reason = <<"correctness", "incomplete">> /\ Len(r.phases) = 2 /\ Len(r.payload) = 2 /\ ~Covered(2)
     BY <1>2, <1>3, <1>11, <2>1, <2>2, <2>4, <3>1, <3>2
   <4> HIDE DEF Covered, Correct
   <4> QED BY <4>1 DEF Capsule!Passed
  <3>3. CASE n = 3
   <4>1. r.reason = <<"benchmark", "incomplete">> /\ Len(r.phases) = 3 /\ Len(r.payload) = 3 /\ Correct /\ ~Covered(3)
     BY <1>2, <1>3, <1>9, <1>11, <2>1, <2>2, <2>4, <3>1, <3>3
   <4> HIDE DEF Covered, Correct
   <4> QED BY <4>1 DEF Capsule!Passed
  <3> QED BY <1>1, <2>4, <3>2, <3>3
 <2>5. ASSUME Covers(n), n = 2, \E o \in Capsule!ToSet(answers[2].coords) : ~o.passed PROVE Verdict
  <3>1. r.reason = <<"correctness", "failed">>
   <4>1. ~(n > 1 /\ Capsule!Names(Capsule!Last(answers).coords) # Capsule!Names(Capsule!Scenario))
     BY <2>1, <2>5 DEF Covers, Capsule!Scenario
   <4>2. r.reason = <<Capsule!Op, "failed">> BY <1>3, <1>13, <2>3, <2>5, <4>1 DEF Capsule!Reason
   <4> QED BY <1>11, <2>5, <4>2
  <3>2. Len(r.phases) = 2 /\ Len(r.payload) = 2 /\ Covered(2) BY <1>2, <1>3, <2>1, <2>2, <2>5
  <3>3. ~Correct BY <1>3, <2>1, <2>5
  <3> HIDE DEF Covered, Correct
  <3> QED BY <3>1, <3>2, <3>3 DEF Capsule!Passed
 <2>6. ASSUME n > 1 => Covers(n), n = 2 => \A o \in Capsule!ToSet(answers[2].coords) : o.passed PROVE Verdict
  <3>1. r.reason = Capsule!Passed
   <4>1. ~(n > 1 /\ Capsule!Names(Capsule!Last(answers).coords) # Capsule!Names(Capsule!Scenario))
     BY <2>1, <2>6 DEF Covers, Capsule!Scenario
   <4> QED BY <1>3, <1>13, <2>3, <2>6, <4>1 DEF Capsule!Reason
  <3>2. n = 3 BY <1>2, <1>3, <3>1
  <3>3. Len(r.phases) = 3 /\ Correct /\ Covered(3) BY <1>2, <1>3, <1>9, <2>1, <2>2, <2>6, <3>2
  <3> HIDE DEF Covered, Correct
  <3> QED BY <3>1, <3>3 DEF Capsule!Passed
 <2>7. Verdict
  <3>1. n = 2 => n > 1 OBVIOUS
  <3> HIDE DEF Verdict
  <3> QED BY <2>4, <2>5, <2>6, <3>1
 <2> QED BY <1>2, <1>3, <1>4, <1>5, <1>6, <1>8, <1>13, <2>7 DEF Capsule!Consistent, r
<1> QED BY <1>12, <1>13

\* Nothing with a secret is published.
LEMMA NothingUnsafe == ASSUME CapsuleInv PROVE Capsule!NothingUnsafeIsPublished
<1>1. \A e \in portable : e.text.is \notin {"ambient secret", "child secret"}
  BY DEF CapsuleInv, Witnessed, Capsule!Safe, Capsule!Secrets
<1>2. ASSUME NEW t \in Capsule!ToSet(inputs), t.is \in {"ambient secret", "child secret"} PROVE portable = {}
 <2>1. ~Capsule!Preflight BY <1>2 DEF Capsule!Preflight, Capsule!Safe, Capsule!Secrets
 <2> QED BY <2>1 DEF CapsuleInv, Witnessed
<1> QED BY <1>1, <1>2 DEF Capsule!NothingUnsafeIsPublished

\* A child is run and its answer published inside of everything.
LEMMA GuardedChild ==
  ASSUME CapsuleInv, Capsule!Next
  PROVE  Capsule!ChildIsGuarded
<1> USE DEF Before, InPhase, Closing, Leaving
<1>1. Ordered /\ Counted /\ Staged /\ pc \in CapsuleStages BY DEF CapsuleInv, CapsuleTyped
<1> DEFINE Inside == leased /\ run = "active"
           Ready  == locked /\ \A e \in Capsule!ToSet(Capsule!InputEntries) : e \in portable
<1>2. locked => Ready BY <1>1 DEF Staged, Inputs
<1>3. ASSUME Capsule!Lease \/ Capsule!Bind \/ Capsule!Begin \/ Capsule!Inputs \/ Capsule!Written
             \/ Capsule!Lock \/ Capsule!Scratch \/ Capsule!Hash \/ Capsule!Check \/ Capsule!Collect
             \/ Capsule!Accept \/ Capsule!Authenticate \/ Capsule!Unscratch \/ Capsule!Verify
             \/ Capsule!Unlock \/ Capsule!Finish \/ Capsule!Release \/ Capsule!Fails \/ Capsule!Swap
      PROVE  child' = child /\ portable' = portable
  BY <1>3 DEF Capsule!Lease, Capsule!Bind, Capsule!Begin, Capsule!Inputs, Capsule!Written, Capsule!Lock,
    Capsule!Scratch, Capsule!Hash, Capsule!Check, Capsule!Collect, Capsule!Accept, Capsule!Authenticate,
    Capsule!Unscratch, Capsule!Verify, Capsule!Unlock, Capsule!Finish, Capsule!Release, Capsule!Fails, Capsule!Swap,
    Capsule!evidence
<1>4. ASSUME Capsule!Start \/ Capsule!Conclude \/ Capsule!Write \/ Capsule!PublishProtocol
             \/ Capsule!PublishResult
      PROVE  Inside /\ (child' # Capsule!None => Ready)
 <2>1. /\ pc \in {"start", "conclude", "write", "terminal", "publish"}
       /\ pc = "conclude" => child' = Capsule!None
       /\ pc \in {"write", "terminal", "publish"} => child' = child
   BY <1>4 DEF Capsule!Start, Capsule!Conclude, Capsule!Write, Capsule!PublishProtocol, Capsule!PublishResult,
     Capsule!At
 <2>2. Inside BY <1>1, <2>1 DEF Ordered
 <2>3. child' # Capsule!None => locked BY <1>1, <2>1 DEF Ordered, Counted
 <2> QED BY <1>2, <2>2, <2>3
<1>5. Capsule!ChildIsGuarded <=> (child' # child \/ portable' # portable => Inside /\ (child' # Capsule!None => Ready))
  BY DEF Capsule!ChildIsGuarded
<1> HIDE DEF Inside, Ready
<1> QED BY <1>3, <1>4, <1>5 DEF Capsule!Next, Capsule!Step

\* What is held is given back in order.
LEMMA OrderedRelease ==
  ASSUME CapsuleInv, Capsule!Next
  PROVE  Capsule!ReleaseIsOrdered
<1> USE DEF Before, InPhase, Closing, Leaving
<1>1. Ordered /\ pc \in CapsuleStages BY DEF CapsuleInv, CapsuleTyped
<1>2. Ordered' BY CapsuleOrderedStep
<1>3. ASSUME Capsule!Lease \/ Capsule!Bind \/ Capsule!Begin \/ Capsule!Inputs \/ Capsule!Write
             \/ Capsule!Written \/ Capsule!Lock \/ Capsule!Scratch \/ Capsule!Hash \/ Capsule!Check
             \/ Capsule!Start \/ Capsule!Collect \/ Capsule!Accept \/ Capsule!Conclude
             \/ Capsule!PublishProtocol \/ Capsule!Authenticate \/ Capsule!Unscratch \/ Capsule!Verify
             \/ Capsule!PublishResult \/ Capsule!Unlock \/ Capsule!Fails \/ Capsule!Swap
      PROVE  (leased => leased') /\ (run = "active" => run' = "active")
  BY <1>3 DEF Capsule!Lease, Capsule!Bind, Capsule!Begin, Capsule!Inputs, Capsule!Write, Capsule!Written,
    Capsule!Lock, Capsule!Scratch, Capsule!Hash, Capsule!Check, Capsule!Start, Capsule!Collect, Capsule!Accept,
    Capsule!Conclude, Capsule!PublishProtocol, Capsule!Authenticate, Capsule!Unscratch, Capsule!Verify,
    Capsule!PublishResult, Capsule!Unlock, Capsule!Fails, Capsule!Swap, Capsule!resources
<1>4. ASSUME Capsule!Finish PROVE pc = "finish" /\ leased' = leased BY <1>4 DEF Capsule!Finish, Capsule!At
<1>5. ASSUME Capsule!Release PROVE pc = "release" /\ run' = run BY <1>5 DEF Capsule!Release, Capsule!At
<1>6. run = "active" /\ run' # "active" => ~locked /\ leased
 <2>1. run = "active" /\ run' # "active" => pc = "finish" BY <1>3, <1>4, <1>5 DEF Capsule!Next, Capsule!Step
 <2> QED BY <1>1, <2>1 DEF Ordered
<1>7. leased /\ ~leased' => run # "active" /\ ~locked
 <2>1. leased /\ ~leased' => pc = "release" BY <1>3, <1>4, <1>5 DEF Capsule!Next, Capsule!Step
 <2> QED BY <1>1, <2>1 DEF Ordered
<1>8. pc' = "done" => ~leased' /\ ~locked' /\ run' # "active" /\ (scratch' => disturbed') BY <1>2 DEF Ordered
<1> QED BY <1>6, <1>7, <1>8 DEF Capsule!ReleaseIsOrdered

\* CapsuleInv is an invariant, whatever children print, whoever swaps the executable and
\* whichever call fails.
THEOREM CapsuleInvariance == Spec => [](system = "capsule" => CapsuleInv)
<1>1. Init => (system = "capsule" => CapsuleInv) BY CapsuleStarts DEF Init
<1>2. (system = "capsule" => CapsuleInv) /\ [Next]_vars => (system = "capsule" => CapsuleInv)'
 <2> SUFFICES ASSUME system = "capsule" => CapsuleInv, [Next]_vars, system' = "capsule"
              PROVE  CapsuleInv'
   OBVIOUS
 <2>1. CASE UNCHANGED vars
  <3>1. system = "capsule" /\ UNCHANGED Capsule!vars
    BY <2>1 DEF vars, capsuleVars, Capsule!vars, Capsule!resources, Capsule!protocol, Capsule!evidence,
      Capsule!files, Capsule!strangers
  <3> QED BY <3>1, CapsuleStutters
 <2>2. CASE Next
  <3>1. Capsule!Next /\ system = "capsule" BY <2>2 DEF Next
  <3> QED BY <3>1, CapsuleKept
 <2> QED BY <2>1, <2>2
<1> QED BY <1>1, <1>2, PTL DEF Spec

\* CapsuleResultIsTruthful: success is earned by three children of the recorded executable, the
\* protocol result is of the evidence beside it and consistent, and no secret is published.
THEOREM CapsuleTruthful == Spec => []CapsuleResultIsTruthful
<1>1. (system = "capsule" => CapsuleInv) => CapsuleResultIsTruthful
  BY CapsuleTypes, EarnedSuccess, EvidenceOfTheExecutable, ResultOfTheEvidence, ConsistentResult, NothingUnsafe DEF
    CapsuleResultIsTruthful
<1> QED BY <1>1, CapsuleInvariance, PTL

\* CapsuleIsGuarded: children and evidence are inside lease, run and machine lock, which are given
\* back in reverse whatever raises.
THEOREM CapsuleGuarded == Spec => CapsuleIsGuarded
<1> DEFINE Guards == system = "capsule" => Capsule!ChildIsGuarded /\ Capsule!ReleaseIsOrdered
<1>1. (system = "capsule" => CapsuleInv) /\ [Next]_vars => [Guards]_vars
 <2> SUFFICES ASSUME system = "capsule" => CapsuleInv, Next, system = "capsule" PROVE Guards OBVIOUS
 <2>1. Capsule!Next BY DEF Next
 <2> QED BY <2>1, GuardedChild, OrderedRelease
<1> QED BY <1>1, CapsuleInvariance, PTL DEF Spec, CapsuleIsGuarded

----------------------------------------
(* Comparisons: numbers *)

\* A non-empty set of naturals has a least one.
LEMMA LeastNatural ==
  ASSUME NEW T, T \subseteq Nat, T # {}
  PROVE  \E k \in T : \A m \in T : k <= m
<1>1. IsWellFoundedOn(OpToRel(<, Nat), Nat) BY NatLessThanWellFounded
<1>2. PICK k \in T : \A m \in T : ~(<<m, k>> \in OpToRel(<, Nat)) BY <1>1, WFMin
<1>3. \A m \in T : m < k => <<m, k>> \in OpToRel(<, Nat) BY DEF OpToRel
<1>4. \A m \in T : ~(m < k) BY <1>2, <1>3, Zenon
<1>5. \A m \in T : k <= m BY <1>4
<1> QED BY <1>5

\* Induction, for a set in the place of a predicate
LEMMA SetInduction ==
  ASSUME NEW T, 0 \in T, \A k \in Nat : k \in T => k + 1 \in T
  PROVE  Nat \subseteq T
<1> SUFFICES ASSUME Nat \ T # {} PROVE FALSE OBVIOUS
<1>1. PICK k \in Nat \ T : \A m \in Nat \ T : k <= m BY LeastNatural
<1>2. k - 1 \in Nat /\ k - 1 \in T BY <1>1
<1> QED BY <1>1, <1>2

\* The partial sums exist.
LEMMA PartialSums ==
  ASSUME NEW top \in Nat, NEW d
  PROVE  \E s : s = [k \in 0 .. top |-> IF k = 0 THEN 0 ELSE s[k - 1] + d[k]]
<1> DEFINE T == {m \in Nat : \E s : s = [k \in 0 .. m |-> IF k = 0 THEN 0 ELSE s[k - 1] + d[k]]}
<1>1. 0 \in T
 <2>1. [k \in 0 .. 0 |-> 0] = [k \in 0 .. 0 |-> IF k = 0 THEN 0 ELSE [j \in 0 .. 0 |-> 0][k - 1] + d[k]] OBVIOUS
 <2> QED BY <2>1
<1>2. ASSUME NEW m \in Nat, m \in T PROVE m + 1 \in T
 <2>1. PICK s : s = [k \in 0 .. m |-> IF k = 0 THEN 0 ELSE s[k - 1] + d[k]] BY <1>2
 <2> DEFINE r == [k \in 0 .. m + 1 |-> IF k \in 0 .. m THEN s[k] ELSE s[m] + d[m + 1]]
            t == [k \in 0 .. m + 1 |-> IF k = 0 THEN 0 ELSE r[k - 1] + d[k]]
 <2>2. s[0] = 0 /\ \A k \in 0 .. m : k # 0 => k - 1 \in 0 .. m /\ s[k] = s[k - 1] + d[k] BY <2>1
 <2>3. ASSUME NEW k \in 0 .. m + 1 PROVE r[k] = t[k]
  <3>1. CASE k = 0 BY <2>2, <3>1
  <3>2. CASE k \in 1 .. m BY <2>2, <3>2
  <3>3. CASE k = m + 1 BY <3>3
  <3> QED BY <3>1, <3>2, <3>3
 <2>4. r = [k \in 0 .. m + 1 |-> r[k]] /\ t = [k \in 0 .. m + 1 |-> t[k]] OBVIOUS
 <2>5. r = t BY <2>3, <2>4
 <2> HIDE DEF r
 <2> QED BY <2>5
<1> HIDE DEF T
<1>3. top \in T BY <1>1, <1>2, SetInduction
<1> QED BY <1>3 DEF T

\* Of samples that are all at least m, and of multiples of theirs, the sum is as large.
LEMMA SumAtLeast ==
  ASSUME Pairs \in Nat, NEW d \in [1 .. Pairs -> Int], NEW a \in Int, NEW m \in Int, \A i \in 1 .. Pairs : a * d[i] >= m
  PROVE  Comparing!Sum(d) \in Int /\ a * Comparing!Sum(d) >= Pairs * m
<1>1. PICK s : /\ s = [k \in 0 .. Pairs |-> IF k = 0 THEN 0 ELSE s[k - 1] + d[k]]
               /\ Comparing!Sum(d) = s[Pairs]
  BY PartialSums, Zenon DEF Comparing!Sum
<1>2. s[0] = 0 /\ \A k \in 1 .. Pairs : s[k] = s[k - 1] + d[k] BY <1>1
<1> DEFINE T == {k \in Nat : k <= Pairs => s[k] \in Int /\ a * s[k] >= k * m}
<1>3. 0 \in T BY <1>2
<1>4. ASSUME NEW k \in Nat, k \in T PROVE k + 1 \in T
 <2> SUFFICES ASSUME k + 1 <= Pairs PROVE s[k + 1] \in Int /\ a * s[k + 1] >= (k + 1) * m OBVIOUS
 <2>1. s[k] \in Int /\ a * s[k] >= k * m /\ d[k + 1] \in Int /\ a * d[k + 1] >= m BY <1>4
 <2>2. s[k + 1] = s[k] + d[k + 1] BY <1>2
 <2> DEFINE x == s[k]
            y == d[k + 1]
 <2>3. a * (x + y) = a * x + a * y /\ (k + 1) * m = k * m + m
  <3>1. x \in Int /\ y \in Int BY <2>1
  <3> HIDE DEF x, y
  <3> QED BY <3>1
 <2> QED BY <2>1, <2>2, <2>3
<1> HIDE DEF T
<1>5. Pairs \in T BY <1>3, <1>4, SetInduction
<1> QED BY <1>1, <1>5 DEF T

\* Of some of the samples one is the least.
LEMMA LeastSample ==
  ASSUME NEW top \in Nat, NEW s, NEW Q, Q # {}, \A i \in Q : i \in Nat /\ 0 < i /\ i <= top /\ s[i] \in Int
  PROVE  \E i \in Q : \A j \in Q : s[i] <= s[j]
<1> DEFINE Upto(k) == {i \in Q : i <= k}
           Least(W) == \E i \in W : \A j \in W : s[i] <= s[j]
           T == {k \in Nat : Upto(k) = {} \/ Least(Upto(k))}
<1>1. 0 \in T OBVIOUS
<1>2. ASSUME NEW k \in Nat, k \in T PROVE k + 1 \in T
 <2>1. \A i \in Q : s[i] \in Int /\ i \in Nat OBVIOUS
 <2> SUFFICES ASSUME Upto(k + 1) # {} PROVE Least(Upto(k + 1)) OBVIOUS
 <2>2. CASE k + 1 \notin Q
  <3>1. Upto(k + 1) = Upto(k) BY <2>1, <2>2
  <3> HIDE DEF Upto, Least
  <3> QED BY <1>2, <3>1
 <2>3. CASE k + 1 \in Q
  <3>1. Upto(k + 1) = Upto(k) \cup {k + 1} BY <2>1, <2>3
  <3>2. \A i \in Upto(k) : i \in Q OBVIOUS
  <3>3. Upto(k) = {} \/ Least(Upto(k)) BY <1>2
  <3> HIDE DEF Upto
  <3>4. CASE Upto(k) = {} BY <2>1, <2>3, <3>1, <3>4
  <3>5. CASE Least(Upto(k))
   <4>1. PICK i \in Upto(k) : \A j \in Upto(k) : s[i] <= s[j] BY <3>5
   <4>2. CASE s[i] <= s[k + 1] BY <3>1, <4>1, <4>2
   <4>3. CASE ~(s[i] <= s[k + 1])
    <5>1. \A j \in Upto(k) : s[k + 1] <= s[j] BY <2>1, <2>3, <3>2, <4>1, <4>3
    <5> QED BY <2>1, <2>3, <3>1, <5>1
   <4> QED BY <4>2, <4>3
  <3> QED BY <3>3, <3>4, <3>5
 <2> QED BY <2>2, <2>3
<1>3. Upto(top) = Q OBVIOUS
<1> HIDE DEF T
<1>4. top \in T BY <1>1, <1>2, SetInduction
<1> QED BY <1>3, <1>4 DEF T

\* Comparison counts as this module does.
LEMMA ComparingCardinality == ASSUME NEW S PROVE Comparing!Cardinality(S) = Cardinality(S)
BY DEF Comparing!Cardinality, Cardinality

\* The sorted values are integers.
LEMMA OrderedIsSample ==
  ASSUME Pairs \in Nat, NEW s \in [1 .. Pairs -> Int], NEW k \in 1 .. Pairs
  PROVE  Comparing!Ordered(s, k) \in Int
<1> DEFINE Q == {i \in 1 .. Pairs : s[i] \in Comparing!Reached(s, k)}
           minus == [i \in 1 .. Pairs |-> -s[i]]
<1>1. \A i \in 1 .. Pairs : i \in Nat /\ 0 < i /\ i <= Pairs /\ s[i] \in Int /\ minus[i] \in Int /\ minus[i] = -s[i]
  OBVIOUS
<1>2. 1 .. Pairs # {} OBVIOUS
<1> HIDE DEF minus
<1>3. PICK most \in 1 .. Pairs : \A j \in 1 .. Pairs : minus[most] <= minus[j] BY <1>1, <1>2, LeastSample
<1>4. {i \in 1 .. Pairs : s[i] <= s[most]} = 1 .. Pairs BY <1>1, <1>3
<1>5. Cardinality(1 .. Pairs) = Pairs BY FS_Interval
<1>6. Cardinality({i \in 1 .. Pairs : s[i] <= s[most]}) = Pairs BY <1>4, <1>5, Zenon
<1>7. s[most] \in Comparing!Reached(s, k)
 <2>1. k <= Comparing!Cardinality({i \in 1 .. Pairs : s[i] <= s[most]}) BY <1>6, ComparingCardinality
 <2>2. most \in {i \in 1 .. Pairs : k <= Comparing!Cardinality({j \in 1 .. Pairs : s[j] <= s[i]})} BY <2>1, Zenon
 <2> QED BY <2>2, Zenon DEF Comparing!Reached, Comparing!Indices
<1>8. \A x \in Comparing!Reached(s, k) : \E i \in 1 .. Pairs : x = s[i]
  BY Zenon DEF Comparing!Reached, Comparing!Indices
<1>9. Q # {} /\ \A i \in Q : i \in 1 .. Pairs BY <1>7
<1>10. PICK i \in Q : \A j \in Q : s[i] <= s[j] BY <1>1, <1>9, LeastSample
<1>11. s[i] \in Comparing!Reached(s, k) /\ \A y \in Comparing!Reached(s, k) : s[i] <= y BY <1>8, <1>10
<1>12. Comparing!Ordered(s, k) \in Comparing!Reached(s, k) BY <1>11 DEF Comparing!Ordered, Comparing!Min
<1> QED BY <1>1, <1>8, <1>12

\* The sum of the two middle ones, or twice the middle one, is an integer.
LEMMA MedianIsInteger ==
  ASSUME Pairs \in Nat \ {0}, NEW s \in [1 .. Pairs -> Int]
  PROVE  Comparing!Median2(s) \in Int
<1>1. CASE Pairs % 2 = 1
 <2>1. Pairs \div 2 + 1 \in 1 .. Pairs BY <1>1
 <2>2. Comparing!Ordered(s, Pairs \div 2 + 1) \in Int BY <2>1, OrderedIsSample
 <2> QED BY <1>1, <2>2 DEF Comparing!Median2
<1>2. CASE Pairs % 2 # 1
 <2>1. Pairs \div 2 \in 1 .. Pairs /\ Pairs \div 2 + 1 \in 1 .. Pairs BY <1>2
 <2>2. Comparing!Ordered(s, Pairs \div 2) \in Int /\ Comparing!Ordered(s, Pairs \div 2 + 1) \in Int
   BY <2>1, OrderedIsSample
 <2> QED BY <1>2, <2>2 DEF Comparing!Median2
<1> QED BY <1>1, <1>2

\* The deviations are integers, and so is their median.
LEMMA DeviationIsInteger ==
  ASSUME Pairs \in Nat \ {0}, NEW b \in [1 .. Pairs -> Int]
  PROVE  Comparing!Mad4(b) \in Int
<1> DEFINE away == [i \in 1 .. Pairs |-> Comparing!Abs(2 * b[i] - Comparing!Median2(b))]
<1>1. away \in [1 .. Pairs -> Int] BY MedianIsInteger DEF Comparing!Abs
<1>2. Comparing!Mad4(b) = Comparing!Median2(away) BY DEF Comparing!Mad4, Comparing!Indices
<1> HIDE DEF away
<1> QED BY <1>1, <1>2, MedianIsInteger

\* A quantile of sorted values is a weighted mean of two neighbours, or the greatest one.
Interpolates(ms, p, i, k, r) ==
  /\ i \in 1 .. Replicates /\ k \in 1 .. Replicates /\ r \in 0 .. 39 /\ i <= k
  /\ Comparing!Quantile(ms, p) = 40 * ms[i] + r * (ms[k] - ms[i])
  /\ i = ((Replicates - 1) * p) \div 40 + 1
  /\ (k = i + 1 /\ r = ((Replicates - 1) * p) % 40) \/ (i = Replicates /\ k = i /\ r = 0)
  /\ i < Replicates => k = i + 1

\* It is such a mean of some two.
LEMMA QuantileBetween ==
  ASSUME Replicates \in Nat \ {0}, NEW ms \in [1 .. Replicates -> Int], NEW p \in {1, 39}
  PROVE  \E i, k, r : Interpolates(ms, p, i, k, r)
<1> DEFINE q == (Replicates - 1) * p
           j == q \div 40
           rest == q % 40
<1>1. q \in Nat /\ q <= 39 * (Replicates - 1) OBVIOUS
<1> HIDE DEF q
<1>2. j \in 0 .. Replicates - 1 /\ rest \in 0 .. 39 BY <1>1
<1>3. /\ j + 1 >= Replicates => Comparing!Quantile(ms, p) = 40 * ms[Replicates]
      /\ ~(j + 1 >= Replicates) => Comparing!Quantile(ms, p) = 40 * ms[j + 1] + rest * (ms[j + 2] - ms[j + 1])
  BY DEF q, Comparing!Quantile, Comparing!Parts
<1>4. j = ((Replicates - 1) * p) \div 40 /\ rest = ((Replicates - 1) * p) % 40 BY DEF q
<1> HIDE DEF j, rest
<1>5. CASE j + 1 >= Replicates
 <2>1. j + 1 = Replicates BY <1>2, <1>5
 <2>2. Comparing!Quantile(ms, p) = 40 * ms[j + 1] + 0 * (ms[j + 1] - ms[j + 1]) BY <1>3, <1>5, <2>1
 <2>3. Interpolates(ms, p, j + 1, j + 1, 0) BY <1>2, <1>4, <2>1, <2>2 DEF Interpolates
 <2> QED BY <2>3
<1>6. CASE ~(j + 1 >= Replicates)
 <2>1. j + 1 \in 1 .. Replicates /\ j + 2 \in 1 .. Replicates /\ j + 1 < Replicates /\ j + 2 = j + 1 + 1 BY <1>2, <1>6
 <2>2. Comparing!Quantile(ms, p) = 40 * ms[j + 1] + rest * (ms[j + 2] - ms[j + 1]) BY <1>3, <1>6
 <2>3. Interpolates(ms, p, j + 1, j + 2, rest) BY <1>2, <1>4, <2>1, <2>2 DEF Interpolates
 <2> QED BY <2>3
<1> QED BY <1>5, <1>6

\* The parameters of the comparisons, by assumption
LEMMA ComparisonBounds ==
  /\ Pairs \in Nat \ {0} /\ Exponents \subseteq Nat /\ Replicates \in Nat \ {0} /\ MaxEvaluated \in Nat \ {0}
  /\ \A p \in Permits : p = {"candidate-id"} \/ p = {"candidate-id", "source-candidate", "build-output"}
BY MeasurementAssumption DEF Comparing!ComparisonAssumption

\* A weighted mean of two values lies between bounds of both.
LEMMA MeanBetween ==
  ASSUME NEW x \in Int, NEW y \in Int, NEW v \in Int, NEW r \in 0 .. 39
  PROVE  /\ x >= v /\ y >= v => 40 * x + r * (y - x) >= 40 * v
         /\ x <= v /\ y <= v => 40 * x + r * (y - x) <= 40 * v
<1>1. \A p, q \in Nat : p * q \in Nat OBVIOUS
<1>2. 40 * x + r * (y - x) = (40 - r) * (x - v) + r * (y - v) + 40 * v OBVIOUS
<1>3. 40 * x + r * (y - x) = 40 * v - ((40 - r) * (v - x) + r * (v - y)) OBVIOUS
<1>4. ASSUME x >= v, y >= v PROVE 40 * x + r * (y - x) >= 40 * v
 <2>1. (40 - r) * (x - v) \in Nat /\ r * (y - v) \in Nat BY <1>1, <1>4
 <2> QED BY <1>2, <2>1
<1>5. ASSUME x <= v, y <= v PROVE 40 * x + r * (y - x) <= 40 * v
 <2>1. (40 - r) * (v - x) \in Nat /\ r * (v - y) \in Nat BY <1>1, <1>5
 <2> QED BY <1>3, <2>1
<1> QED BY <1>4, <1>5

\* A quantile is an integer, and within the bounds of all values.
LEMMA QuantileWithin ==
  ASSUME NEW ms \in [1 .. Replicates -> Int], NEW p \in {1, 39}, NEW v \in Int
  PROVE  /\ Comparing!Quantile(ms, p) \in Int
         /\ (\A k \in 1 .. Replicates : ms[k] >= v) => Comparing!Quantile(ms, p) >= 40 * v
         /\ (\A k \in 1 .. Replicates : ms[k] <= v) => Comparing!Quantile(ms, p) <= 40 * v
<1>1. Replicates \in Nat \ {0} BY ComparisonBounds
<1>2. PICK i, k, r : Interpolates(ms, p, i, k, r) BY <1>1, QuantileBetween, Zenon
<1>3. i \in 1 .. Replicates /\ k \in 1 .. Replicates /\ r \in 0 .. 39 /\ ms[i] \in Int /\ ms[k] \in Int
  BY <1>2 DEF Interpolates
<1> DEFINE x == ms[i]
           y == ms[k]
           z == Comparing!Quantile(ms, p)
<1>4. z = 40 * x + r * (y - x) BY <1>2 DEF Interpolates
<1>5. x \in Int /\ y \in Int /\ r \in Int BY <1>3
<1> HIDE DEF x, y, z
<1>6. /\ x >= v /\ y >= v => 40 * x + r * (y - x) >= 40 * v
      /\ x <= v /\ y <= v => 40 * x + r * (y - x) <= 40 * v
  BY <1>3, <1>5, MeanBetween
<1>7. /\ z \in Int
      /\ x >= v /\ y >= v => z >= 40 * v
      /\ x <= v /\ y <= v => z <= 40 * v
  BY <1>4, <1>5, <1>6
<1> QED BY <1>3, <1>7 DEF x, y, z

\* Of two naturals the greater has the greater quotient, or the same one and the greater rest.
LEMMA QuotientGrows ==
  ASSUME NEW q1 \in Nat, NEW q2 \in Nat, q1 <= q2
  PROVE  q1 \div 40 <= q2 \div 40 /\ (q1 \div 40 = q2 \div 40 => q1 % 40 <= q2 % 40)
OBVIOUS

\* The interval is not empty.
LEMMA LowBelowHigh ==
  ASSUME NEW ms \in [1 .. Replicates -> Int],
         \A j, k \in 1 .. Replicates : j <= k => ms[j] <= ms[k]
  PROVE  Comparing!Low(ms) <= Comparing!High(ms)
<1> DEFINE q1 == (Replicates - 1) * 1
           q2 == (Replicates - 1) * 39
<1>1. q1 \in Nat /\ q2 \in Nat /\ q1 <= q2 /\ Replicates \in Nat \ {0} BY ComparisonBounds
<1>2. Comparing!Low(ms) = Comparing!Quantile(ms, 1) /\ Comparing!High(ms) = Comparing!Quantile(ms, 39)
  BY DEF Comparing!Low, Comparing!High, Comparing!Parts
<1>3. PICK i1, k1, r1 : Interpolates(ms, 1, i1, k1, r1) BY <1>1, QuantileBetween
<1>4. PICK i2, k2, r2 : Interpolates(ms, 39, i2, k2, r2) BY <1>1, QuantileBetween
<1>5. /\ i1 = q1 \div 40 + 1 /\ i2 = q2 \div 40 + 1
      /\ (k1 = i1 + 1 /\ r1 = q1 % 40) \/ (i1 = Replicates /\ k1 = i1 /\ r1 = 0)
      /\ (k2 = i2 + 1 /\ r2 = q2 % 40) \/ (i2 = Replicates /\ k2 = i2 /\ r2 = 0)
      /\ i1 < Replicates => k1 = i1 + 1
      /\ Comparing!Quantile(ms, 1) = 40 * ms[i1] + r1 * (ms[k1] - ms[i1])
      /\ Comparing!Quantile(ms, 39) = 40 * ms[i2] + r2 * (ms[k2] - ms[i2])
  BY <1>3, <1>4, Zenon DEF Interpolates
<1> HIDE DEF q1, q2
<1>6. q1 \div 40 <= q2 \div 40 /\ (q1 \div 40 = q2 \div 40 => q1 % 40 <= q2 % 40) BY <1>1, QuotientGrows
<1>7. /\ i1 \in 1 .. Replicates /\ k1 \in 1 .. Replicates /\ r1 \in 0 .. 39 /\ i1 <= k1
      /\ i2 \in 1 .. Replicates /\ k2 \in 1 .. Replicates /\ r2 \in 0 .. 39 /\ i2 <= k2
  BY <1>3, <1>4, Zenon DEF Interpolates
<1>8. /\ ms[i1] \in Int /\ ms[k1] \in Int /\ ms[i2] \in Int /\ ms[k2] \in Int
      /\ ms[i1] <= ms[k1] /\ ms[i2] <= ms[k2]
  BY <1>7
<1>9. CASE i1 = i2
 <2>1. k1 = k2 /\ r1 <= r2
  <3>1. CASE i1 < Replicates
   <4>1. r1 = q1 % 40 /\ r2 = q2 % 40 /\ k1 = i1 + 1 /\ k2 = i2 + 1 BY <1>5, <1>7, <1>9, <3>1
   <4>2. q1 \div 40 \in Int /\ q2 \div 40 \in Int BY <1>1
   <4>3. q1 \div 40 = q2 \div 40 BY <1>5, <1>9, <4>2
   <4> QED BY <1>6, <1>9, <4>1, <4>3, Zenon
  <3>2. CASE i1 = Replicates
   <4>1. k1 = i1 /\ k2 = i1 BY <1>7, <1>9, <3>2
   <4>2. r1 = 0 BY <1>5, <4>1
   <4> QED BY <1>7, <4>1, <4>2
  <3> QED BY <1>1, <1>7, <3>1, <3>2
 <2> DEFINE x == ms[i1]
            y == ms[k1]
 <2>2. x \in Int /\ y \in Int /\ x <= y /\ r1 \in Int /\ r2 \in Int BY <1>7, <1>8
 <2>3. Comparing!Quantile(ms, 1) = 40 * x + r1 * (y - x) /\ Comparing!Quantile(ms, 39) = 40 * x + r2 * (y - x)
   BY <1>5, <1>9, <2>1
 <2> HIDE DEF x, y
 <2>4. r1 * (y - x) <= r2 * (y - x)
  <3>1. \A p, q \in Nat : p * q \in Nat OBVIOUS
  <3>2. (r2 - r1) * (y - x) \in Nat BY <2>1, <2>2, <3>1
  <3>3. (r2 - r1) * (y - x) = r2 * (y - x) - r1 * (y - x) BY <2>2
  <3> QED BY <2>2, <3>2, <3>3
 <2> QED BY <1>2, <2>2, <2>3, <2>4
<1>10. CASE i1 < i2
 <2>1. k1 <= i2 BY <1>5, <1>7, <1>10
 <2>2. ms[k1] <= ms[i2] BY <1>7, <2>1
 <2>3. 40 * ms[i1] + r1 * (ms[k1] - ms[i1]) <= 40 * ms[k1] BY <1>7, <1>8, MeanBetween
 <2>4. 40 * ms[i2] + r2 * (ms[k2] - ms[i2]) >= 40 * ms[i2] BY <1>7, <1>8, MeanBetween
 <2>5. Comparing!Quantile(ms, 1) \in Int /\ Comparing!Quantile(ms, 39) \in Int BY QuantileWithin
 <2>6. Comparing!Quantile(ms, 1) <= 40 * ms[k1] /\ Comparing!Quantile(ms, 39) >= 40 * ms[i2] BY <1>5, <2>3, <2>4
 <2> QED BY <1>2, <1>8, <2>2, <2>5, <2>6
<1>11. i1 <= i2 BY <1>1, <1>5, <1>6
<1> QED BY <1>7, <1>9, <1>10, <1>11

\* What a draw of positions sums to is an integer, and as large as the bound of all samples.
LEMMA DrawAtLeast ==
  ASSUME NEW d \in [1 .. Pairs -> Int], NEW x \in Comparing!Draws(d),
         NEW a \in Int, NEW m \in Int, \A i \in 1 .. Pairs : a * d[i] >= m
  PROVE  x \in Int /\ a * x >= Pairs * m
<1>1. Pairs \in Nat BY ComparisonBounds
<1>2. PICK f \in [1 .. Pairs -> 1 .. Pairs] : x = Comparing!Sum([i \in 1 .. Pairs |-> d[f[i]]])
  BY Zenon DEF Comparing!Draws, Comparing!Indices
<1> DEFINE e == [i \in 1 .. Pairs |-> d[f[i]]]
<1>3. e \in [1 .. Pairs -> Int] /\ \A i \in 1 .. Pairs : a * e[i] >= m OBVIOUS
<1> HIDE DEF e
<1>4. Comparing!Sum(e) \in Int /\ a * Comparing!Sum(e) >= Pairs * m BY <1>1, <1>3, SumAtLeast
<1> QED BY <1>2, <1>4 DEF e

\* The replicates are integers, sorted, and within the bounds of the samples.
LEMMA ReplicatesWithin ==
  ASSUME NEW d \in [1 .. Pairs -> Int], NEW ms \in Comparing!Bootstraps(d), NEW m \in Int
  PROVE  /\ ms \in [1 .. Replicates -> Int]
         /\ \A j, k \in 1 .. Replicates : j <= k => ms[j] <= ms[k]
         /\ (\A i \in 1 .. Pairs : d[i] >= m) => \A k \in 1 .. Replicates : ms[k] >= Pairs * m
         /\ (\A i \in 1 .. Pairs : d[i] <= m) => \A k \in 1 .. Replicates : ms[k] <= Pairs * m
<1>1. Pairs \in Nat BY ComparisonBounds
<1>2. /\ ms \in [1 .. Replicates -> Comparing!Draws(d)]
      /\ \A j, k \in 1 .. Replicates : j <= k => ms[j] <= ms[k]
  BY Zenon DEF Comparing!Bootstraps
<1>3. \A x \in Comparing!Draws(d) : x \in Int
 <2> SUFFICES ASSUME NEW x \in Comparing!Draws(d) PROVE x \in Int OBVIOUS
 <2> DEFINE a == 0
 <2>1. a \in Int /\ \A i \in 1 .. Pairs : a * d[i] >= a OBVIOUS
 <2> HIDE DEF a
 <2> QED BY <2>1, DrawAtLeast
<1>4. ms \in [1 .. Replicates -> Int] /\ \A k \in 1 .. Replicates : ms[k] \in Comparing!Draws(d) BY <1>2, <1>3
<1>5. ASSUME \A i \in 1 .. Pairs : d[i] >= m, NEW k \in 1 .. Replicates PROVE ms[k] >= Pairs * m
 <2> DEFINE a == 1
 <2>1. a \in Int /\ \A i \in 1 .. Pairs : a * d[i] >= m BY <1>5
 <2> HIDE DEF a
 <2>2. a * ms[k] >= Pairs * m BY <1>4, <2>1, DrawAtLeast
 <2> QED BY <1>4, <2>2 DEF a
<1>6. ASSUME \A i \in 1 .. Pairs : d[i] <= m, NEW k \in 1 .. Replicates PROVE ms[k] <= Pairs * m
 <2>1. -m \in Int /\ -1 \in Int /\ \A i \in 1 .. Pairs : (-1) * d[i] >= -m BY <1>6
 <2>2. (-1) * ms[k] >= Pairs * (-m) BY <1>4, <2>1, DrawAtLeast
 <2>3. Pairs * (-m) = -(Pairs * m) /\ Pairs * m \in Int BY <1>1
 <2> QED BY <1>4, <2>2, <2>3
<1> QED BY <1>2, <1>4, <1>5, <1>6

\* The interval is ordered, and within the bounds of the samples.
LEMMA IntervalWithin ==
  ASSUME NEW d \in [1 .. Pairs -> Int], NEW ms \in Comparing!Bootstraps(d), NEW m \in Int
  PROVE  /\ Comparing!Low(ms) \in Int /\ Comparing!High(ms) \in Int
         /\ Comparing!Low(ms) <= Comparing!High(ms)
         /\ (\A i \in 1 .. Pairs : d[i] >= m) => Comparing!Low(ms) >= 40 * (Pairs * m)
         /\ (\A i \in 1 .. Pairs : d[i] <= m) => Comparing!High(ms) <= 40 * (Pairs * m)
<1>1. Pairs * m \in Int BY ComparisonBounds
<1>2. /\ ms \in [1 .. Replicates -> Int]
      /\ \A j, k \in 1 .. Replicates : j <= k => ms[j] <= ms[k]
  BY ReplicatesWithin
<1>3. Comparing!Low(ms) = Comparing!Quantile(ms, 1) /\ Comparing!High(ms) = Comparing!Quantile(ms, 39)
  BY DEF Comparing!Low, Comparing!High, Comparing!Parts
<1>4. Comparing!Quantile(ms, 1) \in Int /\ Comparing!Quantile(ms, 39) \in Int BY <1>1, <1>2, QuantileWithin
<1>5. ASSUME \A i \in 1 .. Pairs : d[i] >= m PROVE Comparing!Quantile(ms, 1) >= 40 * (Pairs * m)
 <2>1. \A k \in 1 .. Replicates : ms[k] >= Pairs * m BY <1>5, ReplicatesWithin
 <2> QED BY <1>1, <1>2, <2>1, QuantileWithin
<1>6. ASSUME \A i \in 1 .. Pairs : d[i] <= m PROVE Comparing!Quantile(ms, 39) <= 40 * (Pairs * m)
 <2>1. \A k \in 1 .. Replicates : ms[k] <= Pairs * m BY <1>6, ReplicatesWithin
 <2> QED BY <1>1, <1>2, <2>1, QuantileWithin
<1>7. Comparing!Low(ms) <= Comparing!High(ms) BY <1>2, LowBelowHigh
<1> QED BY <1>3, <1>4, <1>5, <1>6, <1>7

----------------------------------------
(* Comparisons: one coordinate *)

\* What is measured of a coordinate: its samples, whose differences the interval is drawn from.
Coordinate(b, c, ms) ==
  /\ b \in [1 .. Pairs -> Exponents] /\ c \in [1 .. Pairs -> Exponents]
  /\ ms \in Comparing!Bootstraps(Comparing!Delta(b, c))
  /\ current = [baseline |-> b, candidate |-> c, low |-> Comparing!Low(ms), high |-> Comparing!High(ms),
                verdict |-> Comparing!Verdict(b, Comparing!Delta(b, c), ms),
                protected |-> Comparing!Protected(b, c, ms)]

\* Differences are integers, with the sign of what is better.
LEMMA Differ ==
  ASSUME NEW b \in [1 .. Pairs -> Exponents], NEW c \in [1 .. Pairs -> Exponents]
  PROVE  /\ Comparing!Delta(b, c) \in [1 .. Pairs -> Int]
         /\ \A i \in 1 .. Pairs :
              /\ b[i] \in Int /\ c[i] \in Int
              /\ Comparing!Delta(b, c)[i] = IF kind = "suite" THEN c[i] - b[i] ELSE b[i] - c[i]
<1>0. \A x \in Exponents : x \in Int BY ComparisonBounds
<1>1. \A i \in 1 .. Pairs : b[i] \in Int /\ c[i] \in Int BY <1>0
<1>2. Comparing!Delta(b, c) = [i \in 1 .. Pairs |-> IF kind = "suite" THEN c[i] - b[i] ELSE b[i] - c[i]]
  BY Zenon DEF Comparing!Delta, Comparing!Indices
<1> QED BY <1>1, <1>2

\* The interval of a coordinate is ordered, and between the least and the greatest difference.
LEMMA IntervalOfSamples ==
  ASSUME NEW b, NEW c, NEW ms, Coordinate(b, c, ms)
  PROVE  LET d == Comparing!Delta(b, c) IN
         /\ Comparing!Low(ms) \in Int /\ Comparing!High(ms) \in Int
         /\ Comparing!Low(ms) <= Comparing!High(ms)
         /\ \E i \in 1 .. Pairs : Comparing!Low(ms) >= 40 * Pairs * d[i]
         /\ \E i \in 1 .. Pairs : Comparing!High(ms) <= 40 * Pairs * d[i]
<1> DEFINE d == Comparing!Delta(b, c)
           minus == [i \in 1 .. Pairs |-> -d[i]]
<1>1. d \in [1 .. Pairs -> Int] /\ ms \in Comparing!Bootstraps(d) BY Differ DEF Coordinate
<1> HIDE DEF d
<1>2. Pairs \in Nat \ {0} /\ 1 .. Pairs # {} /\ \A i \in 1 .. Pairs : i \in Nat /\ 0 < i /\ i <= Pairs
  BY ComparisonBounds
<1>3. \A i \in 1 .. Pairs : d[i] \in Int /\ minus[i] \in Int /\ minus[i] = -d[i] BY <1>1
<1> HIDE DEF minus
<1>4. PICK i \in 1 .. Pairs : \A j \in 1 .. Pairs : d[i] <= d[j] BY <1>2, <1>3, LeastSample
<1>5. PICK k \in 1 .. Pairs : \A j \in 1 .. Pairs : minus[k] <= minus[j] BY <1>2, <1>3, LeastSample
<1>6. d[i] \in Int /\ d[k] \in Int /\ (\A j \in 1 .. Pairs : d[j] >= d[i]) /\ \A j \in 1 .. Pairs : d[j] <= d[k]
  BY <1>3, <1>4, <1>5
<1>7. /\ Comparing!Low(ms) \in Int /\ Comparing!High(ms) \in Int
      /\ Comparing!Low(ms) <= Comparing!High(ms)
      /\ Comparing!Low(ms) >= 40 * (Pairs * d[i])
  BY <1>1, <1>6, IntervalWithin
<1>8. Comparing!High(ms) <= 40 * (Pairs * d[k]) BY <1>1, <1>6, IntervalWithin
<1>9. 40 * (Pairs * d[i]) = 40 * Pairs * d[i] /\ 40 * (Pairs * d[k]) = 40 * Pairs * d[k] BY <1>2, <1>6
<1> QED BY <1>7, <1>8, <1>9 DEF d

\* What a coordinate that was measured records.
LEMMA CoordinateRecords ==
  ASSUME NEW b, NEW c, NEW ms, Coordinate(b, c, ms)
  PROVE  /\ current.baseline = b /\ current.candidate = c
         /\ current.low = Comparing!Low(ms) /\ current.high = Comparing!High(ms)
         /\ current.verdict = Comparing!Verdict(b, Comparing!Delta(b, c), ms)
         /\ current.protected = Comparing!Protected(b, c, ms)
BY DEF Coordinate

\* VerdictIsShown of a coordinate: an improvement has a pair that improved, a regression or a
\* protected one a pair that regressed.
LEMMA ShownVerdict ==
  ASSUME NEW b, NEW c, NEW ms, Coordinate(b, c, ms)
  PROVE  Comparing!VerdictIsShown
<1> DEFINE d == Comparing!Delta(b, c)
           low == Comparing!Low(ms)
           high == Comparing!High(ms)
           v == Comparing!Verdict(b, d, ms)
           p == Comparing!Protected(b, c, ms)
<1>1. d \in [1 .. Pairs -> Int] /\ ms \in Comparing!Bootstraps(d) /\ \A i \in 1 .. Pairs : d[i] \in Int
  BY Differ DEF Coordinate
<1>2. /\ v = "improvement" => low > 0
      /\ v = "regression" => ~(low <= 0 /\ 0 <= high) /\ ~(low > 0)
      /\ p => low < 0 /\ high < 0
  BY DEF Comparing!Verdict, Comparing!Protected
<1>3. /\ current.baseline = b /\ current.candidate = c /\ current.verdict = v /\ current.protected = p
  BY CoordinateRecords
<1> HIDE DEF d
<1>4. /\ low \in Int /\ high \in Int /\ low <= high
      /\ (\A i \in 1 .. Pairs : d[i] >= 0) => low >= 40 * (Pairs * 0)
      /\ (\A i \in 1 .. Pairs : d[i] <= 0) => high <= 40 * (Pairs * 0)
 <2> DEFINE zero == 0
 <2>1. zero \in Int OBVIOUS
 <2> HIDE DEF zero
 <2>2. /\ low \in Int /\ high \in Int /\ low <= high
       /\ (\A i \in 1 .. Pairs : d[i] >= zero) => low >= 40 * (Pairs * zero)
       /\ (\A i \in 1 .. Pairs : d[i] <= zero) => high <= 40 * (Pairs * zero)
   BY ONLY <1>1, <2>1, IntervalWithin
 <2> QED BY <2>2 DEF zero
<1>5. 40 * (Pairs * 0) = 0 BY ComparisonBounds
<1> HIDE DEF low, high, v, p
<1>6. low > 0 => \E i \in 1 .. Pairs : d[i] > 0 BY <1>1, <1>4, <1>5
<1>7. high < 0 => \E i \in 1 .. Pairs : d[i] < 0 BY <1>1, <1>4, <1>5
<1>8. /\ v = "improvement" => \E i \in 1 .. Pairs : d[i] > 0
      /\ v = "regression" => \E i \in 1 .. Pairs : d[i] < 0
      /\ p => v # "improvement" /\ \E i \in 1 .. Pairs : d[i] < 0
  BY <1>2, <1>4, <1>6, <1>7
<1>9. current.protected <=> p BY <1>3
<1> QED BY <1>3, <1>8, <1>9, Zenon DEF d, Comparing!VerdictIsShown, Comparing!Indices

\* What a sum is compared to is an integer.
LEMMA NoiseIsInteger ==
  ASSUME NEW b \in [1 .. Pairs -> Exponents]
  PROVE  14826 * Comparing!Mad4(b) \in Int
<1>1. b \in [1 .. Pairs -> Int] /\ Pairs \in Nat \ {0}
 <2>1. \A x \in Exponents : x \in Int BY ComparisonBounds
 <2> QED BY <2>1, ComparisonBounds
<1>2. Comparing!Mad4(b) \in Int BY <1>1, DeviationIsInteger
<1> QED BY <1>2

\* Differences that all exceed the noise to one side sum to one that does.
LEMMA BeyondNoise ==
  ASSUME NEW b, NEW c, NEW ms, Coordinate(b, c, ms), NEW sign \in {1, -1},
         \A i \in 1 .. Pairs : 40000 * (sign * Comparing!Delta(b, c)[i]) > 14826 * Comparing!Mad4(b),
         \A i \in 1 .. Pairs : sign * Comparing!Delta(b, c)[i] > 0
  PROVE  /\ ~Comparing!InNoise(b, Comparing!Delta(b, c))
         /\ sign = 1 => Comparing!Low(ms) > 0
         /\ sign = -1 => Comparing!High(ms) < 0
         /\ Comparing!Low(ms) \in Int /\ Comparing!High(ms) \in Int /\ Comparing!Low(ms) <= Comparing!High(ms)
<1> DEFINE d == Comparing!Delta(b, c)
           noise == 14826 * Comparing!Mad4(b)
           sum == Comparing!Sum(d)
           a == 40000 * sign
           bound == noise + 1
<1>1. d \in [1 .. Pairs -> Int] /\ ms \in Comparing!Bootstraps(d) /\ \A i \in 1 .. Pairs : d[i] \in Int
  BY Differ DEF Coordinate
<1>2. noise \in Int /\ Pairs \in Nat \ {0} /\ Pairs \in Nat BY NoiseIsInteger, ComparisonBounds DEF Coordinate
<1>3. Comparing!InNoise(b, d) <=> 40000 * Comparing!Abs(sum) <= noise * Pairs
 <2>1. Comparing!InNoise(b, d) <=> 40000 * Comparing!Abs(sum) <= 14826 * Comparing!Mad4(b) * Pairs
   BY ONLY SMT DEF Comparing!InNoise
 <2> QED BY <2>1
<1> HIDE DEF noise, d
<1>4. \A i \in 1 .. Pairs : 40000 * (sign * d[i]) > noise /\ sign * d[i] > 0 BY DEF noise, d
<1>5. a \in Int /\ bound \in Int /\ \A i \in 1 .. Pairs : a * d[i] >= bound
 <2>1. SUFFICES ASSUME NEW i \in 1 .. Pairs PROVE a * d[i] >= bound BY <1>2
 <2>2. d[i] \in Int /\ 40000 * (sign * d[i]) > noise BY <1>1, <1>4
 <2>3. a * d[i] = 40000 * (sign * d[i]) BY <2>2
 <2> QED BY <1>2, <2>2, <2>3
<1> HIDE DEF a, bound
<1>6. sum \in Int /\ a * sum >= Pairs * bound BY ONLY <1>1, <1>2, <1>5, SumAtLeast
<1>7. sign \in Int /\ \A i \in 1 .. Pairs : sign * d[i] >= 1
 <2>1. \A i \in 1 .. Pairs : sign * d[i] \in Int BY <1>1
 <2> QED BY <1>4, <2>1
<1>8. sign * sum >= Pairs * 1
 <2> DEFINE one == 1
 <2>1. one \in Int /\ \A i \in 1 .. Pairs : sign * d[i] >= one BY <1>7
 <2> HIDE DEF one
 <2>2. sign * sum >= Pairs * one BY ONLY <1>1, <1>2, <1>7, <2>1, SumAtLeast
 <2> QED BY <2>2 DEF one
<1> HIDE DEF sum
<1>9. Comparing!Abs(sum) = sign * sum BY <1>2, <1>6, <1>8 DEF Comparing!Abs
<1>10. 40000 * Comparing!Abs(sum) > noise * Pairs
 <2>1. a * sum = 40000 * (sign * sum) BY <1>6, <1>7 DEF a
 <2>2. Pairs * bound = noise * Pairs + Pairs /\ noise * Pairs \in Int BY <1>2 DEF bound
 <2>3. a * sum \in Int BY <1>5, <1>6
 <2> QED BY <1>2, <1>6, <1>9, <2>1, <2>2, <2>3
<1>11. ~Comparing!InNoise(b, d)
 <2>1. noise * Pairs \in Int /\ Comparing!Abs(sum) \in Int BY <1>2, <1>6 DEF Comparing!Abs
 <2> QED BY <1>3, <1>10, <2>1 DEF sum
<1>12. Comparing!Low(ms) \in Int /\ Comparing!High(ms) \in Int /\ Comparing!Low(ms) <= Comparing!High(ms)
  BY ONLY <1>1, <1>2, IntervalWithin
<1>13. ASSUME sign = 1 PROVE Comparing!Low(ms) > 0
 <2> DEFINE one == 1
 <2>1. one \in Int /\ \A i \in 1 .. Pairs : d[i] >= one BY <1>1, <1>7, <1>13
 <2> HIDE DEF one
 <2>2. Comparing!Low(ms) >= 40 * (Pairs * one) BY ONLY <1>1, <2>1, IntervalWithin
 <2> QED BY <1>2, <1>12, <2>2 DEF one
<1>14. ASSUME sign = -1 PROVE Comparing!High(ms) < 0
 <2> DEFINE one == -1
 <2>1. one \in Int /\ \A i \in 1 .. Pairs : d[i] <= one BY <1>1, <1>7, <1>14
 <2> HIDE DEF one
 <2>2. Comparing!High(ms) <= 40 * (Pairs * one) BY ONLY <1>1, <2>1, IntervalWithin
 <2> QED BY <1>2, <1>12, <2>2 DEF one
<1> QED BY <1>11, <1>12, <1>13, <1>14 DEF d

\* Differences that do not exceed the noise sum to none that does.
LEMMA WithinNoise ==
  ASSUME NEW b, NEW c, NEW ms, Coordinate(b, c, ms),
         \A i \in 1 .. Pairs : ~(40000 * Comparing!Abs(c[i] - b[i]) > 14826 * Comparing!Mad4(b))
  PROVE  Comparing!InNoise(b, Comparing!Delta(b, c))
<1> DEFINE d == Comparing!Delta(b, c)
           noise == 14826 * Comparing!Mad4(b)
           sum == Comparing!Sum(d)
           up == 40000
           down == -40000
           bound == -noise
<1>0. Coordinate(b, c, ms) OBVIOUS
<1>1. /\ d \in [1 .. Pairs -> Int]
      /\ \A i \in 1 .. Pairs : b[i] \in Int /\ c[i] \in Int /\ (d[i] = c[i] - b[i] \/ d[i] = b[i] - c[i])
 <2>1. b \in [1 .. Pairs -> Exponents] /\ c \in [1 .. Pairs -> Exponents] BY ONLY <1>0 DEF Coordinate
 <2> HIDE DEF d
 <2>2. /\ d \in [1 .. Pairs -> Int]
       /\ \A i \in 1 .. Pairs :
            /\ b[i] \in Int /\ c[i] \in Int
            /\ d[i] = IF kind = "suite" THEN c[i] - b[i] ELSE b[i] - c[i]
   BY ONLY <2>1, Differ DEF d
 <2> QED BY ONLY <2>2
<1>2. noise \in Int /\ Pairs \in Nat BY NoiseIsInteger, ComparisonBounds DEF Coordinate
<1>3. Comparing!InNoise(b, d) <=> 40000 * Comparing!Abs(sum) <= noise * Pairs
 <2>1. Comparing!InNoise(b, d) <=> 40000 * Comparing!Abs(sum) <= 14826 * Comparing!Mad4(b) * Pairs
   BY ONLY SMT DEF Comparing!InNoise
 <2> QED BY <2>1
<1> HIDE DEF noise, d
<1>4. \A i \in 1 .. Pairs : ~(40000 * Comparing!Abs(c[i] - b[i]) > noise) BY DEF noise
<1>5. /\ up \in Int /\ down \in Int /\ bound \in Int
      /\ \A i \in 1 .. Pairs : up * d[i] >= bound /\ down * d[i] >= bound
 <2> SUFFICES ASSUME NEW i \in 1 .. Pairs PROVE up * d[i] >= bound /\ down * d[i] >= bound BY <1>2
 <2>1. i \in 1 .. Pairs OBVIOUS
 <2>2. ~(40000 * Comparing!Abs(c[i] - b[i]) > noise) BY <1>4
 <2>3. b[i] \in Int /\ c[i] \in Int /\ (d[i] = c[i] - b[i] \/ d[i] = b[i] - c[i]) BY ONLY <1>1, <2>1
 <2> DEFINE x == b[i]
            y == c[i]
            z == d[i]
 <2> HIDE DEF x, y, z
 <2>4. x \in Int /\ y \in Int /\ (z = y - x \/ z = x - y) /\ ~(40000 * Comparing!Abs(y - x) > noise)
   BY ONLY <2>2, <2>3 DEF x, y, z
 <2>5. 40000 * z >= -noise /\ -40000 * z >= -noise BY ONLY <1>2, <2>4 DEF Comparing!Abs
 <2> QED BY ONLY <1>2, <2>4, <2>5 DEF z, up, down, bound
<1> HIDE DEF up, down, bound
<1>6. sum \in Int /\ up * sum >= Pairs * bound BY ONLY <1>1, <1>2, <1>5, SumAtLeast
<1>7. down * sum >= Pairs * bound BY ONLY <1>1, <1>2, <1>5, SumAtLeast
<1> HIDE DEF sum
<1>8. Pairs * bound = -(noise * Pairs) /\ noise * Pairs \in Int BY <1>2 DEF bound
<1>9. 40000 * Comparing!Abs(sum) <= noise * Pairs BY <1>6, <1>7, <1>8 DEF up, down, Comparing!Abs
<1> QED BY <1>3, <1>9 DEF d, sum

\* Such differences decide the verdict.
LEMMA BeyondDecides ==
  ASSUME NEW b, NEW c, NEW ms, Coordinate(b, c, ms), NEW sign \in {1, -1},
         \A i \in 1 .. Pairs : 40000 * (sign * Comparing!Delta(b, c)[i]) > 14826 * Comparing!Mad4(b),
         \A i \in 1 .. Pairs : sign * Comparing!Delta(b, c)[i] > 0
  PROVE  current.verdict = IF sign = 1 THEN "improvement" ELSE "regression"
<1> DEFINE low == Comparing!Low(ms)
           high == Comparing!High(ms)
           quiet == Comparing!InNoise(b, Comparing!Delta(b, c))
<1>1. /\ ~quiet /\ low \in Int /\ high \in Int /\ low <= high
      /\ (sign = 1 => low > 0) /\ (sign = -1 => high < 0)
  BY BeyondNoise
<1>2. current.verdict = Comparing!Verdict(b, Comparing!Delta(b, c), ms) BY CoordinateRecords
<1>3. Comparing!Verdict(b, Comparing!Delta(b, c), ms) =
        IF low <= 0 /\ 0 <= high THEN "inconclusive"
        ELSE IF quiet THEN "inconclusive" ELSE IF low > 0 THEN "improvement" ELSE "regression"
  BY ONLY SMT DEF Comparing!Verdict
<1>4. sign = 1 \/ sign = -1 OBVIOUS
<1> HIDE DEF low, high, quiet
<1> QED BY ONLY <1>1, <1>2, <1>3, <1>4

\* Samples that are all above those of the baseline, or all below, beyond its noise, decide the
\* verdict: for the candidate of a suite when above, of a capsule when below.
LEMMA OneSided ==
  ASSUME NEW b, NEW c, NEW ms, Coordinate(b, c, ms), NEW up \in BOOLEAN,
         \A i \in 1 .. Pairs : 40000 * Comparing!Abs(c[i] - b[i]) > 14826 * Comparing!Mad4(b),
         \A i \in 1 .. Pairs : IF up THEN c[i] > b[i] ELSE c[i] < b[i]
  PROVE  current.verdict = IF up = (kind = "suite") THEN "improvement" ELSE "regression"
<1> DEFINE d == Comparing!Delta(b, c)
           noise == 14826 * Comparing!Mad4(b)
           sign == IF up = (kind = "suite") THEN 1 ELSE -1
<1>0. b \in [1 .. Pairs -> Exponents] /\ c \in [1 .. Pairs -> Exponents] BY DEF Coordinate
<1>1. \A i \in 1 .. Pairs :
        b[i] \in Int /\ c[i] \in Int /\ d[i] = IF kind = "suite" THEN c[i] - b[i] ELSE b[i] - c[i]
  BY ONLY <1>0, Differ
<1>2. sign \in {1, -1} /\ (sign = 1 <=> up = (kind = "suite")) OBVIOUS
<1>3. \A i \in 1 .. Pairs : 40000 * Comparing!Abs(c[i] - b[i]) > noise /\ IF up THEN c[i] > b[i] ELSE c[i] < b[i]
  OBVIOUS
<1>u. up \in BOOLEAN OBVIOUS
<1> HIDE DEF d, noise
<1>4. ASSUME NEW i \in 1 .. Pairs PROVE 40000 * (sign * d[i]) > noise /\ sign * d[i] > 0
 <2>1. /\ b[i] \in Int /\ c[i] \in Int /\ d[i] = IF kind = "suite" THEN c[i] - b[i] ELSE b[i] - c[i]
       /\ 40000 * Comparing!Abs(c[i] - b[i]) > noise /\ IF up THEN c[i] > b[i] ELSE c[i] < b[i]
   BY <1>1, <1>3
 <2> DEFINE x == b[i]
            y == c[i]
            z == d[i]
 <2> HIDE DEF x, y, z
 <2>2. /\ x \in Int /\ y \in Int /\ z = IF kind = "suite" THEN y - x ELSE x - y
       /\ 40000 * Comparing!Abs(y - x) > noise /\ IF up THEN y > x ELSE y < x
   BY ONLY <2>1 DEF x, y, z
 <2>3. sign * z = Comparing!Abs(y - x) /\ Comparing!Abs(y - x) > 0 BY ONLY <1>u, <2>2 DEF sign, Comparing!Abs
 <2>4. 40000 * (sign * z) > noise /\ sign * z > 0 BY ONLY <2>2, <2>3
 <2> QED BY ONLY <2>4 DEF z
<1>5. Coordinate(b, c, ms) OBVIOUS
<1> HIDE DEF sign
<1>6. current.verdict = IF sign = 1 THEN "improvement" ELSE "regression"
  BY ONLY <1>2, <1>4, <1>5, BeyondDecides DEF d, noise
<1> QED BY ONLY <1>2, <1>6

\* UnanimityDecides of a coordinate
LEMMA UnanimousVerdict ==
  ASSUME NEW b, NEW c, NEW ms, Coordinate(b, c, ms)
  PROVE  Comparing!UnanimityDecides
<1> DEFINE noise == 14826 * Comparing!Mad4(b)
           Beyond(i) == 40000 * Comparing!Abs(c[i] - b[i]) > noise
           Verdict_(up) == IF up = (kind = "suite") THEN "improvement" ELSE "regression"
<1>0. Coordinate(b, c, ms) OBVIOUS
<1>1. ASSUME NEW up \in BOOLEAN, \A i \in 1 .. Pairs : (IF up THEN c[i] > b[i] ELSE c[i] < b[i]) /\ Beyond(i)
      PROVE  current.verdict = Verdict_(up)
  BY <1>1, OneSided
<1>2. ASSUME \A i \in 1 .. Pairs : ~Beyond(i) PROVE current.verdict = "inconclusive"
 <2>1. Comparing!InNoise(b, Comparing!Delta(b, c)) BY <1>2, WithinNoise
 <2>2. Comparing!Verdict(b, Comparing!Delta(b, c), ms) = "inconclusive" BY ONLY <2>1, SMT DEF Comparing!Verdict
 <2> QED BY <2>2, CoordinateRecords
<1>3. current.baseline = b /\ current.candidate = c BY CoordinateRecords
<1> HIDE DEF noise, Verdict_
<1>4. (\A i \in 1 .. Pairs : c[i] > b[i] /\ Beyond(i)) => current.verdict = Verdict_(TRUE)
 <2> DEFINE up == TRUE
 <2>1. up \in BOOLEAN OBVIOUS
 <2> HIDE DEF Beyond
 <2> SUFFICES ASSUME \A i \in 1 .. Pairs : c[i] > b[i] /\ Beyond(i) PROVE current.verdict = Verdict_(TRUE) OBVIOUS
 <2>2. \A i \in 1 .. Pairs : (IF up THEN c[i] > b[i] ELSE c[i] < b[i]) /\ Beyond(i) OBVIOUS
 <2> HIDE DEF up
 <2>3. current.verdict = Verdict_(up) BY ONLY <1>1, <2>1, <2>2
 <2> QED BY ONLY <2>3 DEF up
<1>5. (\A i \in 1 .. Pairs : c[i] < b[i] /\ Beyond(i)) => current.verdict = Verdict_(FALSE)
 <2> DEFINE up == FALSE
 <2>1. up \in BOOLEAN OBVIOUS
 <2> HIDE DEF Beyond
 <2> SUFFICES ASSUME \A i \in 1 .. Pairs : c[i] < b[i] /\ Beyond(i) PROVE current.verdict = Verdict_(FALSE) OBVIOUS
 <2>2. \A i \in 1 .. Pairs : (IF up THEN c[i] > b[i] ELSE c[i] < b[i]) /\ Beyond(i) OBVIOUS
 <2> HIDE DEF up
 <2>3. current.verdict = Verdict_(up) BY ONLY <1>1, <2>1, <2>2
 <2> QED BY ONLY <2>3 DEF up
<1> QED BY ONLY <1>2, <1>3, <1>4, <1>5, SMT DEF noise, Verdict_, Comparing!UnanimityDecides, Comparing!Indices

----------------------------------------
(* Comparisons: the report *)

\* What a report says of a coordinate.
Reports == [verdict : Comparing!Verdicts, protected : BOOLEAN]

\* The inductive invariant of comparisons: a coordinate is in hand while it is recorded, there is
\* no verdict before the report, a run only of a suite comparison that has one, and an error only
\* at the end.
ComparingInv ==
  /\ kind \in {"suite", "capsule"} /\ Len(sets) \in Nat \ {0}
  /\ pc \in {"load", "admit", "measure", "record", "report", "preflight", "begin", "publish", "done"}
  /\ error \in {"none", "load", "admission", "statistics", "preflight", "allocation", "execution"}
  /\ pc # "done" => error = "none"
  /\ IF pc = "record" THEN \E b, c, ms : Coordinate(b, c, ms) ELSE current = Comparing!None
  /\ measured \in Seq(Reports) /\ Len(measured) <= Len(sets)
  /\ pc \in {"load", "admit", "measure", "record"} => Len(measured) < Len(sets)
  /\ pc \in {"load", "admit", "measure", "record", "report"} => overall = "none"
  /\ overall \in Comparing!Verdicts \cup {"mixed", "none"}
  /\ pc \in {"preflight", "begin", "publish"} => overall # "none" /\ kind = "suite"
  /\ run \in {"none", "active", "success", "failure"} /\ (run = "active" <=> pc = "publish")
  /\ pc \notin {"publish", "done"} => run = "none"
  /\ reported \in {<< >>, <<"comparison/report.json">>, Comparing!Outputs}
  /\ run = "none" => reported = << >>
  /\ Comparing!ImprovementIsUnvetoed /\ Comparing!RunHasItsReport

\* A step of a comparison leaves its arms as they are.
LEMMA ArmsStay ==
  ASSUME Comparing!Next
  PROVE  UNCHANGED <<kind, differs, contract, sets>>
BY DEF Comparing!Next, Comparing!Load, Comparing!Admit, Comparing!Measure, Comparing!Overflow, Comparing!Record,
  Comparing!Report, Comparing!Preflight, Comparing!Begin, Comparing!Publish, Comparing!Succeed, Comparing!arms

\* Arms that can be loaded satisfy it.
LEMMA ComparingInit == Comparing!Init => ComparingInv
<1> SUFFICES ASSUME Comparing!Init PROVE ComparingInv OBVIOUS
<1>1. MaxEvaluated \in Nat /\ \A k \in 1 .. MaxEvaluated : k \in Nat \ {0} BY ComparisonBounds
<1>2. kind \in {"suite", "capsule"} /\ Len(sets) \in Nat \ {0}
 <2>1. CASE kind = "suite" /\ sets \in UNION {[1 .. k -> {"evaluation"}] : k \in 1 .. MaxEvaluated}
  <3>1. PICK k \in 1 .. MaxEvaluated : sets \in [1 .. k -> {"evaluation"}] BY <2>1
  <3> QED BY <1>1, <2>1, <3>1
 <2>2. CASE kind = "capsule" /\ sets \in {<<"training">> \o [i \in 1 .. k |-> "evaluation"] : k \in 1 .. MaxEvaluated}
  <3>1. PICK k \in 1 .. MaxEvaluated : sets = <<"training">> \o [i \in 1 .. k |-> "evaluation"] BY <2>2
  <3> DEFINE rest == [i \in 1 .. k |-> "evaluation"]
  <3>2. rest \in Seq({"evaluation"}) /\ Len(rest) = k /\ k \in Nat BY <1>1
  <3> HIDE DEF rest
  <3>3. Len(<<"training">> \o rest) = 1 + Len(rest) BY <3>2
  <3> QED BY <1>1, <2>2, <3>1, <3>2, <3>3 DEF rest
 <2> QED BY <2>1, <2>2, Zenon DEF Comparing!Init
<1>3. /\ pc = "load" /\ error = "none" /\ current = Comparing!None /\ measured = << >> /\ overall = "none"
      /\ run = "none" /\ reported = << >>
  BY DEF Comparing!Init
<1> QED BY <1>2, <1>3 DEF ComparingInv, Comparing!ImprovementIsUnvetoed, Comparing!RunHasItsReport

\* Steps that only go on, or fail before a run is begun.
LEMMA PassingSteps ==
  ASSUME ComparingInv, Comparing!Load \/ Comparing!Admit \/ Comparing!Overflow \/ Comparing!Preflight
  PROVE  ComparingInv'
<1>1. UNCHANGED <<kind, sets, current, measured, overall, run, reported>>
  BY DEF Comparing!Load, Comparing!Admit, Comparing!Overflow, Comparing!Preflight, Comparing!arms
<1>2. /\ pc \in {"load", "admit", "measure", "preflight"} /\ error = "none"
      /\ \/ pc' = "done" /\ error' \in {"load", "admission", "statistics", "preflight"}
         \/ error' = error /\ pc = "load" /\ pc' = "admit"
         \/ error' = error /\ pc = "admit" /\ pc' = "measure"
         \/ error' = error /\ pc = "preflight" /\ pc' = "begin"
  BY DEF ComparingInv, Comparing!Load, Comparing!Admit, Comparing!Overflow, Comparing!Preflight, Comparing!At,
    Comparing!Goto, Comparing!Fail
<1>3. pc # "record" /\ pc' # "record" /\ run = "none" /\ run # "active" /\ pc' # "publish" /\ reported = << >>
  BY <1>2 DEF ComparingInv
<1>4. Comparing!ImprovementIsUnvetoed' BY <1>1 DEF ComparingInv, Comparing!ImprovementIsUnvetoed
<1>5. Comparing!RunHasItsReport' BY <1>1, <1>2, <1>3 DEF Comparing!RunHasItsReport
<1> QED BY <1>1, <1>2, <1>3, <1>4, <1>5 DEF ComparingInv

\* A coordinate is measured.
LEMMA MeasureStep ==
  ASSUME ComparingInv, Comparing!Measure
  PROVE  ComparingInv'
<1>1. /\ pc = "measure" /\ pc' = "record"
      /\ UNCHANGED <<kind, contract, sets, error, measured, overall, run, reported>>
  BY DEF Comparing!Measure, Comparing!At, Comparing!Goto, Comparing!arms
<1>2. PICK b, c \in [1 .. Pairs -> Exponents] : \E ms \in Comparing!Bootstraps(Comparing!Delta(b, c)) :
        current' = [baseline |-> b, candidate |-> c, low |-> Comparing!Low(ms), high |-> Comparing!High(ms),
                    verdict |-> Comparing!Verdict(b, Comparing!Delta(b, c), ms),
                    protected |-> Comparing!Protected(b, c, ms)]
  BY Zenon DEF Comparing!Measure, Comparing!Indices
<1>3. PICK ms \in Comparing!Bootstraps(Comparing!Delta(b, c)) :
        current' = [baseline |-> b, candidate |-> c, low |-> Comparing!Low(ms), high |-> Comparing!High(ms),
                    verdict |-> Comparing!Verdict(b, Comparing!Delta(b, c), ms),
                    protected |-> Comparing!Protected(b, c, ms)]
  BY <1>2
<1>4. Coordinate(b, c, ms)' BY <1>1, <1>3 DEF Coordinate, Comparing!Delta, Comparing!Verdict, Comparing!Protected
<1>5. Comparing!ImprovementIsUnvetoed' /\ Comparing!RunHasItsReport'
  BY <1>1 DEF ComparingInv, Comparing!ImprovementIsUnvetoed, Comparing!RunHasItsReport
<1> QED BY <1>1, <1>4, <1>5 DEF ComparingInv

\* A verdict is one of the three.
LEMMA VerdictIsOne ==
  ASSUME NEW b, NEW d, NEW ms
  PROVE  Comparing!Verdict(b, d, ms) \in Comparing!Verdicts
BY DEF Comparing!Verdict, Comparing!Verdicts

\* The coordinate joins the report.
LEMMA RecordStep ==
  ASSUME ComparingInv, Comparing!Record
  PROVE  ComparingInv'
<1> DEFINE entry == [verdict |-> current.verdict, protected |-> current.protected]
<1>1. /\ pc = "record" /\ current' = Comparing!None /\ measured' = Append(measured, entry)
      /\ pc' = IF Len(measured) + 1 < Len(sets) THEN "measure" ELSE "report"
      /\ UNCHANGED <<kind, sets, error, overall, run, reported>>
  BY DEF Comparing!Record, Comparing!At, Comparing!Goto, Comparing!arms
<1>2. PICK b, c, ms : Coordinate(b, c, ms) BY <1>1 DEF ComparingInv
<1>3. current.verdict \in Comparing!Verdicts /\ current.protected \in BOOLEAN
 <2>1. current.verdict = Comparing!Verdict(b, Comparing!Delta(b, c), ms) BY <1>2, CoordinateRecords
 <2>2. current.protected = Comparing!Protected(b, c, ms) BY <1>2, CoordinateRecords
 <2>3. Comparing!Protected(b, c, ms) \in BOOLEAN BY DEF Comparing!Protected
 <2>4. Comparing!Verdict(b, Comparing!Delta(b, c), ms) \in Comparing!Verdicts BY VerdictIsOne
 <2> QED BY ONLY <2>1, <2>2, <2>3, <2>4
<1>4. entry \in Reports BY <1>3 DEF Reports
<1> HIDE DEF entry
<1>5. /\ measured \in Seq(Reports) /\ Len(measured) < Len(sets) /\ Len(sets) \in Nat
      /\ overall = "none" /\ run = "none" /\ reported = << >> /\ error = "none"
  BY <1>1 DEF ComparingInv
<1>6. /\ measured' \in Seq(Reports) /\ Len(measured') = Len(measured) + 1 /\ Len(measured) \in Nat BY <1>1, <1>4, <1>5
<1>7. Comparing!ImprovementIsUnvetoed' /\ Comparing!RunHasItsReport'
  BY <1>1, <1>5 DEF Comparing!ImprovementIsUnvetoed, Comparing!RunHasItsReport
<1>8. /\ Len(measured') <= Len(sets') /\ (pc' = "measure" => Len(measured') < Len(sets'))
      /\ pc' \in {"measure", "report"}
  BY <1>1, <1>5, <1>6
<1> QED BY <1>1, <1>5, <1>6, <1>7, <1>8 DEF ComparingInv

\* The verdict all have is one of them, and is the only one unless it is mixed.
LEMMA UniformIsOne ==
  ASSUME NEW verdicts, IsFiniteSet(verdicts)
  PROVE  \/ Comparing!Uniform(verdicts) = "mixed"
         \/ Comparing!Uniform(verdicts) \in verdicts /\ \A v \in verdicts : v = Comparing!Uniform(verdicts)
<1>1. CASE Cardinality(verdicts) = 1
 <2>1. PICK v : verdicts = {v} BY <1>1, FS_Singleton
 <2>2. Comparing!Uniform(verdicts) = CHOOSE w \in verdicts : TRUE BY <1>1, ComparingCardinality DEF Comparing!Uniform
 <2> QED BY <2>1, <2>2
<1>2. CASE Cardinality(verdicts) # 1 BY <1>2, ComparingCardinality DEF Comparing!Uniform
<1> QED BY <1>1, <1>2

\* The report
LEMMA ReportStep ==
  ASSUME ComparingInv, Comparing!Report
  PROVE  ComparingInv'
<1> DEFINE Counts(j) == kind = "suite" \/ sets[j] = "evaluation"
           Verdict_(j) == measured[j].verdict
           among == {j \in DOMAIN measured : Counts(j)}
           evaluated == Comparing!Evaluated
           protected == \E i \in DOMAIN measured : measured[i].protected
<1>1. /\ pc = "report" /\ overall' = Comparing!Overall /\ pc' = IF kind = "suite" THEN "preflight" ELSE "done"
      /\ UNCHANGED <<kind, sets, error, current, measured, run, reported>>
  BY DEF Comparing!Report, Comparing!At, Comparing!Goto, Comparing!arms
<1>2. /\ measured \in Seq(Reports) /\ run = "none" /\ reported = << >> /\ error = "none" /\ kind \in {"suite", "capsule"}
  BY <1>1 DEF ComparingInv
<1>3. evaluated = {Verdict_(j) : j \in among} BY Zenon DEF Comparing!Evaluated
<1>4. IsFiniteSet(evaluated)
 <2>1. DOMAIN measured = 1 .. Len(measured) /\ Len(measured) \in Int BY <1>2
 <2>2. IsFiniteSet(DOMAIN measured) BY <2>1, FS_Interval
 <2>3. IsFiniteSet(among) BY <2>2, FS_Subset
 <2> DEFINE image == [j \in among |-> Verdict_(j)]
 <2> HIDE DEF evaluated, among
 <2>4. image \in Surjection(among, evaluated) BY <1>3 DEF Surjection
 <2> QED BY <2>3, <2>4, FS_Surjection
<1>5. \A v \in evaluated : v \in Comparing!Verdicts
 <2>1. \A j \in DOMAIN measured : measured[j] \in Reports BY <1>2
 <2>2. \A j \in DOMAIN measured : measured[j].verdict \in Comparing!Verdicts BY <2>1 DEF Reports
 <2> QED BY <1>3, <2>2
<1>6. \A j \in among : Verdict_(j) \in evaluated BY <1>3
<1>7. Comparing!Overall = IF Comparing!Uniform(evaluated) = "improvement" /\ protected
                            THEN "mixed" ELSE Comparing!Uniform(evaluated)
  BY Zenon DEF Comparing!Overall
<1> HIDE DEF evaluated, protected
<1>8. \/ Comparing!Uniform(evaluated) = "mixed"
      \/ /\ Comparing!Uniform(evaluated) \in evaluated
         /\ \A v \in evaluated : v = Comparing!Uniform(evaluated)
  BY <1>4, UniformIsOne
<1>9. overall' \in Comparing!Verdicts \cup {"mixed"} /\ overall' # "none"
  BY <1>1, <1>5, <1>7, <1>8 DEF Comparing!Verdicts
<1>10. overall' = "improvement" => ~protected /\ \A j \in among : Verdict_(j) = "improvement"
 <2> SUFFICES ASSUME overall' = "improvement" PROVE ~protected /\ \A j \in among : Verdict_(j) = "improvement" OBVIOUS
 <2>1. Comparing!Uniform(evaluated) = "improvement" /\ ~protected BY <1>1, <1>7
 <2>2. \A v \in evaluated : v = "improvement" BY <1>8, <2>1
 <2> QED BY <1>6, <2>1, <2>2
<1>11. Comparing!ImprovementIsUnvetoed' BY <1>1, <1>10 DEF Comparing!ImprovementIsUnvetoed, protected
<1>12. Comparing!RunHasItsReport' BY <1>1, <1>2 DEF Comparing!RunHasItsReport
<1> QED BY <1>1, <1>2, <1>9, <1>11, <1>12 DEF ComparingInv

\* One output with another one after it is the pair of them.
LEMMA AppendToOne == ASSUME NEW a, NEW b PROVE Append(<<a>>, b) = <<a, b>>
<1> DEFINE S == {a, b}
<1>0. a \in S /\ b \in S OBVIOUS
<1> HIDE DEF S
<1> DEFINE s == Append(<<a>>, b)
           t == <<a, b>>
<1>1. t \in Seq(S) /\ Len(t) = 2 /\ t[1] = a /\ t[2] = b BY <1>0
<1>2. s \in Seq(S) /\ Len(s) = 2 /\ s[1] = a /\ s[2] = b
 <2>1. <<a>> \in Seq(S) /\ Len(<<a>>) = 1 /\ <<a>>[1] = a BY <1>0
 <2> QED BY <1>0, <2>1
<1> HIDE DEF s, t
<1>3. s = [i \in 1 .. 2 |-> s[i]] /\ t = [i \in 1 .. 2 |-> t[i]] BY <1>1, <1>2
<1>4. \A i \in 1 .. 2 : s[i] = t[i]
 <2>1. \A i \in 1 .. 2 : i = 1 \/ i = 2 OBVIOUS
 <2> QED BY <2>1, <1>1, <1>2
<1>5. s = t BY <1>3, <1>4
<1> QED BY <1>5 DEF s, t

\* The run of a suite comparison
LEMMA RunSteps ==
  ASSUME ComparingInv, Comparing!Begin \/ Comparing!Publish \/ Comparing!Succeed
  PROVE  ComparingInv'
<1>1. UNCHANGED <<kind, sets, current, measured, overall>>
  BY DEF Comparing!Begin, Comparing!Publish, Comparing!Succeed, Comparing!arms
<1>2. pc \in {"begin", "publish"} /\ error = "none" /\ overall # "none" /\ kind = "suite"
  BY DEF ComparingInv, Comparing!Begin, Comparing!Publish, Comparing!Succeed, Comparing!At
<1>3. \/ pc = "begin" /\ run' = "active" /\ pc' = "publish" /\ UNCHANGED <<error, reported>>
      \/ pc = "begin" /\ pc' = "done" /\ error' = "allocation" /\ UNCHANGED <<run, reported>>
      \/ /\ pc = "publish" /\ Len(reported) < 2 /\ reported' = Append(reported, Comparing!Outputs[Len(reported) + 1])
         /\ UNCHANGED <<pc, error, run>>
      \/ pc = "publish" /\ pc' = "done" /\ error' = "execution" /\ run' = "failure" /\ UNCHANGED reported
      \/ pc = "publish" /\ reported = Comparing!Outputs /\ run' = "success" /\ pc' = "done" /\ UNCHANGED <<error, reported>>
  BY DEF Comparing!Begin, Comparing!Publish, Comparing!Succeed, Comparing!At, Comparing!Goto, Comparing!Fail,
    Comparing!Escaped
<1>4. reported \in {<< >>, <<"comparison/report.json">>, Comparing!Outputs} BY DEF ComparingInv
<1>5. reported' \in {<< >>, <<"comparison/report.json">>, Comparing!Outputs}
 <2>1. CASE reported' = reported BY <1>4, <2>1
 <2>2. CASE Len(reported) < 2 /\ reported' = Append(reported, Comparing!Outputs[Len(reported) + 1])
  <3>1. CASE reported = << >> BY <2>2, <3>1 DEF Comparing!Outputs
  <3>2. CASE reported = <<"comparison/report.json">>
   <4>1. Len(reported) + 1 = 2 BY <3>2
   <4>2. reported' = Append(<<"comparison/report.json">>, "comparison/report.md")
     BY <2>2, <3>2, <4>1 DEF Comparing!Outputs
   <4> QED BY ONLY <4>2, AppendToOne, Zenon DEF Comparing!Outputs
  <3>3. CASE reported = Comparing!Outputs BY <2>2, <3>3 DEF Comparing!Outputs
  <3> QED BY <1>4, <3>1, <3>2, <3>3
 <2> QED BY <1>3, <2>1, <2>2
<1>6. pc' # "record" /\ (pc = "begin" => run = "none" /\ reported = << >>) /\ (pc = "publish" <=> run = "active")
  BY <1>2, <1>3 DEF ComparingInv
<1>7. Comparing!ImprovementIsUnvetoed' BY <1>1 DEF ComparingInv, Comparing!ImprovementIsUnvetoed
<1>8. Comparing!RunHasItsReport' BY <1>1, <1>2, <1>3, <1>6 DEF Comparing!RunHasItsReport
<1> QED BY <1>1, <1>2, <1>3, <1>5, <1>6, <1>7, <1>8 DEF ComparingInv

\* Every step of a comparison keeps it.
LEMMA ComparingKept ==
  ASSUME ComparingInv, Comparing!Next
  PROVE  ComparingInv'
BY PassingSteps, MeasureStep, RecordStep, ReportStep, RunSteps DEF Comparing!Next

\* The first element, as a sequence
LEMMA FirstOnly == ASSUME NEW S, NEW s \in Seq(S), Len(s) >= 1 PROVE SubSeq(s, 1, 1) = <<s[1]>>
<1> DEFINE t == SubSeq(s, 1, 1)
           u == <<s[1]>>
<1>1. s[1] \in S OBVIOUS
<1>2. t = [i \in 1 .. 1 |-> s[i]] OBVIOUS
<1>3. u = [i \in 1 .. 1 |-> s[i]]
 <2>1. \A i \in 1 .. 1 : i = 1 OBVIOUS
 <2>2. u = [i \in 1 .. 1 |-> u[i]] /\ u[1] = s[1] BY <1>1
 <2> HIDE DEF u
 <2> QED BY <2>1, <2>2
<1> QED BY <1>2, <1>3

\* The prefixes of two outputs
LEMMA PrefixesOfTwo ==
  ASSUME NEW a, NEW b
  PROVE  /\ Comparing!IsPrefix(<< >>, <<a, b>>) /\ Comparing!IsPrefix(<<a>>, <<a, b>>)
         /\ Comparing!IsPrefix(<<a, b>>, <<a, b>>)
<1> DEFINE S == {a, b}
           one == <<a>>
           two == <<a, b>>
<1>1. a \in S /\ b \in S OBVIOUS
<1> HIDE DEF S
<1>2. /\ one \in Seq(S) /\ Len(one) = 1 /\ one[1] = a
      /\ two \in Seq(S) /\ Len(two) = 2 /\ two[1] = a
  BY <1>1
<1> HIDE DEF one, two
<1>3. SubSeq(one, 1, 1) = <<one[1]>> /\ SubSeq(two, 1, 1) = <<two[1]>> BY <1>2, FirstOnly
<1>4. Comparing!IsPrefix(<< >>, two) BY <1>2 DEF Comparing!IsPrefix
<1>5. Comparing!IsPrefix(one, two) BY <1>2, <1>3 DEF Comparing!IsPrefix
<1>6. Comparing!IsPrefix(two, two) BY <1>2 DEF Comparing!IsPrefix
<1> QED BY <1>4, <1>5, <1>6 DEF one, two

\* TypeOK of Comparison
LEMMA ComparisonTypes == ASSUME ComparingInv PROVE Comparing!TypeOK
<1>1. Comparing!IsPrefix(reported, Comparing!Outputs)
 <2>1. reported = << >> \/ reported = <<"comparison/report.json">> \/ reported = Comparing!Outputs BY DEF ComparingInv
 <2> QED BY ONLY <2>1, PrefixesOfTwo, Zenon DEF Comparing!Outputs
<1>2. \A i \in DOMAIN measured : measured[i].verdict \in Comparing!Verdicts /\ measured[i].protected \in BOOLEAN
 <2>1. \A i \in DOMAIN measured : measured[i] \in Reports BY DEF ComparingInv
 <2> QED BY <2>1 DEF Reports
<1>3. ASSUME current # Comparing!None
      PROVE  LET d == Comparing!Delta(current.baseline, current.candidate) IN
             /\ current.low <= current.high
             /\ \E i \in Comparing!Indices : current.low >= Comparing!Parts * Pairs * d[i]
             /\ \E i \in Comparing!Indices : current.high <= Comparing!Parts * Pairs * d[i]
 <2>1. PICK b, c, ms : Coordinate(b, c, ms) BY <1>3 DEF ComparingInv
 <2> DEFINE d == Comparing!Delta(b, c)
 <2>2. /\ current.baseline = b /\ current.candidate = c
       /\ current.low = Comparing!Low(ms) /\ current.high = Comparing!High(ms)
   BY <2>1, CoordinateRecords
 <2>3. /\ Comparing!Low(ms) <= Comparing!High(ms)
       /\ \E i \in 1 .. Pairs : Comparing!Low(ms) >= 40 * Pairs * d[i]
       /\ \E i \in 1 .. Pairs : Comparing!High(ms) <= 40 * Pairs * d[i]
   BY <2>1, IntervalOfSamples
 <2> QED BY <2>2, <2>3, Zenon DEF Comparing!Indices, Comparing!Parts
<1> QED BY <1>1, <1>2, <1>3 DEF ComparingInv, Comparing!TypeOK

\* Of comparisons that measure, ComparisonIsFair
LEMMA FairMeasurement ==
  ASSUME ComparingInv
  PROVE  /\ Comparing!TypeOK /\ Comparing!VerdictIsShown /\ Comparing!UnanimityDecides
         /\ Comparing!ImprovementIsUnvetoed /\ Comparing!RunHasItsReport
<1>1. CASE pc = "record"
 <2>1. PICK b, c, ms : Coordinate(b, c, ms) BY <1>1 DEF ComparingInv
 <2> QED BY <2>1, ShownVerdict, UnanimousVerdict, ComparisonTypes DEF ComparingInv
<1>2. CASE pc # "record"
 <2>1. current = Comparing!None BY <1>2 DEF ComparingInv
 <2> QED BY <2>1, ComparisonTypes, SMT DEF ComparingInv, Comparing!VerdictIsShown, Comparing!UnanimityDecides
<1> QED BY <1>1, <1>2

\* ComparingInv holds whenever the system is a comparison that measures.
THEOREM ComparingInvariance == Spec => [](system = "comparing" => ComparingInv)
<1>1. Init => (system = "comparing" => ComparingInv) BY ComparingInit DEF Init
<1>2. (system = "comparing" => ComparingInv) /\ [Next]_vars => (system = "comparing" => ComparingInv)'
 <2> SUFFICES ASSUME system = "comparing" => ComparingInv, [Next]_vars, system' = "comparing" PROVE ComparingInv'
   OBVIOUS
 <2>1. CASE UNCHANGED vars
  <3>1. /\ UNCHANGED <<kind, contract, sets, pc, error, current, measured, overall, run, reported>>
        /\ ComparingInv
    BY <2>1 DEF vars, comparisonVars
  <3>2. \A b, c, ms : Coordinate(b, c, ms)' <=> Coordinate(b, c, ms)
    BY <3>1 DEF Coordinate, Comparing!Delta, Comparing!Protected
  <3>3. Comparing!ImprovementIsUnvetoed' /\ Comparing!RunHasItsReport'
    BY <3>1 DEF ComparingInv, Comparing!ImprovementIsUnvetoed, Comparing!RunHasItsReport
  <3> QED BY <3>1, <3>2, <3>3 DEF ComparingInv
 <2>2. CASE Next
  <3>1. Comparing!Next /\ system = "comparing" BY <2>2 DEF Next
  <3> QED BY <3>1, ComparingKept
 <2> QED BY <2>1, <2>2
<1> QED BY <1>1, <1>2, PTL DEF Spec

----------------------------------------
(* Comparisons: admission *)

\* Capsule arms are admitted exactly when they differ in what is permitted, and in what two
\* runs always differ in.
LEMMA AdmittedAsPermitted ==
  ASSUME differs \subseteq Admitting!CapsuleFields,
         contract.permits = {"candidate-id"} \/ contract.permits = {"candidate-id", "source-candidate", "build-output"}
  PROVE  Admitting!CapsuleAdmitted <=> differs \subseteq Admitting!Permitted /\ {"run id", "record"} \subseteq differs
<1>1. \A f \in differs :
        f \in {"run id", "record", "shape", "scenario", "manifest", "candidate", "machine", "alignment",
               "source candidate", "source base", "build output", "build topology", "build profile", "stderr",
               "correctness", "durations", "samples"}
  BY DEF Admitting!CapsuleFields
<1>2. CASE contract.permits = {"candidate-id"}
 <2>1. Admitting!Permitted = {"run id", "record", "durations", "samples", "candidate"} BY <1>2 DEF Admitting!Permitted
 <2>2. Admitting!CapsuleAdmitted <=>
         /\ "run id" \in differs /\ "record" \in differs
         /\ \A f \in {"shape", "manifest", "machine", "alignment", "scenario", "build output", "correctness", "stderr",
                      "source base", "source candidate", "build profile", "build topology"} : f \notin differs
   BY <1>2 DEF Admitting!CapsuleAdmitted, Admitting!StableManifest, Admitting!StableResult, Admitting!StableProtocol,
     Admitting!StableSource, Admitting!StableBuild
 <2> QED BY <1>1, <2>1, <2>2
<1>3. CASE contract.permits = {"candidate-id", "source-candidate", "build-output"}
 <2>1. Admitting!Permitted = {"run id", "record", "durations", "samples", "candidate", "source candidate", "build output"}
   BY <1>3 DEF Admitting!Permitted
 <2>2. Admitting!CapsuleAdmitted <=>
         /\ "run id" \in differs /\ "record" \in differs
         /\ \A f \in {"shape", "manifest", "machine", "alignment", "scenario", "correctness", "stderr",
                      "source base", "build profile", "build topology"} : f \notin differs
   BY <1>3 DEF Admitting!CapsuleAdmitted, Admitting!StableManifest, Admitting!StableResult, Admitting!StableProtocol,
     Admitting!StableSource, Admitting!StableBuild
 <2> QED BY <1>1, <2>1, <2>2
<1> QED BY <1>2, <1>3

\* The inductive invariant of admission: arms that went past it were admitted, the others not.
AdmittingInv ==
  /\ kind = "capsule" =>
       /\ differs \subseteq Admitting!CapsuleFields
       /\ \/ contract.permits = {"candidate-id"}
          \/ contract.permits = {"candidate-id", "source-candidate", "build-output"}
  /\ pc # "done" => error = "none"
  /\ error = "admission" => ~Admitting!Admitted
  /\ pc \notin {"load", "admit"} /\ error \notin {"load", "admission"} => Admitting!Admitted

\* Arms that can be loaded satisfy it.
LEMMA AdmittingInit == Admitting!Init => AdmittingInv
<1> SUFFICES ASSUME Admitting!Init PROVE AdmittingInv OBVIOUS
<1>1. pc = "load" /\ error = "none" BY DEF Admitting!Init
<1>2. ASSUME kind = "capsule"
      PROVE  /\ differs \subseteq Admitting!CapsuleFields
             /\ \/ contract.permits = {"candidate-id"}
                \/ contract.permits = {"candidate-id", "source-candidate", "build-output"}
 <2> DEFINE F == Admitting!CapsuleFields
            own == {"run id", "record"}
 <2>1. differs \in Admitting!Differences(F, own) /\ contract \in Admitting!Contracts BY <1>2 DEF Admitting!Init
 <2>2. own \subseteq F BY DEF Admitting!CapsuleFields
 <2> HIDE DEF F, own
 <2>3. differs \subseteq F BY <2>1, <2>2 DEF Admitting!Differences, Admitting!kSubset
 <2>4. contract.permits \in Permits BY <2>1 DEF Admitting!Contracts
 <2> QED BY <2>3, <2>4, ComparisonBounds DEF F
<1> QED BY <1>1, <1>2 DEF AdmittingInv

\* A step of the admission keeps the arms, and whether they are admitted.
LEMMA AdmittingFrame ==
  ASSUME UNCHANGED <<kind, differs, contract>>
  PROVE  Admitting!Admitted' <=> Admitting!Admitted
BY DEF Admitting!Admitted, Admitting!SuiteEquivalent, Admitting!CapsuleAdmitted, Admitting!StableManifest,
  Admitting!StableResult, Admitting!StableProtocol, Admitting!StableSource, Admitting!StableBuild

\* Every step keeps it.
LEMMA AdmittingKept ==
  ASSUME AdmittingInv, Admitting!Next
  PROVE  AdmittingInv'
<1>1. UNCHANGED <<kind, differs, contract>>
  BY DEF Admitting!Next, Admitting!Load, Admitting!Admit, Admitting!Measure, Admitting!Overflow, Admitting!Record,
    Admitting!Report, Admitting!Preflight, Admitting!Begin, Admitting!Publish, Admitting!Succeed, Admitting!arms
<1>2. Admitting!Admitted' <=> Admitting!Admitted BY <1>1, AdmittingFrame
<1>3. \/ pc = "load" /\ pc' = "admit" /\ error' = error
      \/ pc = "load" /\ pc' = "done" /\ error' = "load"
      \/ pc = "admit" /\ pc' = "measure" /\ error' = error /\ Admitting!Admitted
      \/ pc = "admit" /\ pc' = "done" /\ error' = "admission" /\ ~Admitting!Admitted
      \/ /\ pc \notin {"load", "admit", "done"} /\ pc' \notin {"load", "admit"}
         /\ error' = error \/ (pc' = "done" /\ error' \in {"statistics", "preflight", "allocation", "execution"})
  BY DEF Admitting!Next, Admitting!Load, Admitting!Admit, Admitting!Measure, Admitting!Overflow, Admitting!Record,
    Admitting!Report, Admitting!Preflight, Admitting!Begin, Admitting!Publish, Admitting!Succeed, Admitting!At,
    Admitting!Goto, Admitting!Fail
<1> QED BY <1>1, <1>2, <1>3 DEF AdmittingInv

\* AdmittingInv holds whenever the system is a comparison that admits.
THEOREM AdmittingInvariance == Spec => [](system = "admitting" => AdmittingInv)
<1>1. Init => (system = "admitting" => AdmittingInv) BY AdmittingInit DEF Init
<1>2. (system = "admitting" => AdmittingInv) /\ [Next]_vars => (system = "admitting" => AdmittingInv)'
 <2> SUFFICES ASSUME system = "admitting" => AdmittingInv, [Next]_vars, system' = "admitting" PROVE AdmittingInv'
   OBVIOUS
 <2>1. CASE UNCHANGED vars
  <3>1. UNCHANGED <<kind, differs, contract, pc, error>> /\ AdmittingInv BY <2>1 DEF vars, comparisonVars
  <3> QED BY <3>1, AdmittingFrame DEF AdmittingInv
 <2>2. CASE Next
  <3>1. Admitting!Next /\ system = "admitting" BY <2>2 DEF Next
  <3> QED BY <3>1, AdmittingKept
 <2> QED BY <2>1, <2>2
<1> QED BY <1>1, <1>2, PTL DEF Spec

\* Of comparisons that admit, ComparisonIsFair
LEMMA FairAdmission == ASSUME AdmittingInv PROVE Admitting!AdmittedDiffersAsPermitted
<1> SUFFICES ASSUME kind = "capsule", pc # "load", error # "load"
             PROVE  /\ \/ error = "admission" \/ pc = "admit"
                       \/ differs \subseteq Admitting!Permitted /\ {"run id", "record"} \subseteq differs
                    /\ error = "admission" => ~(differs \subseteq Admitting!Permitted /\ {"run id", "record"} \subseteq differs)
  BY DEF Admitting!AdmittedDiffersAsPermitted, Admitting!At
<1>1. Admitting!Admitted <=> differs \subseteq Admitting!Permitted /\ {"run id", "record"} \subseteq differs
  BY AdmittedAsPermitted DEF AdmittingInv, Admitting!Admitted
<1> QED BY <1>1 DEF AdmittingInv

\* ComparisonIsFair: arms are admitted exactly when they differ as the contract permits, for any
\* number of pairs, any samples and any positions a verdict is one the samples show, unanimous
\* samples beyond the noise decide it, and an improvement is vetoed by no coordinate.
THEOREM ComparisonFair == Spec => []ComparisonIsFair
<1>1. (system = "comparing" => ComparingInv) /\ (system = "admitting" => AdmittingInv) => ComparisonIsFair
  BY FairMeasurement, FairAdmission DEF ComparisonIsFair
<1> QED BY <1>1, ComparingInvariance, AdmittingInvariance, PTL
=============================================================================

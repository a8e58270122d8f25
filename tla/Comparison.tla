----------------------------- MODULE Comparison -----------------------------
(***************************************************************************)
(* The two offline comparisons of a baseline and a candidate: compare_runs *)
(* of judge.py over suite runs, which publishes a report as a run, and     *)
(* compare_finalized_capsule_runs of capsule_comparison.py, which returns  *)
(* one.  Both admit the pair, compute paired statistics per coordinate and *)
(* derive an overall verdict.                                              *)
(*                                                                         *)
(* A sample is a power of two and its logarithm the exponent, so that all  *)
(* statistics are integers: sums stand for means, a quantile is multiplied *)
(* by Parts.  A digest that selects bootstrap positions may be anything,   *)
(* so a replicate is any choice of positions.  Loading an arm is that of   *)
(* SuiteRun; what arms may differ in is a set of groups of fields.         *)
(***************************************************************************)
EXTENDS Integers, FiniteSets, SequencesExt

CONSTANTS Pairs,       \* paired samples of a coordinate
          Exponents,   \* logarithms of the samples
          Replicates,  \* bootstrap replicates of a coordinate
          MaxEvaluated,    \* bound: coordinates besides the training one
          MaxDifferences,  \* bound: groups of fields that differ and need not
          Permits,     \* permitted_arm_differences a contract may have
          Bps          \* protected_regression_bps it may have besides null

ComparisonAssumption ==
  /\ Pairs \in Nat \ {0} /\ Exponents \subseteq Nat /\ Replicates \in Nat \ {0} /\ MaxEvaluated \in Nat \ {0}
  /\ MaxDifferences \in Nat /\ Bps \subseteq Nat
  /\ Permits \subseteq {{"candidate-id"}, {"candidate-id", "source-candidate", "build-output"}}

VARIABLES
  kind,      \* "suite" or "capsule"
  differs,   \* groups of fields in which the arms differ
  contract,  \* permitted_arm_differences and protected_regression_bps (<< >> is null)
  sets,      \* case set of each coordinate
  pc, error,
  current,   \* the coordinate that was measured, with its samples
  measured,  \* verdict and protected regression of the coordinates before
  overall,   \* overall verdict, or none
  run, entries

arms == <<kind, differs, contract, sets>>
vars == <<arms, pc, error, current, measured, overall, run, entries>>

-----------------------------------------------------------------------------
(* Admission *)

\* Groups of fields of a suite arm.
SuiteFields == {"run id", "manifest", "ids", "inputs", "case order", "windows", "sample counts", "build"}

\* Groups of fields of a capsule arm.
CapsuleFields ==
  {"run id", "record", "shape", "scenario", "manifest", "candidate", "machine", "alignment", "source candidate", "source base",
   "build output", "build topology", "build profile", "stderr", "correctness", "durations", "samples"}

\* _check_equivalence
SuiteEquivalent ==
  /\ "run id" \in differs
  /\ differs \cap {"manifest", "ids", "inputs", "case order", "windows", "sample counts"} = {}

\* What the projections that have to be equal consist of: _normalized_manifest, in which
\* the candidate id is blank.
StableManifest == {"manifest"}

\* _stable_result, of the published result
StableResult(builds) == {"machine", "scenario"} \cup IF builds THEN {} ELSE {"build output"}

\* _stable_protocol, of the phases without what they timed
StableProtocol == {"scenario", "correctness", "stderr"}

\* _stable_source, or the whole reproducer
StableSource(sources) == {"source base"} \cup IF sources THEN {} ELSE {"source candidate"}

\* Mutant of StableBuild: targets and artifacts are not compared when the output may differ.
StableBuildLoose(builds) ==
  {"build profile"} \cup IF builds THEN {} ELSE {"build output", "build topology", "source base", "source candidate"}

\* _stable_build, or the whole build snapshot
StableBuild(builds) ==
  {"build profile", "build topology"} \cup IF builds THEN {} ELSE {"build output", "source base", "source candidate"}

\* _admit
CapsuleAdmitted ==
  LET sources == "source-candidate" \in contract.permits
      builds  == "build-output" \in contract.permits
  IN /\ {"run id", "record"} \subseteq differs
     /\ "shape" \notin differs
     /\ differs \cap (StableManifest \cup {"machine", "alignment", "scenario"}) = {}
     /\ differs \cap (StableResult(builds) \cup StableProtocol) = {}
     /\ differs \cap StableSource(sources) = {}
     /\ differs \cap StableBuild(builds) = {}

\* What a comparison of either kind requires of its arms.
Admitted == IF kind = "suite" THEN SuiteEquivalent ELSE CapsuleAdmitted

-----------------------------------------------------------------------------
(* Statistics *)

\* Positions of the paired samples.
Indices == 1 .. Pairs

\* Mutant of Delta: the suite takes lower for better as well.
DeltaOfLatency(b, c) == [i \in Indices |-> b[i] - c[i]]

\* The log effect of each pair, positive when the candidate is better: a suite measures
\* throughput, a capsule latency.
Delta(b, c) == [i \in Indices |-> IF kind = "suite" THEN c[i] - b[i] ELSE b[i] - c[i]]

\* The sum over all pairs, the mean times Pairs.
Sum(d) == LET s[n \in 0 .. Pairs] == IF n = 0 THEN 0 ELSE s[n - 1] + d[n] IN s[Pairs]

\* Sums of what any draw of positions with replacement may select.
Draws(d) == {Sum([i \in Indices |-> d[f[i]]]) : f \in [Indices -> Indices]}

\* The replicates of a coordinate, sorted.
Bootstraps(d) == {ms \in [1 .. Replicates -> Draws(d)] : \A j, k \in 1 .. Replicates : j <= k => ms[j] <= ms[k]}

\* A quantile is a multiple of one fortieth: 0.025 and 0.975 are used.
Parts == 40

\* Mutant of Quantile: the position is rounded up.
QuantileUpper(ms, p) ==
  LET q == (Replicates - 1) * p
      j == q \div Parts
  IN IF j + 1 >= Replicates THEN Parts * ms[Replicates]
       ELSE Parts * ms[j + 2] + (q % Parts) * (ms[j + 2] - ms[j + 1])

\* _percentile and _r7: the R-7 quantile at p / Parts, times Parts.
Quantile(ms, p) ==
  LET q == (Replicates - 1) * p
      j == q \div Parts
  IN IF j + 1 >= Replicates THEN Parts * ms[Replicates]
       ELSE Parts * ms[j + 1] + (q % Parts) * (ms[j + 2] - ms[j + 1])

\* The lower bound of the bootstrap interval, at 0.025.
Low(ms) == Quantile(ms, 1)

\* The upper bound, at 0.975.
High(ms) == Quantile(ms, Parts - 1)

\* The sample of an exponent.
Pow2(k) == 2 ^ k

\* Magnitude of an effect or a deviation.
Abs(x) == IF x < 0 THEN -x ELSE x

\* The values of s that at least k of them do not exceed.
Reached(s, k) == {s[j] : j \in {i \in Indices : k <= Cardinality({m \in Indices : s[m] <= s[i]})}}

\* The k-th of the sorted values of s, which is the least of those.
Ordered(s, k) == Min(Reached(s, k))

\* _median, times two
Median2(s) ==
  IF Pairs % 2 = 1 THEN 2 * Ordered(s, Pairs \div 2 + 1)
                   ELSE Ordered(s, Pairs \div 2) + Ordered(s, Pairs \div 2 + 1)

\* The median absolute deviation, times four
Mad4(b) == LET m == Median2(b) IN Median2([i \in Indices |-> Abs(2 * b[i] - m)])

\* abs(mean) <= 1.4826 * MAD
InNoise(b, d) == 40000 * Abs(Sum(d)) <= 14826 * Mad4(b) * Pairs

\* Mutant of Verdict: an interval that begins at zero does not include it.
VerdictOpen(b, d, ms) ==
  IF Low(ms) < 0 /\ 0 < High(ms) THEN "inconclusive"
  ELSE IF InNoise(b, d) THEN "inconclusive"
  ELSE IF Low(ms) >= 0 THEN "improvement"
  ELSE "regression"

\* case_verdict and _coordinate_verdict
Verdict(b, d, ms) ==
  IF Low(ms) <= 0 /\ 0 <= High(ms) THEN "inconclusive"
  ELSE IF InNoise(b, d) THEN "inconclusive"
  ELSE IF Low(ms) > 0 THEN "improvement"
  ELSE "regression"

\* The median latency is more than bps over the one of the baseline.
Exceeds(b, c, bps) ==
  10000 * Median2([i \in Indices |-> Pow2(c[i])]) > (10000 + bps) * Median2([i \in Indices |-> Pow2(b[i])])

\* protected_regression of a coordinate of a capsule: the interval is wholly negative as well
Protected(b, c, ms) ==
  /\ kind = "capsule" /\ contract.bps # << >>
  /\ Low(ms) < 0 /\ High(ms) < 0 /\ Exceeds(b, c, contract.bps[1])

\* The verdict all have, or mixed.
Uniform(verdicts) == IF Cardinality(verdicts) = 1 THEN CHOOSE v \in verdicts : TRUE ELSE "mixed"

\* Verdicts of the coordinates that count.
Evaluated == {measured[i].verdict : i \in {j \in DOMAIN measured : kind = "suite" \/ sets[j] = "evaluation"}}

\* Mutant of Overall: a protected regression counts where the verdict does.
OverallEvaluated ==
  IF Uniform(Evaluated) = "improvement" /\ \E i \in DOMAIN measured : sets[i] = "evaluation" /\ measured[i].protected
    THEN "mixed" ELSE Uniform(Evaluated)

\* overall_verdict and _aggregate: only evaluation coordinates have a say, any has a veto.
Overall ==
  IF Uniform(Evaluated) = "improvement" /\ \E i \in DOMAIN measured : measured[i].protected
    THEN "mixed" ELSE Uniform(Evaluated)

-----------------------------------------------------------------------------
(* Steps *)

\* No coordinate is measured.
None == [verdict |-> "none"]

\* Comparison contracts of a manifest.
Contracts == [permits : Permits, bps : {<< >>} \cup {<<x>> : x \in Bps}]

\* The groups of fields of two runs, or of one run that is compared to itself.
Differences(fields, own) ==
  {own \cup d : d \in UNION {kSubset(k, fields \ own) : k \in 0 .. MaxDifferences}} \cup {{}}

\* Arms that could be loaded, with the coordinates of their scenario.
Init ==
  /\ \/ /\ kind = "suite" /\ differs \in Differences(SuiteFields, {"run id"})
        /\ contract = [permits |-> {}, bps |-> << >>]
        /\ sets \in UNION {[1 .. k -> {"evaluation"}] : k \in 1 .. MaxEvaluated}
     \/ /\ kind = "capsule" /\ differs \in Differences(CapsuleFields, {"run id", "record"})
        /\ contract \in Contracts
        /\ sets \in {<<"training">> \o [i \in 1 .. k |-> "evaluation"] : k \in 1 .. MaxEvaluated}
  /\ pc = "load" /\ error = "none" /\ current = None /\ measured = << >> /\ overall = "none"
  /\ run = "none" /\ entries = << >>

\* The comparison is at step p.
At(p) == pc = p

\* It continues with step p.
Goto(p) == pc' = p

\* Every failure before a run is begun ends the comparison with an error of its class.
Fail(e) == error' = e /\ Goto("done")

\* _load_arm and _try_load, of both arms
Load ==
  /\ At("load")
  /\ \/ Goto("admit") /\ UNCHANGED error
     \/ Fail("load")
  /\ UNCHANGED <<arms, current, measured, overall, run, entries>>

\* _check_equivalence, or _try_admit
Admit ==
  /\ At("admit")
  /\ \/ Admitted /\ Goto("measure") /\ UNCHANGED error
     \/ ~Admitted /\ Fail("admission")
  /\ UNCHANGED <<arms, current, measured, overall, run, entries>>

\* compare_case_samples and _coordinate_statistics of the next coordinate
Measure ==
  /\ At("measure") /\ Goto("record")
  /\ \E b, c \in [Indices -> Exponents] : \E ms \in Bootstraps(Delta(b, c)) :
       current' = [baseline |-> b, candidate |-> c, low |-> Low(ms), high |-> High(ms),
                   verdict |-> Verdict(b, Delta(b, c), ms), protected |-> Protected(b, c, ms)]
  /\ UNCHANGED <<arms, error, measured, overall, run, entries>>

\* A value that is not finite
Overflow ==
  /\ At("measure") /\ Fail("statistics")
  /\ UNCHANGED <<arms, current, measured, overall, run, entries>>

\* The coordinate joins those of the report.
Record ==
  /\ At("record") /\ current' = None
  /\ measured' = Append(measured, [verdict |-> current.verdict, protected |-> current.protected])
  /\ Goto(IF Len(measured) + 1 < Len(sets) THEN "measure" ELSE "report")
  /\ UNCHANGED <<arms, error, overall, run, entries>>

\* _build_report and the report of _compare; a capsule comparison returns it.
Report ==
  /\ At("report") /\ overall' = Overall /\ Goto(IF kind = "suite" THEN "preflight" ELSE "done")
  /\ UNCHANGED <<arms, error, current, measured, run, entries>>

\* _PortableOutput, in the order they are published
Outputs == <<"comparison/report.json", "comparison/report.md">>

\* _preflight_outputs, of both outputs
Preflight ==
  /\ At("preflight")
  /\ \/ Goto("begin") /\ UNCHANGED error
     \/ Fail("preflight")
  /\ UNCHANGED <<arms, current, measured, overall, run, entries>>

\* begin_run
Begin ==
  /\ At("begin")
  /\ \/ run' = "active" /\ Goto("publish") /\ UNCHANGED error
     \/ Fail("allocation") /\ UNCHANGED run
  /\ UNCHANGED <<arms, current, measured, overall, entries>>

\* Mutant of Escaped: the session is not told of the exception.
EscapedSilently == "success"

\* The exit of the session with an exception
Escaped == "failure"

\* _default_publish, one output after the other
Publish ==
  /\ At("publish")
  /\ \/ /\ Len(entries) < 2 /\ entries' = Append(entries, Outputs[Len(entries) + 1])
        /\ UNCHANGED <<pc, error, run>>
     \/ Fail("execution") /\ run' = Escaped /\ UNCHANGED entries
  /\ UNCHANGED <<arms, current, measured, overall>>

\* The exit of the session without one
Succeed ==
  /\ At("publish") /\ entries = Outputs /\ run' = "success" /\ Goto("done")
  /\ UNCHANGED <<arms, error, current, measured, overall, entries>>

Next == Load \/ Admit \/ Measure \/ Overflow \/ Record \/ Report \/ Preflight \/ Begin \/ Publish \/ Succeed

Spec == Init /\ [][Next]_vars

-----------------------------------------------------------------------------
(* Correctness *)

\* Verdicts of a coordinate.
Verdicts == {"improvement", "regression", "inconclusive"}

\* Every variable has a value of its kind, and the interval of a coordinate is ordered and
\* lies within the deltas it was drawn from.
TypeOK ==
  /\ pc \in {"load", "admit", "measure", "record", "report", "preflight", "begin", "publish", "done"}
  /\ error \in {"none", "load", "admission", "statistics", "preflight", "allocation", "execution"}
  /\ run \in {"none", "active", "success", "failure"} /\ overall \in Verdicts \cup {"mixed", "none"}
  /\ IsPrefix(entries, Outputs) /\ Len(measured) <= Len(sets)
  /\ \A i \in DOMAIN measured : measured[i].verdict \in Verdicts /\ measured[i].protected \in BOOLEAN
  /\ current # None =>
       LET d == Delta(current.baseline, current.candidate) IN
       /\ current.low <= current.high
       /\ \E i \in Indices : current.low >= Parts * Pairs * d[i]
       /\ \E i \in Indices : current.high <= Parts * Pairs * d[i]

\* Groups of fields a contract permits to differ: the closed table of design.md.
Permitted ==
  {"run id", "record", "durations", "samples"} \cup
  UNION {CASE t = "candidate-id" -> {"candidate"}
           [] t = "source-candidate" -> {"source candidate"}
           [] OTHER -> {"build output"} : t \in contract.permits}

\* Two capsule runs are compared if and only if they differ in what the contract names and
\* in nothing else, though the code states it as five projections that must be equal.
AdmittedDiffersAsPermitted ==
  kind = "capsule" /\ ~At("load") /\ error # "load" =>
    ((error = "admission" \/ At("admit")) \/ (differs \subseteq Permitted /\ {"run id", "record"} \subseteq differs))
    /\ (error = "admission" => ~(differs \subseteq Permitted /\ {"run id", "record"} \subseteq differs))

\* A candidate that measured the same as the baseline wins and loses nothing, and a verdict
\* that is one needs a pair that shows it, whatever positions the digests select.
VerdictIsShown ==
  current # None =>
    LET d == Delta(current.baseline, current.candidate) IN
    /\ current.verdict = "improvement" => \E i \in Indices : d[i] > 0
    /\ current.verdict = "regression" => \E i \in Indices : d[i] < 0
    /\ current.protected => current.verdict # "improvement" /\ \E i \in Indices : d[i] < 0

\* The candidate is better when it is better in every pair by more than the noise of the
\* baseline, and worse when it is worse in every pair: suites count more, capsules less.
UnanimityDecides ==
  current # None =>
    LET b == current.baseline  c == current.candidate
        noise == 14826 * Mad4(b)
        Beyond(i) == 40000 * Abs(c[i] - b[i]) > noise
        Verdict_(up) == IF up = (kind = "suite") THEN "improvement" ELSE "regression"
    IN /\ (\A i \in Indices : c[i] > b[i] /\ Beyond(i)) => current.verdict = Verdict_(TRUE)
       /\ (\A i \in Indices : c[i] < b[i] /\ Beyond(i)) => current.verdict = Verdict_(FALSE)
       /\ (\A i \in Indices : ~Beyond(i)) => current.verdict = "inconclusive"

\* An overall improvement means that each coordinate that counts improved and that none,
\* training included, regressed beyond the protected bound.
ImprovementIsUnvetoed ==
  overall = "improvement" =>
    /\ \A i \in DOMAIN measured : ~measured[i].protected
    /\ \A i \in DOMAIN measured : sets[i] = "evaluation" => measured[i].verdict = "improvement"

\* A comparison run that succeeded has both outputs of a report, one that failed says so, and
\* a comparison that ends before its run is begun leaves none.
RunHasItsReport ==
  /\ run = "success" => entries = Outputs /\ overall # "none" /\ error = "none"
  /\ run = "failure" => error = "execution"
  /\ (error \in {"load", "admission", "statistics", "preflight", "allocation"} \/ kind = "capsule") => run = "none" /\ entries = << >>
=============================================================================

----------------------------- MODULE AdapterCase -----------------------------
(***************************************************************************)
(* run_backend_ops_case of adapters/backend_ops.py and                     *)
(* run_llama_bench_case of adapters/llama_bench.py, which go the same way: *)
(* two probes of a binary, one child that does the work, each published as *)
(* portable evidence, and one sample that says how it went.                *)
(*                                                                         *)
(* A text is known by what a parser finds in it, and equal texts are equal *)
(* bytes.  Of a CSV its rows are kept, of a JSONL line whether it fits the *)
(* case.  What a run_process may return is that of ProcessCapture.         *)
(***************************************************************************)
EXTENDS Naturals, Sequences, FiniteSets, SampleCategories

CONSTANTS Asked,     \* operations the backend-ops case asks for
          Unasked,   \* an operation it does not ask for
          MaxRows    \* bound: rows of a CSV

CaseAssumption == Unasked \notin Asked /\ Asked # {} /\ MaxRows \in Nat

VARIABLES
  kind,       \* "backend-ops" or "llama-bench"
  pc, raised,
  intact,     \* binary and model are the ones the inputs name
  results,    \* of each child that ran, its projected result
  foul,       \* the children that ran while they were not, unless that was undone (history)
  portable,   \* portable entries: bytes and media type
  sample      \* sample.json, or none

vars == <<kind, pc, raised, intact, results, foul, portable, sample>>

Children == {"help", "second", "work"}
NoSample == [status |-> "none"]

Init ==
  /\ kind \in {"backend-ops", "llama-bench"}
  /\ pc = "help" /\ raised = FALSE /\ intact = TRUE
  /\ results = << >> /\ foul = {} /\ portable = {} /\ sample = NoSample

-----------------------------------------------------------------------------
(* What a child prints *)

Text(is, rows) == [is |-> is, rows |-> rows]
Empty == Text("", << >>)
Plain(is) == Text(is, << >>)

Rows == [bound : BOOLEAN, op : Asked \cup {Unasked}, supported : {"0", "1", "?"}, error : {"", "e"}]

\* Texts that fit somewhere, a text that fits nowhere, and one with control bytes.
Printable(c) ==
  {Empty, Plain("usage"), Plain("control")} \cup
  CASE c = "help" -> {}
    [] c = "second" -> IF kind = "backend-ops" THEN {Plain("all operations"), Plain("few operations")}
                         ELSE {Plain("no such parameter")}
    [] OTHER -> IF kind = "backend-ops" THEN {Text("csv", rs) : rs \in UNION {[1 .. n -> Rows] : n \in 0 .. MaxRows}}
                  ELSE {Plain("measured"), Plain("other model")}

Streams(texts) ==
  [text : texts, exact : {TRUE}] \cup [text : {Empty}, exact : {FALSE}, truncated : BOOLEAN]

Truncated(stream) == ~stream.exact /\ stream.truncated

\* The result of a run_process: a child that was not started printed nothing.
Results(c) ==
  [outcome : {"exited", "timed_out", "capture_failed"}, code : 0 .. 1,
   out : Streams(Printable(c)),
   err : Streams({Empty, Plain("usage")} \cup IF c = "second" THEN {Plain("no such parameter")} ELSE {})]
  \cup {[outcome |-> "spawn_failed", code |-> 9, out |-> [text |-> Empty, exact |-> TRUE],
         err |-> [text |-> Empty, exact |-> TRUE]]}

\* Mutant of ErrorCategory: the code of the child comes before what became of its streams.
ErrorCategoryCodeFirst(r) ==
  IF r.outcome = "capture_failed" THEN "capture-failed"
  ELSE IF r.outcome = "spawn_failed" THEN "spawn-failed"
  ELSE IF r.outcome = "timed_out" THEN "timed-out"
  ELSE IF kind = "llama-bench" /\ r.code # 0 THEN "nonzero-exit"
  ELSE IF Truncated(r.out) THEN "output-oversized"
  ELSE IF ~r.out.exact THEN "encoding-failed"
  ELSE "none"

\* _error_category: defects of the process on either stream; only llama-bench goes on to
\* the code of the child.
ErrorCategory(r) ==
  IF r.outcome = "capture_failed" THEN "capture-failed"
  ELSE IF r.outcome = "spawn_failed" THEN "spawn-failed"
  ELSE IF r.outcome = "timed_out" THEN "timed-out"
  ELSE IF Truncated(r.out) \/ Truncated(r.err) THEN "output-oversized"
  ELSE IF ~r.out.exact \/ ~r.err.exact THEN "encoding-failed"
  ELSE IF kind = "llama-bench" /\ r.code # 0 THEN "nonzero-exit"
  ELSE "none"

-----------------------------------------------------------------------------
(* Evidence *)

MediaOf(c) == IF kind = "backend-ops" /\ c = "work" THEN "text/csv" ELSE "text/plain"

\* Mutant of Worth: an empty stream is published too.
WorthAny(stream) == stream.exact

\* backend-ops leaves out an empty stream, which would be one blob of two media types.
Worth(stream) == stream.exact /\ (kind = "backend-ops" => stream.text # Empty)

\* What _CaseEvidence.streams publishes of a result, in order.
Entries(c, r) ==
  (IF Worth(r.out) THEN <<[text |-> r.out.text, media |-> MediaOf(c)]>> ELSE << >>)
  \o (IF Worth(r.err) THEN <<[text |-> r.err.text, media |-> "text/plain"]>> ELSE << >>)

\* Mutant of Refused: a blob may have two media types.
RefusedForControl(e, published) == e.text.is = "control"

\* write_portable refuses control bytes, and a blob that has another media type already.
Refused(e, published) ==
  e.text.is = "control" \/ \E p \in published : p.text = e.text /\ p.media # e.media

Before(es, i) == {es[j] : j \in 1 .. i - 1}

\* The entries that are published before the first refusal.
Accepted(es) == {es[i] : i \in {i \in 1 .. Len(es) : \A j \in 1 .. i : ~Refused(es[j], portable \cup Before(es, j))}}

-----------------------------------------------------------------------------
(* Parsers *)

Range(s) == {s[i] : i \in 1 .. Len(s)}

\* parse_csv_rows: each row fits the case, and none comes twice.
ParsesAsRows(text) ==
  /\ text.is = "csv" /\ Len(text.rows) > 0
  /\ \A r \in Range(text.rows) : r.bound /\ r.op \in Asked /\ r.supported # "?"
  /\ Cardinality(Range(text.rows)) = Len(text.rows)

\* Mutant of GateReason: that an operation has no row goes unnoticed.
GateReasonOfRows(rows) ==
  IF rows = << >> THEN "no-rows"
  ELSE IF \E r \in Range(rows) : ~r.bound THEN "wrong-backend"
  ELSE IF \E r \in Range(rows) : r.supported # "1" THEN "unsupported-row"
  ELSE IF \E r \in Range(rows) : r.error # "" THEN "error-bearing-row"
  ELSE "passed"

\* _gate_reason
GateReason(rows) ==
  IF rows = << >> THEN "no-rows"
  ELSE IF \E r \in Range(rows) : ~r.bound THEN "wrong-backend"
  ELSE IF Asked \ {r.op : r \in Range(rows)} # {} THEN "missing-operation"
  ELSE IF \E r \in Range(rows) : r.supported # "1" THEN "unsupported-row"
  ELSE IF \E r \in Range(rows) : r.error # "" THEN "error-bearing-row"
  ELSE "passed"

\* _probe_streams_clean
Clean(r) == r.out.exact /\ r.err.exact /\ r.err.text = Empty

DefectOrder == <<"capture-failed", "spawn-failed", "timed-out", "output-oversized", "encoding-failed">>

\* _hard_reason, _probe_defect: the worst defect of the results
Defects(rs) == {i \in 1 .. Len(DefectOrder) : \E r \in rs : ErrorCategory(r) = DefectOrder[i]}
Worst(rs) == DefectOrder[CHOOSE i \in Defects(rs) : \A j \in Defects(rs) : i <= j]

\* _DEFECT_STATUS
DefectStatus(d) == IF d = "output-oversized" THEN "oversized-output" ELSE d

\* The sample of a case whose child was not run, or none if it may be run.
BackendCapability(help, list) ==
  LET failed(reason) == [status |-> "capability-failed", reason |-> reason] IN
    IF Defects({help, list}) # {} THEN [status |-> DefectStatus(Worst({help, list})), reason |-> "none"]
    ELSE IF help.code # 1 THEN failed("help-exit")
    ELSE IF ~Clean(help) THEN failed("help-stream")
    ELSE IF help.out.text.is # "usage" THEN failed("help-grammar")
    ELSE IF list.code # 0 THEN failed("list-exit")
    ELSE IF ~Clean(list) THEN failed("list-stream")
    ELSE IF list.out.text.is \notin {"all operations", "few operations"} THEN failed("list-grammar")
    ELSE IF list.out.text.is = "few operations" THEN failed("operation-absent")
    ELSE NoSample

\* A --version that is not refused the way the pinned source refuses it is no capability.
BenchCapability(help, version) ==
  LET failed(reason) == [status |-> "capability-failed", reason |-> reason] IN
    IF Defects({help, version}) # {} THEN failed(Worst({help, version}))
    ELSE IF ErrorCategory(help) = "nonzero-exit" THEN failed("nonzero-exit")
    ELSE IF \/ help.out.text.is # "usage" \/ ErrorCategory(version) # "nonzero-exit"
         \/ version.code # 1 \/ version.err.text.is # "no such parameter"
           THEN failed("capability-unsupported")
    ELSE NoSample

Capability ==
  IF kind = "backend-ops" THEN BackendCapability(results.help, results.second)
    ELSE BenchCapability(results.help, results.second)

\* Mutant of ClassifyTest: a defect on stderr alone does not count.
ClassifyTestOfStdout(r) ==
  LET ok == r.out.exact /\ ParsesAsRows(r.out.text)
      rows == IF ok THEN r.out.text.rows ELSE << >>
      gate == GateReason(rows)
  IN IF r.outcome # "exited" \/ ~r.out.exact THEN
            [status |-> DefectStatus(ErrorCategory(r)), reason |-> "none", rows |-> rows, gate |-> "none"]
     ELSE IF r.code # 0 THEN [status |-> "child-failed", reason |-> "none", rows |-> rows, gate |-> "none"]
     ELSE IF ~ok THEN [status |-> "parse-failed", reason |-> "none", rows |-> rows, gate |-> "none"]
     ELSE [status |-> IF gate = "passed" THEN "passed" ELSE "hard-gate-failed",
                    reason |-> "none", rows |-> rows, gate |-> gate]

\* _classify_test: rows are kept of any exact stdout that parses.
ClassifyTest(r) ==
  LET ok == r.out.exact /\ ParsesAsRows(r.out.text)
      rows == IF ok THEN r.out.text.rows ELSE << >>
      gate == GateReason(rows)
  IN IF ErrorCategory(r) # "none" THEN
            [status |-> DefectStatus(ErrorCategory(r)), reason |-> "none", rows |-> rows, gate |-> "none"]
     ELSE IF r.code # 0 THEN [status |-> "child-failed", reason |-> "none", rows |-> rows, gate |-> "none"]
     ELSE IF ~ok THEN [status |-> "parse-failed", reason |-> "none", rows |-> rows, gate |-> "none"]
     ELSE [status |-> IF gate = "passed" THEN "passed" ELSE "hard-gate-failed",
                    reason |-> "none", rows |-> rows, gate |-> gate]

\* _benchmark_outcome and what follows it
ClassifyBench(r) ==
  LET d == ErrorCategory(r) IN
    IF d \in {"output-oversized", "encoding-failed"} THEN [status |-> "output-truncated", reason |-> d]
    ELSE IF d # "none" THEN [status |-> "process-failed", reason |-> d]
    ELSE IF r.out.text.is # "measured" THEN [status |-> "parse-failed", reason |-> "parse-failed"]
    ELSE [status |-> "success", reason |-> "success"]

-----------------------------------------------------------------------------
(* The case *)

\* The step after a child
NextOf(c) == CASE c = "help" -> "before second" [] c = "second" -> "probed" [] OTHER -> "settle"

\* A child is run and its result published, up to the first entry that is refused.
RunChild(c) ==
  /\ pc = c
  /\ \E r \in Results(c) :
       LET es == Entries(c, r) IN
         /\ results' = [x \in DOMAIN results \cup {c} |-> IF x = c THEN r ELSE results[x]]
         /\ portable' = portable \cup Accepted(es)
         /\ IF Accepted(es) = Range(es) THEN pc' = NextOf(c) /\ UNCHANGED raised
              ELSE pc' = "end" /\ raised' = TRUE
  /\ foul' = IF intact THEN foul ELSE foul \cup {c}
  /\ UNCHANGED <<kind, intact, sample>>

Raise == pc' = "end" /\ raised' = TRUE

\* The inputs are verified before a child is run.
Verify(c) ==
  /\ pc = (IF c = "second" THEN "before second" ELSE "before work")
  /\ IF intact THEN pc' = c /\ UNCHANGED raised ELSE Raise
  /\ UNCHANGED <<kind, intact, results, foul, portable, sample>>

\* The sample of a case without a child is published after the inputs were verified.
Evaluate ==
  /\ pc = "probed"
  /\ IF Capability = NoSample THEN pc' = "before work" /\ UNCHANGED <<raised, sample>>
       ELSE IF intact THEN pc' = "end" /\ sample' = Capability /\ UNCHANGED raised
       ELSE Raise /\ UNCHANGED sample
  /\ UNCHANGED <<kind, intact, results, foul, portable>>

Verdict(r) == IF kind = "backend-ops" THEN ClassifyTest(r) ELSE ClassifyBench(r)

\* Mutant of Settle: the inputs are not verified after the last child.
SettleUnverified ==
  /\ pc = "settle" /\ pc' = "end" /\ sample' = Verdict(results.work)
  /\ UNCHANGED <<kind, raised, intact, results, foul, portable>>

\* The inputs are verified after the last child; then the sample is published.
Settle ==
  /\ pc = "settle"
  /\ IF intact THEN pc' = "end" /\ sample' = Verdict(results.work) /\ UNCHANGED raised
       ELSE Raise /\ UNCHANGED sample
  /\ UNCHANGED <<kind, intact, results, foul, portable>>

Ran == DOMAIN results

\* Somebody changes the binary or the model, or moves it away.
Drift ==
  /\ intact /\ pc # "end" /\ intact' = FALSE
  /\ UNCHANGED <<kind, pc, raised, results, foul, portable, sample>>

\* It was its directory that was moved away, and is moved back: the file is the same, down to
\* its times of change, and no check can know of what ran in between.
Restore ==
  /\ ~intact /\ pc # "end" /\ intact' = TRUE /\ foul' = {}
  /\ UNCHANGED <<kind, pc, raised, results, portable, sample>>

Done == pc = "end" /\ UNCHANGED vars

Next ==
  \/ \E c \in Children : RunChild(c)
  \/ Verify("second") \/ Verify("work") \/ Evaluate \/ Settle \/ Drift \/ Restore \/ Done

Spec == Init /\ [][Next]_vars

-----------------------------------------------------------------------------
(* Correctness *)

\* Every variable keeps to its range, and no bytes are published as two media types, on
\* which the whole run would be refused when it is read.
TypeOK ==
  /\ kind \in {"backend-ops", "llama-bench"} /\ raised \in BOOLEAN /\ intact \in BOOLEAN
  /\ pc \in Children \cup {"before second", "probed", "before work", "settle", "end"}
  /\ Ran \subseteq Children /\ foul \subseteq Ran
  /\ \A p, q \in portable : p.text = q.text => p.media = q.media

\* A sample is only of children that ran the inputs it names, not of one that ran while they
\* were drifted; but for a file that was away when the child was started and came back as
\* the very file before the next check: "Repeated path-identity checks narrow but do not
\* eliminate the small check-to-exec race" (executable_identity.py:8-10).
SampleIsOfIntactInputs == sample # NoSample => foul = {}

\* The correctness gate fails closed: a pass has a child that ended well, both of its
\* streams exact, and rows of which every one is the case's, supported and free of error,
\* with at least one for each operation asked for.
PassIsEarned ==
  sample.status = "passed" =>
    LET r == results.work
        rows == Range(r.out.text.rows)
    IN /\ r.outcome = "exited" /\ r.code = 0 /\ r.out.exact /\ r.err.exact
       /\ \A x \in rows : x.bound /\ x.supported = "1" /\ x.error = "" /\ x.op \in Asked
       /\ \A op \in Asked : \E x \in rows : x.op = op
       /\ results.help.code = 1 /\ results.second.out.text.is = "all operations"

\* A measurement has probes that are as pinned, one refused and one not, and a child that
\* ended well with both of its streams exact and a row of the case.
MeasurementIsEarned ==
  sample.status = "success" =>
    /\ \A c \in Children : /\ results[c].outcome = "exited" /\ results[c].out.exact /\ results[c].err.exact
                           /\ results[c].code = IF c = "second" THEN 1 ELSE 0
    /\ results.second.err.text.is = "no such parameter" /\ results.work.out.text.is = "measured"

\* A sample is one its own validator accepts, and of a status the suite has a category for.
SampleIsConsistent ==
  LET worked == "work" \in Ran
      gated == sample.status \in {"passed", "hard-gate-failed"}
  IN sample # NoSample =>
       IF kind = "backend-ops"
         THEN /\ (sample.reason # "none") = (sample.status = "capability-failed")
              /\ sample.status \in {"child-failed", "parse-failed", "hard-gate-failed", "passed"} =>
                   worked /\ ErrorCategory(results.work) = "none"
              /\ worked => /\ (sample.gate # "none") = gated
                           /\ gated => (sample.status = "passed") = (sample.gate = "passed")
                           /\ gated => sample.gate \notin {"no-rows", "wrong-backend"}
                           /\ sample.status = "parse-failed" => sample.rows = << >>
              /\ BackendCategory(sample.status) # "adapter-failed"
         ELSE /\ (sample.status = "success") = (sample.reason = "success")
              /\ (sample.status = "capability-failed") = ~worked
              /\ BenchCategory(<<sample.status, sample.reason>>) # "adapter-failed"

\* A case that ends without a sample was refused evidence or met a drift: of whatever else
\* a child may do there is a sample.
OutcomesHaveSamples ==
  pc = "end" /\ sample = NoSample =>
    \/ ~intact
    \/ \E c \in Ran, stream \in {"out", "err"} : results[c][stream].text.is = "control"
    \/ kind = "backend-ops" /\ "work" \in Ran /\ results.work.out.text # Empty
       /\ results.work.out.text \in {results.help.out.text, results.second.out.text, results.work.err.text}
=============================================================================

-------------------------- MODULE SampleCategories --------------------------
(***************************************************************************)
(* The category suites.py gives the sample of an adapter by its status; a  *)
(* status it does not know is adapter-failed.                              *)
(***************************************************************************)

BackendCategory(s) ==
  CASE s = "passed" -> "success"
    [] s \in {"capture-failed", "spawn-failed", "oversized-output", "encoding-failed"} -> "capture-failed"
    [] s \in {"capability-failed", "timed-out", "child-failed", "hard-gate-failed"} -> s
    [] s = "parse-failed" -> "malformed-output"
    [] OTHER -> "adapter-failed"

ServerCategory(s) ==
  CASE s \in {"success", "capability-failed", "capture-failed"} -> s
    [] s = "spawn-failed" -> "capture-failed"
    [] s = "response-failed" -> "malformed-output"
    [] s \in {"port-unavailable", "readiness-failed", "request-failed", "isolation-failed",
              "shutdown-failed"} -> "server-failed"
    [] OTHER -> "adapter-failed"

\* status and reason: two statuses fold several defects, which the reason tells apart
BenchCategory(s) ==
  CASE s[1] \in {"success", "capability-failed"} -> s[1]
    [] s[1] = "parse-failed" -> "malformed-output"
    [] s[1] \in {"process-failed", "output-truncated"} /\ s[2] \in
         {"spawn-failed", "capture-failed", "output-oversized", "encoding-failed"} -> "capture-failed"
    [] s[1] \in {"process-failed", "output-truncated"} /\ s[2] = "timed-out" -> "timed-out"
    [] s[1] \in {"process-failed", "output-truncated"} /\ s[2] = "nonzero-exit" -> "child-failed"
    [] OTHER -> "adapter-failed"
=============================================================================

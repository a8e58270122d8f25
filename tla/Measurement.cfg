\* Two runs and the machine, one capsule with two coordinates; comparisons of three pairs, alike or
\* four times apart, which is enough for a median absolute deviation other than zero, of the bounds
\* one met exactly and one exceeded; arms that differ in up to three ways besides those they must.
SPECIFICATION Spec
CONSTANTS
  Procs = {p1, p2}
  Builds = {b1, b2}
  Prompts <- OnePrompt
  Cases <- TwoCases
  Warmups = 1
  Windows = 2
  BackendSeen = {"passed", "hard-gate-failed"}
  ServerSeen = {"success", "request-failed"}
  BenchSeen <- BenchPassesOrTimesOut
  Coordinates = {a, b}
  Prints = {"json", "text", "control", "binary", "ambient secret", "child secret"}
  Overruns = TRUE
  MaxSuiteTrouble = 1
  MaxCapsuleTrouble = 2
  Pairs = 3
  Exponents = {0, 2}
  Replicates = 2
  MaxEvaluated = 2
  MaxDifferences = 3
  Permits = {{"candidate-id"}, {"candidate-id", "source-candidate", "build-output"}}
  Bps = {0, 10000}
SYMMETRY Symmetric
INVARIANTS
  MachineIsGuarded
  SuiteResultIsTruthful
  CapsuleResultIsTruthful
  ComparisonIsFair
PROPERTIES
  RunsImplementLifecycle
  CapsuleIsGuarded
CHECK_DEADLOCK FALSE

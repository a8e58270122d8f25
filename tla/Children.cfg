\* Each kind of child: two bytes a stream, one limit that they cross and one they cannot
\* reach, two rows a CSV; six offers of portable evidence, limits that bind; up to two faults.
SPECIFICATION Spec
CONSTANTS
  Systems = {"process", "server", "case", "portable"}
  Limits = {1, 3}
  Keeps = {1}
  Asked = {op1, op2}
  Unasked = other
  MaxBytes = 2
  PipeBytes = 1
  StreamLimit = 1
  MaxRows = 2
  Offers <- SomeOffers
  SizeOf <- Sizes
  MaxEntries = 3
  MaxAggregate = 4
  MaxFiles = 6
  MaxProcessTrouble = 1
  MaxServerTrouble = 2
  MaxPortableTrouble = 2
  Runs <- SomeRuns
  Exporters = {e1, e2}
  Secrets = {4}
  SizeOfBlob <- BlobSizes
  ManifestSize = 1
  MaxBundleFiles = 14
  MaxBundleBytes = 16
  MaxChanges = 1
  MaxExportTrouble = 1
INVARIANTS
  ResultIsTruthful
  SpoolsAreWholeOrGone
  NothingIsLeftAlive
  ServerSampleIsTruthful
  CaseSampleIsTruthful
  PortableEvidenceIsKept
  PortableEvidenceIsSettled

\* Two exporters of one destination, a record that changes once, one fault, and limits that
\* take the greatest of the runs.
SPECIFICATION Spec
CONSTANTS
  Systems = {"export"}
  Limits = {1, 3}
  Keeps = {1}
  Asked = {op1, op2}
  Unasked = other
  MaxBytes = 2
  PipeBytes = 1
  StreamLimit = 1
  MaxRows = 2
  Offers <- SomeOffers
  SizeOf <- Sizes
  MaxEntries = 3
  MaxAggregate = 4
  MaxFiles = 6
  MaxProcessTrouble = 1
  MaxServerTrouble = 2
  MaxPortableTrouble = 2
  Runs <- SomeRuns
  Exporters = {e1, e2}
  Secrets = {4}
  SizeOfBlob <- BlobSizes
  ManifestSize = 1
  MaxBundleFiles = 14
  MaxBundleBytes = 16
  MaxChanges = 1
  MaxExportTrouble = 1
SYMMETRY Symmetric
INVARIANTS
  BundleIsGenuine
PROPERTIES
  ExportsAreApart

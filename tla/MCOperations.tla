---------------------------- MODULE MCOperations ----------------------------
(* The operations that run children and publish what they left, one system   *)
(* at a time: a command under run_process, a case of the llama-server        *)
(* adapter, a case of one of the other adapters, the portable evidence of a  *)
(* run, exports of a finalized run.  A variable a system does not have is    *)
(* Unused.                                                                   *)
EXTENDS Naturals, TLC

CONSTANTS Systems,   \* the systems a behaviour may be of
          Limits, Keeps, Asked, Unasked, Offers, SizeOf,
          MaxBytes, PipeBytes, StreamLimit, MaxRows, MaxEntries, MaxAggregate, MaxFiles,
          MaxProcessTrouble, MaxServerTrouble, MaxPortableTrouble,
          Runs, Exporters, Secrets, SizeOfBlob, ManifestSize, MaxBundleFiles, MaxBundleBytes,
          MaxChanges, MaxExportTrouble

VARIABLES
  system,
  ask, child, helper, termed, late, pipe, drain, capture, spool, outcome,
  port, server, seen, collector, capable, readiness, requests, verdict, shut,
  results, foul, portable,
  by, offer, blobs, entriesBefore, blobsBefore, made, unsynced, unsure, lost, orphans, returned,
  disk, inspected, got, stage, dest, tampered, changes,
  kind, run, entries, at, pc, raised, cut, written, intact, sample, trouble

processVars    == <<ask, child, helper, termed, late, pipe, drain, capture, spool, outcome>>
serverVars     == <<port, server, seen, collector, capable, readiness, requests, verdict, shut>>
caseVars       == <<results, foul, portable>>
evidenceVars   == <<by, offer, blobs, entriesBefore, blobsBefore, made, unsynced, unsure, lost, orphans, returned>>
exportVars     == <<disk, inspected, got, stage, dest, tampered, changes>>
vars == <<system, processVars, serverVars, caseVars, evidenceVars, exportVars,
          kind, run, entries, at, pc, raised, cut, written, intact, sample, trouble>>

Process  == INSTANCE ProcessCapture WITH MaxTrouble <- MaxProcessTrouble
Server   == INSTANCE LlamaServer WITH MaxTrouble <- MaxServerTrouble
Case     == INSTANCE AdapterCase
Portable == INSTANCE PortableEvidence WITH MaxTrouble <- MaxPortableTrouble
Export   == INSTANCE Bundle WITH
  MaxFiles <- MaxBundleFiles, MaxAggregate <- MaxBundleBytes, MaxTrouble <- MaxExportTrouble

ASSUME OperationsAssumption ==
  /\ Process!BoundsAssumption /\ Server!BoundsAssumption
  /\ Case!CaseAssumption /\ Portable!OfferAssumption /\ Export!RunAssumption

\* For TLC: blobs of each size, shared or not, under one media type or two; one offer breaks a
\* policy.
Offer(path, media, blob, fits) == [path |-> path, media |-> media, blob |-> blob, fits |-> fits]
SomeOffers ==
  {Offer("p", "json", "a", TRUE), Offer("q", "json", "a", TRUE), Offer("q", "text", "b", TRUE),
   Offer("r", "text", "b", FALSE), Offer("r", "text", "a", TRUE), Offer("s", "json", "c", TRUE)}
Sizes == [a |-> 1, b |-> 2, c |-> 3]

\* For TLC: two runs of one input that share a blob under different media types, and one with a
\* secret.
Of(path, media, blob) == [path |-> path, media |-> media, blob |-> blob]
SomeRuns ==
  {[id |-> 1, input |-> 1, outcome |-> "success", events |-> 2,
    entries |-> <<Of("p", "json", 1), Of("q", "json", 1), Of("r", "text", 2)>>],
   [id |-> 2, input |-> 1, outcome |-> "failure", events |-> 1,
    entries |-> <<Of("q", "text", 1), Of("s", "json", 3)>>],
   [id |-> 3, input |-> 2, outcome |-> "success", events |-> 1,
    entries |-> <<Of("p", "text", 4)>>]}
BlobSizes == <<1, 2, 3, 4>>

\* The exports are interchangeable.
Symmetric == Permutations(Exporters)

Unused == "unused"

NoProcess ==
  /\ ask = Unused /\ child = Unused /\ helper = Unused /\ termed = Unused /\ late = Unused
  /\ pipe = Unused /\ drain = Unused /\ capture = Unused /\ spool = Unused /\ outcome = Unused

NoServer ==
  /\ port = Unused /\ server = Unused /\ seen = Unused /\ collector = Unused /\ capable = Unused
  /\ readiness = Unused /\ requests = Unused /\ verdict = Unused /\ shut = Unused

NoCase == results = Unused /\ foul = Unused /\ portable = Unused

NoEvidence ==
  /\ by = Unused /\ offer = Unused /\ blobs = Unused /\ entriesBefore = Unused /\ blobsBefore = Unused
  /\ made = Unused /\ unsynced = Unused /\ unsure = Unused /\ lost = Unused /\ orphans = Unused /\ returned = Unused

NoExport ==
  /\ disk = Unused /\ inspected = Unused /\ got = Unused /\ stage = Unused
  /\ dest = Unused /\ tampered = Unused /\ changes = Unused

\* Of the variables that several systems have, run and portable evidence are of none that runs
\* a child, and nothing else is of none that does not.
NoRun   == run = Unused /\ entries = Unused /\ at = Unused
NoChild == raised = Unused /\ cut = Unused /\ written = Unused /\ intact = Unused /\ sample = Unused

Init ==
  /\ system \in Systems
  /\ \/ /\ system = "process" /\ Process!Init
        /\ NoServer /\ NoCase /\ NoEvidence /\ NoExport /\ NoRun
        /\ kind = Unused /\ intact = Unused /\ sample = Unused
     \/ /\ system = "server" /\ Server!Init
        /\ NoProcess /\ NoCase /\ NoEvidence /\ NoExport /\ NoRun
        /\ kind = Unused
     \/ /\ system = "case" /\ Case!Init
        /\ NoProcess /\ NoServer /\ NoEvidence /\ NoExport /\ NoRun
        /\ cut = Unused /\ written = Unused /\ trouble = Unused
     \/ /\ \/ system = "portable" /\ Portable!Init /\ NoExport /\ run = Unused
           \/ system = "export" /\ Export!Init /\ NoEvidence /\ entries = Unused
        /\ NoProcess /\ NoServer /\ NoCase /\ NoChild
        /\ kind = Unused /\ pc = Unused

Next ==
  \/ /\ system = "process" /\ Process!Next
     /\ UNCHANGED <<serverVars, caseVars, evidenceVars, exportVars>>
     /\ UNCHANGED <<system, kind, run, entries, at, intact, sample>>
  \/ /\ system = "server" /\ Server!Next
     /\ UNCHANGED <<processVars, caseVars, evidenceVars, exportVars>>
     /\ UNCHANGED <<system, kind, run, entries, at>>
  \/ /\ system = "case" /\ Case!Next
     /\ UNCHANGED <<processVars, serverVars, evidenceVars, exportVars>>
     /\ UNCHANGED <<system, run, entries, at, cut, written, trouble>>
  \/ /\ \/ system = "portable" /\ Portable!Next /\ UNCHANGED <<exportVars, run>>
        \/ system = "export" /\ Export!Next /\ UNCHANGED <<evidenceVars, entries>>
     /\ UNCHANGED <<processVars, serverVars, caseVars>>
     /\ UNCHANGED <<system, kind, pc, raised, cut, written, intact, sample>>

Spec == Init /\ [][Next]_vars

-----------------------------------------------------------------------------
(* Correctness *)

\* The result run_process returns is true, in whatever order child, drains, poll loop and
\* deadline come: a clean one is complete, and a crossed limit or a killed child is told.
ResultIsTruthful ==
  system = "process" => Process!TypeOK /\ Process!CleanResultIsComplete /\ Process!LimitIsReported

\* The spools of run_process are published whole or not at all, whichever step of either
\* one fails; of a file that is not, only unlinks that failed leave a name.  Left as they are
\* are those of a call cut by an exception before the poll loop or in the finally.
SpoolsAreWholeOrGone ==
  system = "process" => Process!SpoolsAreSettled /\ Process!PublishedIsWhole

\* Neither a command that was terminated nor a server leaves a process behind that the call
\* could reach, unless an exception comes before the loop that watches it or while it is
\* being stopped, a call that stops it fails, or no stream of the command could be read on.
NothingIsLeftAlive ==
  /\ system = "process" => Process!GroupDiesWithTimeout
  /\ system = "server" => Server!ServerDoesNotOutlive

\* The sample of a llama-server case is accepted by its validator and true: of that server,
\* whole, and of the first thing that went wrong.
ServerSampleIsTruthful ==
  system = "server" =>
    /\ Server!TypeOK /\ Server!SuccessIsOurs /\ Server!SampleIsConsistent
    /\ Server!CaptureIsWhole /\ Server!StatusIsFirstFailure

\* The sample of a backend-ops or llama-bench case is accepted by its validator and true: a
\* pass or a measurement is earned, of inputs that stayed or came back before the check could see it, and there is one for every outcome
\* but those known.
CaseSampleIsTruthful ==
  system = "case" =>
    /\ Case!TypeOK /\ Case!SampleIsOfIntactInputs /\ Case!SampleIsConsistent
    /\ Case!PassIsEarned /\ Case!MeasurementIsEarned /\ Case!OutcomesHaveSamples

\* The entries of a run that write_portable has returned stay, each within the limits and
\* backed by its blob, whatever is killed, fails or is lost after it: all but a directory that
\* was made and whose fsync then failed, which a power failure may take with what is in it.
PortableEvidenceIsKept ==
  system = "portable" =>
    Portable!TypeOK /\ Portable!PolicyHolds /\ Portable!EntriesAreBacked /\ Portable!CommittedIsKept

\* Finalization and recovery put just the committed entries into the record, and refuse
\* nothing but what a fault has left, a directory lost as above among it.
PortableEvidenceIsSettled ==
  system = "portable" => Portable!RecordIsExact /\ Portable!RefusalsHaveACause

\* What stands at a destination is a bundle of the inspected record, whole but for entries
\* at its end, which verify_bundle takes, and takes only as long as it is genuine.
BundleIsGenuine ==
  system = "export" =>
    /\ Export!TypeOK /\ Export!PublishedIsOfTheRecord /\ Export!PublishedVerifies
    /\ Export!VerifiedIsGenuine

\* Two exports to one destination do each other no harm: one that raises has taken away what
\* it made and nothing else, but for what a failing call leaves, and a bundle that was
\* returned is not replaced.
ExportsAreApart ==
  [][system = "export" => Export!RaisedLeavesNothing /\ Export!DestinationIsKept]_vars
=============================================================================

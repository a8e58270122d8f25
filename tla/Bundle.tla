-------------------------------- MODULE Bundle --------------------------------
(***************************************************************************)
(* export_bundle and verify_bundle (bundles.py).  An export inspects a     *)
(* finalized record, collects its control files, events, portable entries  *)
(* and their blobs, validates the very bytes it collected and publishes    *)
(* them through a stage beside the destination.  Several exports may go to *)
(* one destination; the record may be changed under an export, and a       *)
(* bundle after its publication.                                           *)
(*                                                                         *)
(* A digest is the content it is of.  A path is a kind and a number.  A    *)
(* file is always an owned, regular, non-executable one: the owner does    *)
(* not swap links or inodes under the code (the trust boundary of the      *)
(* storage).                                                               *)
(***************************************************************************)
EXTENDS Naturals, Sequences, FiniteSets, FiniteSetsExt

CONSTANTS
  Runs,         \* the finalized runs, see RunAssumption
  Exporters,
  Secrets,      \* blobs that disclose a secret of the caller's environment
  SizeOfBlob,
  ManifestSize, \* size of bundle.json; every other file but a blob has size 1
  MaxFiles,     \* MAX_TOTAL_FILES
  MaxAggregate, \* MAX_AGGREGATE_BYTES
  MaxChanges,   \* bound: changes of the record under the exports
  MaxTrouble    \* bound: changes of a bundle, kills, errors and power failures

RunAssumption ==
  /\ \A r \in Runs : /\ r.events \in Nat \ {0} /\ r.outcome # "none"
                     /\ r.entries \in Seq([path : STRING, media : STRING, blob : Nat])
  /\ MaxFiles \in Nat /\ MaxAggregate \in Nat /\ MaxChanges \in Nat /\ MaxTrouble \in Nat /\ ManifestSize \in Nat

VARIABLES
  run,        \* the run that is exported
  disk,       \* its record: content of every path
  at,         \* where each export is
  inspected,  \* what inspect_run told it
  got,        \* the members it collected
  stage,      \* its stage
  dest,       \* the destination
  tampered,   \* has the bundle been changed since it was published?
  changes, trouble

exportVars == <<at, inspected, got, stage>>
vars       == <<run, disk, exportVars, dest, tampered, changes, trouble>>

-----------------------------------------------------------------------------
(* Records *)

File(kind)    == <<kind, 0>>
Manifest      == File("record-manifest.json")
Checksums     == File("checksums.sha256")
BundleJson    == File("bundle.json")
Control       == {Manifest, Checksums, File("run.json"), File("status.json"),
                  File("manifest.input.yaml"), File("manifest.resolved.yaml")}
OfKind(f, kind) == {p \in DOMAIN f : p[1] = kind}

Yaml(name, version) == [of |-> name, version |-> version]
BlobOf(n)           == [of |-> "blob", n |-> n]

\* f where it is defined, g elsewhere, as @@ of TLC, which the provers do not know
Atop(f, g) == [p \in DOMAIN f \cup DOMAIN g |-> IF p \in DOMAIN f THEN f[p] ELSE g[p]]
WithFile(p, content, f) == Atop([q \in {p} |-> content], f)

PayloadPaths(r) ==
  {File("manifest.input.yaml"), File("manifest.resolved.yaml"), File("run.json"), File("status.json"), File("local")}
  \cup ({"events"} \X (1 .. r.events)) \cup ({"entries"} \X DOMAIN r.entries)
  \cup ({"blobs"} \X {r.entries[i].blob : i \in DOMAIN r.entries})

EventOf(r, n) == [of |-> "event", id |-> r.id, n |-> n, outcome |-> IF n = r.events THEN r.outcome ELSE "none"]
EntryOf(r, n) == LET e == r.entries[n] IN
                 [of |-> "entry", sequence |-> n, path |-> e.path, media |-> e.media, blob |-> e.blob]

Payload(r) ==
  [p \in PayloadPaths(r) |->
     CASE p[1] = "manifest.input.yaml"    -> Yaml("input", r.input)
       [] p[1] = "manifest.resolved.yaml" -> Yaml("resolved", r.id)
       [] p[1] = "run.json"    -> [of |-> "run", id |-> r.id, input |-> Yaml("input", r.input), resolved |-> Yaml("resolved", r.id)]
       [] p[1] = "status.json" -> [of |-> "status", id |-> r.id, outcome |-> r.outcome]
       [] p[1] = "local"       -> [of |-> "local", id |-> r.id]
       [] p[1] = "events"      -> EventOf(r, p[2])
       [] p[1] = "entries"     -> EntryOf(r, p[2])
       [] p[1] = "blobs"       -> BlobOf(p[2])]

WithSums(files)   == WithFile(Checksums, [of |-> "sums", digests |-> files], files)
RecordOf(r)       == LET files == WithSums(Payload(r)) IN WithFile(Manifest, [of |-> "manifest", files |-> files], files)
Records           == [r \in Runs |-> RecordOf(r)]
AllRecords        == {Records[r] : r \in Runs}

\* What of the record a bundle has: the control files, the events, and the first n
\* entries with their blobs
Surface(r, n) ==
  LET record == Records[r]
      first  == {<<"entries", i>> : i \in 1 .. n}
      paths  == Control \cup OfKind(record, "events") \cup first
                \cup ({"blobs"} \X {r.entries[i].blob : i \in 1 .. n})
  IN [p \in paths |-> record[p]]

-----------------------------------------------------------------------------
(* The rules of a bundle *)

Size(c) == CASE c.of = "blob" -> SizeOfBlob[c.n] [] c.of = "bundle" -> ManifestSize [] OTHER -> 1
Aggregate(f) == FoldSet(LAMBDA p, n : n + Size(f[p]), 0, DOMAIN f)

EntriesOf(f)   == {f[p] : p \in OfKind(f, "entries")}
Referenced(f)  == {e.blob : e \in EntriesOf(f)}
Contiguous(f, kind) == OfKind(f, kind) = {kind} \X (1 .. Cardinality(OfKind(f, kind)))

\* _CONTROL_MEDIA, _EVENT_MEDIA, and for a blob what its entries say
MediaOf(f, p) ==
  CASE p[1] = "blobs" -> {e.media : e \in {e \in EntriesOf(f) : e.blob = p[2]}}
    [] p \in {File("manifest.input.yaml"), File("manifest.resolved.yaml")} -> {"yaml"}
    [] p = Checksums -> {"text"}
    [] OTHER -> {"json"}

\* The one media type of the members that are collected
MediaFor(f, p) == CHOOSE m \in MediaOf(f, p) : TRUE

\* _collect_entries and _authenticated_portable_entries
EntriesHold(c) ==
  /\ Contiguous(c, "entries")
  /\ \A p \in OfKind(c, "entries") : c[p].sequence = p[2]
  /\ \A e, f \in EntriesOf(c) : /\ e.path = f.path => e = f
                                /\ e.blob = f.blob => e.media = f.media

\* _verify_run_binding
RunHolds(m, c) ==
  /\ c[File("run.json")].id = m.id /\ c[File("status.json")].id = m.id
  /\ c[File("status.json")].outcome = m.outcome
  /\ c[File("run.json")].input = c[File("manifest.input.yaml")]
  /\ c[File("run.json")].resolved = c[File("manifest.resolved.yaml")]

\* _verify_event_chain: the chain links and projects onto the status.
ChainHolds(c) ==
  LET last == Cardinality(OfKind(c, "events"))
      status == c[File("status.json")] IN
  /\ last > 0 /\ Contiguous(c, "events")
  /\ \A p \in OfKind(c, "events") :
       /\ c[p].n = p[2] /\ c[p].id = status.id
       /\ c[p].outcome = IF p[2] = last THEN status.outcome ELSE "none"

\* _verify_checksum_binding
SumsHold(files, sums) == files = Atop(sums, [p \in {Checksums} |-> files[Checksums]])

\* Mutant of MembersHold: what the record says of a member is not looked at.
MembersHoldAnyhow(m, c) ==
  /\ \A p \in DOMAIN c : MediaOf(c, p) = {m.members[p].media}
  /\ {p[2] : p \in OfKind(c, "blobs")} = Referenced(c)

\* The loop of _verify_bindings over the members, and _classify_member
MembersHold(m, c) ==
  LET files == c[Manifest].files IN
  /\ \A p \in DOMAIN c \ {Manifest} :
       /\ p \in Control \/ p[1] \in {"events", "entries", "blobs"}
       /\ p \in DOMAIN files /\ files[p] = c[p]
       /\ MediaOf(c, p) = {m.members[p].media}
       /\ p[1] = "blobs" => c[p] = BlobOf(p[2])
  /\ {p[2] : p \in OfKind(c, "blobs")} = Referenced(c)

\* _verify_bindings
BindingsHold(m, c) ==
  /\ Control \subseteq DOMAIN c
  /\ c[Manifest] = m.record
  /\ RunHolds(m, c) /\ ChainHolds(c)
  /\ Checksums \in DOMAIN c[Manifest].files /\ SumsHold(c[Manifest].files, c[Checksums].digests)
  /\ EntriesHold(c) /\ MembersHold(m, c)

\* _verify_snapshot, of the manifest m and the contents c of the members it declares
SnapshotHolds(m, c) ==
  /\ DOMAIN c = DOMAIN m.members
  /\ \A p \in DOMAIN c : c[p] = m.members[p].digest
  /\ Aggregate(c) <= MaxAggregate
  /\ BindingsHold(m, c)

\* verify_bundle: the walk counts every file, bundle.json too.
Verified(b) ==
  /\ Cardinality(DOMAIN b) <= MaxFiles /\ Aggregate(b) <= MaxAggregate
  /\ BundleJson \in DOMAIN b
  /\ SnapshotHolds(b[BundleJson], [p \in DOMAIN b \ {BundleJson} |-> b[p]])

-----------------------------------------------------------------------------
(* export_bundle *)

Nothing == [there |-> FALSE, files |-> << >>, synced |-> {}, by |-> "nobody"]
NoRun   == [record |-> [of |-> "none"], id |-> 0, outcome |-> "none"]

Init ==
  /\ run \in Runs /\ disk = Records[run]
  /\ at = [e \in Exporters |-> "start"] /\ inspected = [e \in Exporters |-> NoRun]
  /\ got = [e \in Exporters |-> << >>] /\ stage = [e \in Exporters |-> Nothing]
  /\ dest = Nothing /\ tampered = FALSE /\ changes = 0 /\ trouble = 0

Trouble    == trouble < MaxTrouble /\ trouble' = trouble + 1
At(e, l)   == at[e] = l
Goto(e, l) == at' = [at EXCEPT ![e] = l]

\* The export is over, and what it held in memory is gone.
Forget(e)   == got' = [got EXCEPT ![e] = << >>] /\ inspected' = [inspected EXCEPT ![e] = NoRun]
End(e, how) == Goto(e, how) /\ Forget(e)
Raise(e)    == End(e, "raised")

\* inspect_run: a record that is as it was published, or an exception
Inspect(e) ==
  /\ At(e, "start")
  /\ IF disk = Records[run]
       THEN /\ inspected' = [inspected EXCEPT ![e] = [record |-> disk[Manifest], id |-> run.id, outcome |-> run.outcome]]
            /\ Goto(e, "control")
       ELSE Goto(e, "raised") /\ UNCHANGED inspected
  /\ UNCHANGED <<run, disk, got, stage, dest, tampered, changes, trouble>>

\* Members are added, none of which discloses a secret.
Add(e, paths, next) ==
  IF \E p \in paths : disk[p].of = "blob" /\ disk[p].n \in Secrets
    THEN Raise(e)
    ELSE UNCHANGED inspected /\ got' = [got EXCEPT ![e] = Atop([p \in paths |-> disk[p]], @)] /\ Goto(e, next)

CollectControl(e) ==
  /\ At(e, "control")
  /\ IF Control \subseteq DOMAIN disk THEN Add(e, Control, "events") ELSE Raise(e)
  /\ UNCHANGED <<run, disk, stage, dest, tampered, changes, trouble>>

\* _collect_events
CollectEvents(e) ==
  /\ At(e, "events")
  /\ IF Contiguous(disk, "events") THEN Add(e, OfKind(disk, "events"), "entries")
                                   ELSE Raise(e)
  /\ UNCHANGED <<run, disk, stage, dest, tampered, changes, trouble>>

\* _collect_entries: where there is no directory there are no entries.
CollectEntries(e) ==
  /\ At(e, "entries")
  /\ IF EntriesHold(disk) THEN Add(e, OfKind(disk, "entries"), "blobs")
                          ELSE Raise(e)
  /\ UNCHANGED <<run, disk, stage, dest, tampered, changes, trouble>>

\* _collect_blobs: of the entries that were read
CollectBlobs(e) ==
  LET wanted == {"blobs"} \X Referenced(got[e]) IN
  /\ At(e, "blobs")
  /\ IF \A p \in wanted : p \in DOMAIN disk /\ disk[p] = BlobOf(p[2])
       THEN Add(e, wanted, "limits") ELSE Raise(e)
  /\ UNCHANGED <<run, disk, stage, dest, tampered, changes, trouble>>

\* The manifest of what was collected
ManifestOf(e) ==
  [of |-> "bundle",
   record |-> inspected[e].record, id |-> inspected[e].id, outcome |-> inspected[e].outcome,
   members |-> [p \in DOMAIN got[e] |-> [digest |-> got[e][p], media |-> MediaFor(got[e], p)]]]

\* Mutant of Validate: the snapshot is not validated.
ValidateNothing(e) ==
  /\ At(e, "limits") /\ Goto(e, "stage")
  /\ UNCHANGED <<run, disk, inspected, got, stage, dest, tampered, changes, trouble>>

\* The limits of _collect_members, then _verify_snapshot on what was collected
Validate(e) ==
  /\ At(e, "limits")
  /\ IF /\ Cardinality(DOMAIN got[e]) + 1 <= MaxFiles /\ Aggregate(got[e]) <= MaxAggregate
        /\ SnapshotHolds(ManifestOf(e), got[e])
       THEN Goto(e, "stage") /\ UNCHANGED <<inspected, got>> ELSE Raise(e)
  /\ UNCHANGED <<run, disk, stage, dest, tampered, changes, trouble>>

-----------------------------------------------------------------------------
(* _publish_bundle *)

\* A stage that was just made
Staged(e) == [there |-> TRUE, files |-> << >>, synced |-> {}, by |-> e]

Stage(e) ==
  /\ At(e, "stage")
  /\ IF dest.there
       THEN Raise(e) /\ UNCHANGED stage
       ELSE /\ stage' = [stage EXCEPT ![e] = Staged(e)]
            /\ Goto(e, "write") /\ UNCHANGED <<inspected, got>>
  /\ UNCHANGED <<run, disk, dest, tampered, changes, trouble>>

\* Members are written in groups, bundle.json last.
Left(e) == DOMAIN got[e] \ DOMAIN stage[e].files
Group(e) ==
  LET some == CHOOSE some \in Left(e) : TRUE
      with == IF some \in Control THEN Control ELSE OfKind(got[e], some[1]) IN
  IF Left(e) # {} THEN [p \in with |-> got[e][p]] ELSE [p \in {BundleJson} |-> ManifestOf(e)]

\* Mutant of Write: local evidence is written along.
WriteLocal(e) ==
  /\ At(e, "write")
  /\ stage' = [stage EXCEPT ![e].files = Atop(Group(e), WithFile(File("local"), disk[File("local")], @))]
  /\ Goto(e, "sync")
  /\ UNCHANGED <<run, disk, inspected, got, dest, tampered, changes, trouble>>

Write(e) ==
  /\ At(e, "write")
  /\ stage' = [stage EXCEPT ![e].files = Atop(Group(e), @)]
  /\ Goto(e, "sync")
  /\ UNCHANGED <<run, disk, inspected, got, dest, tampered, changes, trouble>>

\* Mutant of Sync: only the members are synced.
SyncMembers(e) ==
  /\ At(e, "sync")
  /\ stage' = [stage EXCEPT ![e].synced = DOMAIN stage[e].files \ {BundleJson}]
  /\ Goto(e, IF BundleJson \in DOMAIN stage[e].files THEN "rename" ELSE "write")
  /\ UNCHANGED <<run, disk, inspected, got, dest, tampered, changes, trouble>>

\* _write_anchored syncs a file and the directories above it, the last of them the stage.
Sync(e) ==
  /\ At(e, "sync")
  /\ stage' = [stage EXCEPT ![e].synced = DOMAIN stage[e].files]
  /\ Goto(e, IF BundleJson \in DOMAIN stage[e].files THEN "rename" ELSE "write")
  /\ UNCHANGED <<run, disk, inspected, got, dest, tampered, changes, trouble>>

\* Mutant of Rename: what is at the destination is replaced.
RenameOver(e) ==
  /\ At(e, "rename")
  /\ dest' = stage[e] /\ stage' = [stage EXCEPT ![e] = Nothing] /\ Goto(e, "published")
  /\ tampered' = FALSE
  /\ UNCHANGED <<run, disk, inspected, got, changes, trouble>>

\* The destination is made of the stage, unless another export was faster.
Rename(e) ==
  /\ At(e, "rename")
  /\ IF dest.there
       THEN Goto(e, "cleanup") /\ UNCHANGED <<dest, stage, tampered>>
       ELSE /\ dest' = stage[e] /\ stage' = [stage EXCEPT ![e] = Nothing] /\ Goto(e, "published")
            /\ tampered' = FALSE
  /\ UNCHANGED <<run, disk, inspected, got, changes, trouble>>

\* The parent is synced, and the export returns.
SyncParent(e) ==
  /\ At(e, "published") /\ End(e, "done")
  /\ UNCHANGED <<run, disk, stage, dest, tampered, changes, trouble>>

\* Mutant of CleanUp: the exception passes without it.
CleanUpNever(e) ==
  /\ At(e, "cleanup") /\ Raise(e)
  /\ UNCHANGED <<run, disk, stage, dest, tampered, changes, trouble>>

\* rmtree of the stage, by its name; when it fails, which is suppressed, a stage is left with
\* its files or without.
CleanUp(e) ==
  /\ At(e, "cleanup") /\ Raise(e)
  /\ \/ stage' = [stage EXCEPT ![e] = Nothing] /\ UNCHANGED trouble
     \/ /\ stage[e].there /\ Trouble
        /\ \/ UNCHANGED stage
           \/ stage' = [stage EXCEPT ![e].files = << >>, ![e].synced = {}]
  /\ UNCHANGED <<run, disk, dest, tampered, changes>>

-----------------------------------------------------------------------------
(* Trouble *)

\* A file of the record goes, changes or comes, or the portable directory goes.
ChangeRecord ==
  /\ changes < MaxChanges /\ changes' = changes + 1
  /\ \/ \E p \in DOMAIN disk : disk' = [q \in DOMAIN disk \ {p} |-> disk[q]]
     \/ \E record \in AllRecords : \E p \in DOMAIN record : disk' = WithFile(p, record[p], disk) /\ disk' # disk
     \/ disk' = [q \in DOMAIN disk \ (OfKind(disk, "entries") \cup OfKind(disk, "blobs")) |-> disk[q]]
  /\ \E e \in Exporters : at[e] \in {"start", "control", "events", "entries", "blobs"}
  /\ UNCHANGED <<run, exportVars, dest, tampered, trouble>>

\* The manifest of a whole bundle of run r
WholeBundle(r) ==
  LET c == Surface(r, Len(r.entries)) IN
  [of |-> "bundle", record |-> Records[r][Manifest], id |-> r.id, outcome |-> r.outcome,
   members |-> [p \in DOMAIN c |-> [digest |-> c[p], media |-> MediaFor(c, p)]]]

\* A published bundle loses a file, gets one of the record of some run, or has its manifest
\* exchanged for that of a bundle of some run.
ChangeBundle ==
  /\ dest.there /\ Trouble /\ tampered' = TRUE
  /\ \/ \E r \in Runs : /\ dest' = [dest EXCEPT !.files = WithFile(BundleJson, WholeBundle(r), @),
                                                !.synced = @ \cup {BundleJson}]
                          /\ dest' # dest
     \/ \E p \in DOMAIN dest.files : dest' = [dest EXCEPT !.files = [q \in DOMAIN @ \ {p} |-> @[q]]]
     \/ \E record \in AllRecords : \E p \in DOMAIN record :
          dest' = [dest EXCEPT !.files = WithFile(p, record[p], @), !.synced = @ \cup {p}] /\ dest' # dest
  /\ UNCHANGED <<run, disk, exportVars, changes>>

\* A step raises: what is staged is removed, what is renamed stays; a stage just made stays
\* too, when the fsync after its mkdir fails.
Error(e) ==
  /\ Trouble
  /\ \/ /\ at[e] \in {"write", "sync", "rename", "published"} /\ Goto(e, "cleanup")
        /\ UNCHANGED <<inspected, got, stage>>
     \/ at[e] \in {"control", "events", "entries", "blobs", "stage"} /\ Raise(e) /\ UNCHANGED stage
     \/ At(e, "stage") /\ ~dest.there /\ Raise(e) /\ stage' = [stage EXCEPT ![e] = Staged(e)]
  /\ UNCHANGED <<run, disk, dest, tampered, changes>>

Busy(e) == at[e] \notin {"start", "done", "raised", "dead"}

Kill(e) ==
  /\ Busy(e) /\ Trouble /\ End(e, "dead")
  /\ UNCHANGED <<run, disk, stage, dest, tampered, changes>>

\* What was not synced may be lost: files of a stage, and a rename.
PowerFailure ==
  /\ Trouble /\ \E e \in Exporters : Busy(e)
  /\ at' = [e \in Exporters |-> IF Busy(e) THEN "dead" ELSE at[e]]
  /\ got' = [e \in Exporters |-> << >>] /\ inspected' = [e \in Exporters |-> NoRun]
  /\ \/ dest' = [dest EXCEPT !.files = [p \in DOMAIN @ \cap dest.synced |-> @[p]]]
     \/ dest.there /\ at[dest.by] # "done" /\ dest' = Nothing
  /\ UNCHANGED <<run, disk, stage, tampered, changes>>

-----------------------------------------------------------------------------
Step(e) ==
  \/ Inspect(e) \/ CollectControl(e) \/ CollectEvents(e) \/ CollectEntries(e) \/ CollectBlobs(e)
  \/ Validate(e) \/ Stage(e) \/ Write(e) \/ Sync(e) \/ Rename(e) \/ SyncParent(e) \/ CleanUp(e)

Over == (\A e \in Exporters : at[e] \in {"done", "raised", "dead"}) /\ UNCHANGED vars

Next ==
  \/ \E e \in Exporters : Step(e) \/ Error(e) \/ Kill(e)
  \/ ChangeRecord \/ ChangeBundle \/ PowerFailure \/ Over

Spec == Init /\ [][Next]_vars

-----------------------------------------------------------------------------
(* Correctness *)

Steps == {"start", "control", "events", "entries", "blobs", "limits", "stage", "write", "sync",
          "rename", "published", "cleanup", "done", "raised", "dead"}

\* Every variable has its type; what is collected or staged are paths of the export.
TypeOK ==
  /\ run \in Runs /\ at \in [Exporters -> Steps] /\ tampered \in BOOLEAN /\ changes \in 0 .. MaxChanges /\ trouble \in 0 .. MaxTrouble
  /\ \A e \in Exporters : /\ Busy(e) => DOMAIN stage[e].files \subseteq DOMAIN got[e] \cup {BundleJson}
                          /\ stage[e].synced \subseteq DOMAIN stage[e].files
                          /\ stage[e].there => stage[e].by = e

Published == dest.there /\ ~tampered

Members(b) == [p \in DOMAIN b \ {BundleJson} |-> b[p]]

\* Whatever changed under the exports, was killed, failed or lost: a destination that
\* is there is a bundle of the record as it was inspected, with no byte of another
\* one, of local evidence or of a secret, with its manifest, and never in part; but
\* entries at its end may be missing, when the record lost them after its inspection.
PublishedIsOfTheRecord ==
  Published => /\ BundleJson \in DOMAIN dest.files
               /\ \E n \in 0 .. Len(run.entries) : Members(dest.files) = Surface(run, n)
               /\ \A p \in OfKind(dest.files, "blobs") : p[2] \notin Secrets
               /\ dest.files[BundleJson].record = Records[run][Manifest]

\* "Both apply byte-for-byte identical membership, size, and [...] binding rules"
\* (bundles.py:282): a bundle that was published and not touched passes verify_bundle, unless
\* its members leave no room for the manifest, which the verifier alone counts.
PublishedVerifies == Published /\ Aggregate(dest.files) <= MaxAggregate => Verified(dest.files)

\* A bundle that lost, gained or exchanged a file after its publication, for one of any
\* record or for the manifest of another bundle, passes verify_bundle only when it is a
\* bundle of one record, whole but for entries at its end.
VerifiedIsGenuine ==
  dest.there /\ Verified(dest.files) =>
    \E r \in Runs : \E n \in 0 .. Len(r.entries) : Members(dest.files) = Surface(r, n)

\* An export that comes to raise leaves its stage only in the very step of a call that fails:
\* the fsync of the parent after the mkdir, or the rmtree, whose failure is suppressed; and a
\* destination of its own only when a call failed after the rename, which nothing takes back
\* (bundles.py:734, 757, 762).
RaisedLeavesNothing ==
  \A e \in Exporters : at[e] # "raised" /\ at'[e] = "raised" =>
    /\ stage'[e].there => trouble' > trouble
    /\ dest'.there /\ dest'.by = e => at[e] = "cleanup" /\ trouble > 0

\* Nobody replaces a bundle that is there, nor takes it away, once it was returned: of
\* two exports to one destination the second one fails.
DestinationIsKept ==
  dest.there /\ at[dest.by] = "done" => dest'.by = dest.by /\ (dest' = dest \/ tampered')

=============================================================================

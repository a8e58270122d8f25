-------------------------- MODULE PortableEvidence --------------------------
(***************************************************************************)
(* The portable evidence of one run (evidence.py): write_portable          *)
(* publishes a content-addressed blob and then the entry that names it,    *)
(* each through a writer temp, a rename that replaces nothing and an fsync *)
(* of the directory; finalization and recovery check what they find and    *)
(* remove what an unfinished write left.                                   *)
(*                                                                         *)
(* A process may be killed, a call may raise, and a power failure undoes   *)
(* the latest changes of a directory back to some moment since its last    *)
(* fsync.  The lock of the run lets one process in at a time.              *)
(***************************************************************************)
EXTENDS Naturals, Sequences, FiniteSets, FiniteSetsExt, SequencesExt

CONSTANTS
  Offers,        \* arguments of write_portable, see OfferAssumption
  SizeOf,        \* size of each blob
  MaxEntries,    \* _MAX_PORTABLE_ENTRIES
  MaxAggregate,  \* _MAX_AGGREGATE_BYTES
  MaxFiles,      \* _MAX_TOTAL_FILES
  MaxTrouble     \* bound: kills, power failures and errors

\* "fits" says that role, media type, path, text, payload and size pass every policy check
OfferAssumption ==
  /\ Offers # {}
  /\ \A o \in Offers : o.fits \in BOOLEAN /\ SizeOf[o.blob] \in Nat
  /\ MaxEntries \in Nat /\ MaxAggregate \in Nat /\ MaxFiles \in Nat /\ MaxTrouble \in Nat

VARIABLES
  at,        \* where the process that holds the run is
  by,        \* whose code it runs: a write, the finalization, or a recovery
  offer,     \* the arguments of the write
  entries,   \* portable/entries: what is committed, and writer temps
  blobs,     \* portable/blobs, likewise
  entriesBefore, blobsBefore,  \* what a power failure may make of them
  made,      \* the directories there are
  unsynced,  \* those whose own entry was not synced
  unsure,    \* of them, those whose fsync failed and is not repeated: they are there (history)
  lost,      \* one of these is gone in a power failure (history)
  orphans,   \* blobs that recovery found unreferenced
  returned,  \* entries whose write_portable returned
  trouble

diskVars   == <<entries, blobs, entriesBefore, blobsBefore>>
dirVars    == <<made, unsynced, unsure, lost>>
callVars   == <<by, offer>>
vars       == <<at, callVars, diskVars, dirVars, orphans, returned, trouble>>

Blobs == {o.blob : o \in Offers}
NoOffer == CHOOSE o \in Offers : TRUE
Entry(o) == [path |-> o.path, media |-> o.media, blob |-> o.blob, fits |-> o.fits]

Init ==
  /\ at = "session" /\ by = "write" /\ offer = NoOffer
  /\ entries = [done |-> << >>, temps |-> << >>]
  /\ blobs = [done |-> {}, temps |-> << >>]
  /\ entriesBefore = {} /\ blobsBefore = {}
  /\ made = {} /\ unsynced = {} /\ unsure = {} /\ lost = FALSE /\ orphans = {} /\ returned = {} /\ trouble = 0

-----------------------------------------------------------------------------
(* Directories *)

Goto(l) == at' = l

\* A change of a directory, which a power failure may undo until the next fsync
Entries(new) == entries' = new /\ entriesBefore' = entriesBefore \cup {entries}
InBlobs(new) == blobs' = new /\ blobsBefore' = blobsBefore \cup {blobs}

\* _write_child_no_replace_at: the temp is created, filled and synced, renamed.
WithTemp(dir, temp) == [dir EXCEPT !.temps = Append(@, temp)]
Filled(dir)         == [dir EXCEPT !.temps[Len(dir.temps)].whole = TRUE]
Shorter(dir)        == [dir EXCEPT !.temps = Front(@)]

ParentOf(d) == IF d = "portable" THEN "run" ELSE "portable"

\* _descend_owned: the directory on the way to d that is missing
Missing(d) == IF "portable" \notin made THEN {"portable"} ELSE {d} \ made

\* The step after a mkdir
MkdirOf == [blob |-> "blob.mkdir", entry |-> "entry.mkdir"]

\* _ensure_owned_child_dir
MakeDirectory(here, d) ==
  /\ at = here
  /\ \E m \in Missing(d) : made' = made \cup {m} /\ unsynced' = unsynced \cup {m}
  /\ Goto(MkdirOf[here])
  /\ UNCHANGED <<callVars, diskVars, unsure, lost, orphans, returned, trouble>>

SyncDirectory(here, d) ==
  /\ at = MkdirOf[here]
  /\ unsynced' = {u \in unsynced : ParentOf(u) = "run" <=> d \in made}
  /\ unsure' = unsure \cap unsynced' /\ Goto(here)
  /\ UNCHANGED <<callVars, diskVars, made, lost, orphans, returned, trouble>>

-----------------------------------------------------------------------------
(* Checks *)

\* _verify_entry_blob
Backed(e) == e.blob \in blobs.done

PathsOf(es) == {e.path : e \in Range(es)}
BlobsOf(es) == {e.blob : e \in Range(es)}
Aggregate(bs) == MapThenSumSet(LAMBDA b : SizeOf[b], bs)

\* _require_single_blob_media
SingleMedia(es) == \A e, f \in Range(es) : e.blob = f.blob => e.media = f.media

\* _load_entries_locked on what is committed: contiguity is by construction of the sequence
Loadable ==
  /\ \A e \in Range(entries.done) : Backed(e) /\ e.fits
  /\ Cardinality(PathsOf(entries.done)) = Len(entries.done)
  /\ SingleMedia(entries.done)

\* Mutant of TempAccepted: a temp is never accepted.
TempRefused == FALSE

\* _reconcile_entry_temp: at most one, whole, the same as its committed entry or the exact next
TempAccepted ==
  /\ Len(entries.temps) = 1
  /\ LET t == entries.temps[1] IN
       /\ t.whole
       /\ IF t.sequence \in DOMAIN entries.done
            THEN t.entry = entries.done[t.sequence]
            ELSE /\ t.sequence = Len(entries.done) + 1
                 /\ Backed(t.entry) /\ t.entry.path \notin PathsOf(entries.done)

\* Mutant of WithinLimits: the new blob itself is not counted.
WithinLimitsBefore(o) ==
  LET referenced == BlobsOf(entries.done) IN
  /\ Len(entries.done) < MaxEntries
  /\ Aggregate(referenced) <= MaxAggregate
  /\ Cardinality(referenced) + Len(entries.done) + 1 <= MaxFiles

\* The limits of write_portable, over the deduplicated blobs
WithinLimits(o) ==
  LET referenced == BlobsOf(entries.done) \cup {o.blob} IN
  /\ Len(entries.done) < MaxEntries
  /\ Aggregate(referenced) <= MaxAggregate
  /\ Cardinality(referenced) + Len(entries.done) + 1 <= MaxFiles

\* write_portable accepts what is offered, the entries being loaded.
Acceptable(o) ==
  /\ o.path \notin PathsOf(entries.done)
  /\ \A e \in Range(entries.done) : e.blob = o.blob => e.media = o.media
  /\ WithinLimits(o)

-----------------------------------------------------------------------------
(* write_portable and the load it shares with finalization *)

\* write_portable up to the load; what breaks a policy raises at once.
Call ==
  /\ at = "session"
  /\ \E o \in Offers : o.fits /\ offer' = o
  /\ by' = "write" /\ Goto("load")
  /\ UNCHANGED <<diskVars, dirVars, orphans, returned, trouble>>

\* Where the load leads
AfterLoad == IF by = "write" THEN "check" ELSE "orphans"

\* A call raises: the session goes on, and finalization is over without a record.
Raised == IF by = "write" THEN "session" ELSE "stuck"

Load ==
  /\ at = "load" /\ Loadable /\ entries.temps = << >>
  /\ Goto(AfterLoad)
  /\ UNCHANGED <<callVars, diskVars, dirVars, orphans, returned, trouble>>

LoadRefused ==
  /\ at = "load" /\ ~(Loadable /\ (entries.temps = << >> \/ TempAccepted))
  /\ Goto(Raised)
  /\ UNCHANGED <<callVars, diskVars, dirVars, orphans, returned, trouble>>

\* Mutant of RemoveEntryTemp: the temp is looked at and left.
RemoveEntryTempNever ==
  /\ at = "load" /\ Loadable /\ TempAccepted
  /\ Goto(AfterLoad)
  /\ UNCHANGED <<callVars, diskVars, dirVars, orphans, returned, trouble>>

RemoveEntryTemp ==
  /\ at = "load" /\ Loadable /\ TempAccepted
  /\ Entries([entries EXCEPT !.temps = << >>])
  /\ Goto("load.sync")
  /\ UNCHANGED <<callVars, blobs, blobsBefore, dirVars, orphans, returned, trouble>>

SyncLoad ==
  /\ at = "load.sync" /\ entriesBefore' = {} /\ Goto(AfterLoad)
  /\ UNCHANGED <<callVars, entries, blobs, blobsBefore, dirVars, orphans, returned, trouble>>

Check ==
  /\ at = "check"
  /\ Goto(IF Acceptable(offer) THEN "blob" ELSE "session")
  /\ UNCHANGED <<callVars, diskVars, dirVars, orphans, returned, trouble>>

\* Mutant of ReuseBlob: the blob is there, so nothing is synced.
ReuseBlobUnsynced ==
  /\ at = "blob" /\ Missing("blobs") = {} /\ offer.blob \in blobs.done /\ Goto("entry")
  /\ UNCHANGED <<callVars, diskVars, dirVars, orphans, returned, trouble>>

\* _publish_blob, of a blob an earlier write published
ReuseBlob ==
  /\ at = "blob" /\ Missing("blobs") = {} /\ offer.blob \in blobs.done /\ Goto("blob.sync")
  /\ UNCHANGED <<callVars, diskVars, dirVars, orphans, returned, trouble>>

\* _publish_blob, of a new one
CreateBlob ==
  /\ at = "blob" /\ Missing("blobs") = {} /\ offer.blob \notin blobs.done
  /\ InBlobs(WithTemp(blobs, [blob |-> offer.blob, whole |-> FALSE])) /\ Goto("blob.fill")
  /\ UNCHANGED <<callVars, entries, entriesBefore, dirVars, orphans, returned, trouble>>

FillBlob ==
  /\ at = "blob.fill"
  /\ InBlobs(Filled(blobs)) /\ Goto("blob.rename")
  /\ UNCHANGED <<callVars, entries, entriesBefore, dirVars, orphans, returned, trouble>>

RenameBlob ==
  /\ at = "blob.rename"
  /\ InBlobs([Shorter(blobs) EXCEPT !.done = @ \cup {offer.blob}]) /\ Goto("blob.sync")
  /\ UNCHANGED <<callVars, entries, entriesBefore, dirVars, orphans, returned, trouble>>

SyncBlob ==
  /\ at = "blob.sync" /\ blobsBefore' = {} /\ Goto("entry")
  /\ UNCHANGED <<callVars, entries, blobs, entriesBefore, dirVars, orphans, returned, trouble>>

\* _publish_portable_entry
CreateEntry ==
  /\ at = "entry" /\ Missing("entries") = {}
  /\ Entries(WithTemp(entries, [entry |-> Entry(offer), sequence |-> Len(entries.done) + 1, whole |-> FALSE]))
  /\ Goto("entry.fill")
  /\ UNCHANGED <<callVars, blobs, blobsBefore, dirVars, orphans, returned, trouble>>

FillEntry ==
  /\ at = "entry.fill"
  /\ Entries(Filled(entries)) /\ Goto("entry.rename")
  /\ UNCHANGED <<callVars, blobs, blobsBefore, dirVars, orphans, returned, trouble>>

RenameEntry ==
  /\ at = "entry.rename"
  /\ Entries([Shorter(entries) EXCEPT !.done = Append(@, Entry(offer))]) /\ Goto("entry.sync")
  /\ UNCHANGED <<callVars, blobs, blobsBefore, dirVars, orphans, returned, trouble>>

\* Mutant of Return: the entry is not synced.
ReturnUnsynced ==
  /\ at = "entry.sync" /\ Goto("session")
  /\ returned' = returned \cup {Entry(offer)}
  /\ UNCHANGED <<callVars, diskVars, dirVars, orphans, trouble>>

Return ==
  /\ at = "entry.sync" /\ entriesBefore' = {} /\ Goto("session")
  /\ returned' = returned \cup {Entry(offer)}
  /\ UNCHANGED <<callVars, entries, blobs, blobsBefore, dirVars, orphans, trouble>>

-----------------------------------------------------------------------------
(* Finalization and recovery: _recover_portable *)

\* The session ends, by itself or by an exception.
End ==
  /\ at = "session" /\ by' = "finalization" /\ Goto("load")
  /\ UNCHANGED <<offer, diskVars, dirVars, orphans, returned, trouble>>

\* recover_run, after the process is gone or when finalization was given up
Recover ==
  /\ at \in {"dead", "stuck"} /\ by' = "recovery" /\ Goto("load")
  /\ UNCHANGED <<offer, diskVars, dirVars, orphans, returned, trouble>>

\* _reconcile_blobs lists the directory.
ListBlobs ==
  /\ at = "orphans"
  /\ IF Len(blobs.temps) > 1
       THEN Goto("stuck") /\ UNCHANGED orphans
       ELSE Goto("remove") /\ orphans' = blobs.done \ BlobsOf(entries.done)
  /\ UNCHANGED <<callVars, diskVars, dirVars, returned, trouble>>

\* _remove_orphan_blob
RemoveOrphan ==
  /\ at = "remove"
  /\ \E b \in orphans :
       /\ InBlobs([blobs EXCEPT !.done = @ \ {b}]) /\ orphans' = orphans \ {b}
  /\ Goto("remove.sync")
  /\ UNCHANGED <<callVars, entries, entriesBefore, dirVars, returned, trouble>>

\* Mutant of RemoveBlobTemp: a temp is left where it is.
RemoveBlobTempNever ==
  /\ at = "remove" /\ orphans = {} /\ blobs.temps # << >>
  /\ Goto("done")
  /\ UNCHANGED <<callVars, diskVars, dirVars, orphans, returned, trouble>>

\* _reconcile_blob_temp: its bytes hash to its name, or all is refused.
RemoveBlobTemp ==
  /\ at = "remove" /\ orphans = {} /\ blobs.temps # << >>
  /\ IF blobs.temps[1].whole
       THEN InBlobs([blobs EXCEPT !.temps = << >>]) /\ Goto("remove.sync")
       ELSE Goto("stuck") /\ UNCHANGED <<blobs, blobsBefore>>
  /\ UNCHANGED <<callVars, entries, entriesBefore, dirVars, orphans, returned, trouble>>

SyncRemoval ==
  /\ at = "remove.sync" /\ blobsBefore' = {} /\ Goto("remove")
  /\ UNCHANGED <<callVars, entries, blobs, entriesBefore, dirVars, orphans, returned, trouble>>

\* The portable evidence is settled and goes into the record.
Settle ==
  /\ at = "remove" /\ orphans = {} /\ blobs.temps = << >> /\ Goto("done")
  /\ UNCHANGED <<callVars, diskVars, dirVars, orphans, returned, trouble>>

-----------------------------------------------------------------------------
(* Trouble *)

Running == at \notin {"session", "dead", "stuck", "done"}
Trouble == trouble < MaxTrouble /\ trouble' = trouble + 1

\* What a failing call makes of the temp it is at: an fsync may fail of one that is whole, and
\* only a failing rename takes its temp along.
Failed(dir, filling, renaming) ==
  CASE at = filling  -> {dir, Filled(dir)}
    [] at = renaming -> {Shorter(dir)}
    [] OTHER -> {dir}

\* A call raises where it is.  A directory whose fsync failed is found the next time, and only
\* synced when another one is made beside it.
Error ==
  /\ Running /\ Trouble
  /\ unsure' = IF at \in Range(MkdirOf) THEN unsynced ELSE unsure
  /\ Goto(IF by = "write" THEN "session" ELSE "dead")
  /\ blobs' \in Failed(blobs, "blob.fill", "blob.rename")
  /\ entries' \in Failed(entries, "entry.fill", "entry.rename")
  /\ blobsBefore' = IF blobs' = blobs THEN blobsBefore ELSE blobsBefore \cup {blobs}
  /\ entriesBefore' = IF entries' = entries THEN entriesBefore ELSE entriesBefore \cup {entries}
  /\ UNCHANGED <<callVars, made, unsynced, lost, orphans, returned>>

\* The process is killed, the lock is free.
Kill ==
  /\ Running \/ at = "session"
  /\ Trouble /\ Goto("dead")
  /\ UNCHANGED <<callVars, diskVars, dirVars, orphans, returned>>

\* What a power failure makes of a directory that is there
NoEntries == [done |-> << >>, temps |-> << >>]
NoBlobs   == [done |-> {}, temps |-> << >>]

PowerFailure ==
  /\ at # "done" /\ Trouble /\ Goto("dead")
  /\ \E away \in SUBSET unsynced :
       LET gone == IF "portable" \in away THEN made ELSE away IN
       /\ made' = made \ gone /\ unsynced' = {} /\ unsure' = {}
       /\ lost' = (lost \/ unsure \cap gone # {})
       /\ entries' \in IF "entries" \in gone THEN {NoEntries} ELSE entriesBefore \cup {entries}
       /\ blobs' \in IF "blobs" \in gone THEN {NoBlobs} ELSE blobsBefore \cup {blobs}
  /\ entriesBefore' = {} /\ blobsBefore' = {}
  /\ UNCHANGED <<callVars, orphans, returned>>

-----------------------------------------------------------------------------
Step ==
  \/ MakeDirectory("blob", "blobs") \/ SyncDirectory("blob", "blobs")
  \/ MakeDirectory("entry", "entries") \/ SyncDirectory("entry", "entries")
  \/ Load \/ LoadRefused \/ RemoveEntryTemp \/ SyncLoad \/ Check
  \/ ReuseBlob \/ CreateBlob \/ FillBlob \/ RenameBlob \/ SyncBlob
  \/ CreateEntry \/ FillEntry \/ RenameEntry \/ Return
  \/ Recover \/ ListBlobs \/ RemoveOrphan \/ RemoveBlobTemp \/ SyncRemoval \/ Settle

\* The record is published from here on by what RunEvidence models.
Done == at = "done" /\ UNCHANGED vars

Next == Step \/ Call \/ End \/ Error \/ Kill \/ PowerFailure \/ Done

Spec == Init /\ [][Next]_vars

-----------------------------------------------------------------------------
(* Correctness *)

Steps == {"session", "load", "load.sync", "check", "blob", "blob.mkdir", "blob.fill", "blob.rename",
          "blob.sync", "entry", "entry.mkdir", "entry.fill", "entry.rename", "entry.sync",
          "orphans", "remove", "remove.sync", "done", "dead", "stuck"}

EntryType == {Entry(o) : o \in Offers}

\* Every variable has its type, with no more temps than calls went wrong, and one being written.
TypeOK ==
  /\ at \in Steps /\ by \in {"write", "finalization", "recovery"} /\ offer \in Offers
  /\ entries.done \in Seq(EntryType) /\ blobs.done \subseteq Blobs
  /\ \A t \in Range(entries.temps) : t.entry \in EntryType /\ t.whole \in BOOLEAN
  /\ \A t \in Range(blobs.temps) : t.blob \in Blobs /\ t.whole \in BOOLEAN
  /\ Len(blobs.temps) <= trouble + 1 /\ Len(entries.temps) <= 1
  /\ made \subseteq {"portable", "blobs", "entries"} /\ unsure \subseteq unsynced /\ unsynced \subseteq made
  /\ orphans \subseteq Blobs /\ returned \subseteq EntryType /\ lost \in BOOLEAN /\ trouble \in 0 .. MaxTrouble

\* No entry names a blob that is not there, whatever was killed, failed or was lost
\* in a power failure, and whichever of the writes were repeated (_verify_entry_blob
\* would refuse the whole run): unless a directory went whose own fsync had failed.
EntriesAreBacked == lost \/ \A e \in Range(entries.done) : Backed(e)

\* What write_portable returned stays: "Publish one durable, content-addressed portable
\* evidence entry" (evidence.py:1162).  One call that fails takes that back: when the fsync
\* after a mkdir fails (evidence.py:646), a later call finds the directory and never syncs
\* its entry, and a power failure may take it with all that was returned.
CommittedIsKept == lost \/ returned \subseteq Range(entries.done)

\* What a run is allowed to hold: the paths differ, a blob has one media type, every
\* policy was checked, and the limits hold over the deduplicated blobs.
PolicyOf(es) ==
  /\ \A e \in Range(es) : e.fits
  /\ Cardinality(PathsOf(es)) = Len(es) /\ SingleMedia(es)
  /\ es # << >> =>
       /\ Len(es) <= MaxEntries /\ Aggregate(BlobsOf(es)) <= MaxAggregate
       /\ Cardinality(BlobsOf(es)) + Len(es) <= MaxFiles

PolicyHolds == PolicyOf(entries.done)

\* The record is made of exactly the entries and their blobs: nothing an unfinished
\* write left gets into it.
RecordIsExact ==
  at = "done" => /\ entries.temps = << >> /\ blobs.temps = << >>
                 /\ blobs.done = BlobsOf(entries.done)

\* The code refuses its own evidence only for a torn temp, which takes a kill or an
\* error; for a second blob temp, which takes two; or for the temp of an entry whose
\* removal was never synced and that a power failure brings back when its blob is gone
\* already, which takes two as well; or for a directory lost whose fsync had failed, two
\* again.  A session that had no trouble is finalized.
RefusalsHaveACause ==
  at = "stuck" =>
    \/ trouble >= 2 /\ lost
    \/ trouble >= 1 /\ \E t \in Range(entries.temps) \cup Range(blobs.temps) : ~t.whole
    \/ trouble >= 2 /\ Len(blobs.temps) > 1
    \/ trouble >= 2 /\ \E t \in Range(entries.temps) : ~Backed(t.entry)
=============================================================================

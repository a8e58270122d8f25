----------------------------- MODULE ModelCache -----------------------------
(***************************************************************************)
(* The model registry of models.py for one registered model: its primary   *)
(* file and one sidecar, the hash cache with its waiting lock per key, the *)
(* pinned inspector, the metadata registry, receipts, and leases of a      *)
(* verified model, while the user edits and replaces the files.            *)
(*                                                                         *)
(* The identity of a file (device, inode, size, mtime, ctime) is a stamp   *)
(* no two states of a file share; history says what bytes bore it.  Every  *)
(* edit, replacement or removal of a link moves the stamp of the inode,    *)
(* as ctime does.  A digest is the text it is taken of.  Temporary files   *)
(* and scratch directories, which are private and never read by others,    *)
(* are left out, and so is the size, which the digest implies.             *)
(***************************************************************************)
EXTENDS Naturals, Sequences

CONSTANTS Procs,       \* verifiers, observers and lease holders
          MaxTrouble   \* bound: what the user does to the files or the inspector, kills,
                       \* power failures and errors, together

ASSUME BoundsAssumption == MaxTrouble \in Nat

Files == {"primary", "sidecar"}
Texts == {"good", "other"}     \* "good" is what the manifest pins of both files

VARIABLES
  history,     \* what bytes bore each stamp
  inodes,      \* the stamp of each inode
  link,        \* the inode each path names
  tool,        \* the inspector: "pinned", "changed", or changed and "restored"
  inspection,  \* how the manifest wants the sidecar inspected
  cache,       \* model-hashes/v1: path, identity, digest
  registry,    \* metadata/v1: the texts whose projection is stored
  receipts,    \* receipts/v1
  unsynced,    \* names of these three no fsync has made durable
  returned,    \* receipts a verification has returned
  pc, op, file, fd, ident, sum, meta, parts,  \* the local state of each process
  tainted,     \* a lease holder has read bytes its receipt does not vouch for
  trouble

disk   == <<history, inodes, link>>
stores == <<cache, registry, receipts, unsynced, returned>>
locals == <<op, file, fd, ident, sum, meta, parts, tainted>>
vars   == <<disk, tool, inspection, stores, pc, locals, trouble>>

\* ModelFileReceiptV1 with the metadata of the file; before it is verified, nothing.
NoPart == [stamp |-> 0, text |-> "none", meta |-> "none"]
NoParts == [f \in Files |-> NoPart]

Init ==
  /\ history = <<"good", "good">> /\ inodes = <<1, 2>>
  /\ link = [f \in Files |-> IF f = "primary" THEN 1 ELSE 2]
  /\ tool = "pinned" /\ inspection \in {"gguf", "hash-only"}
  /\ cache = {} /\ registry = {} /\ receipts = {} /\ unsynced = {} /\ returned = {}
  /\ pc = [p \in Procs |-> "idle"] /\ op = [p \in Procs |-> "none"]
  /\ file = [p \in Procs |-> "primary"] /\ fd = [p \in Procs |-> 0]
  /\ ident = [p \in Procs |-> 0]
  /\ sum = [p \in Procs |-> "none"] /\ meta = [p \in Procs |-> "none"]
  /\ parts = [p \in Procs |-> NoParts] /\ tainted = [p \in Procs |-> FALSE]
  /\ trouble = 0

-----------------------------------------------------------------------------
(* Processes *)

At(p, l) == pc[p] = l

\* p goes on at l; what else changes the action says.
Goto(p, l) == pc' = [pc EXCEPT ![p] = l]

\* What p is doing is over, returned or raised: its descriptor is closed, its
\* lock dropped, its memory gone.
Leave(p) ==
  /\ Goto(p, "idle")
  /\ op' = [op EXCEPT ![p] = "none"] /\ file' = [file EXCEPT ![p] = "primary"]
  /\ fd' = [fd EXCEPT ![p] = 0] /\ ident' = [ident EXCEPT ![p] = 0]
  /\ sum' = [sum EXCEPT ![p] = "none"] /\ meta' = [meta EXCEPT ![p] = "none"]
  /\ parts' = [parts EXCEPT ![p] = NoParts] /\ tainted' = [tainted EXCEPT ![p] = FALSE]

Outside == <<disk, tool, inspection, trouble>>

\* _BoundInspector.verify: the lease, the interpreter and the script, by digest.
ToolHolds == tool # "changed"

-----------------------------------------------------------------------------
(* A file: open, digest, metadata *)

\* verify_registered_model binds the inspector; inspect_local_gguf does the same
\* for one file no manifest names.
Begin(p, o) ==
  /\ At(p, "idle") /\ ToolHolds
  /\ Goto(p, "open") /\ op' = [op EXCEPT ![p] = o]
  /\ UNCHANGED <<Outside, stores, file, fd, ident, sum, meta, parts, tainted>>

\* The identity is of the descriptor, not of the path.
StableIdentity(p, i) == ident' = [ident EXCEPT ![p] = inodes[i]]

\* _open_stable_descriptor: a link that moved between lstat and open is refused,
\* so both are of one moment.
Open(p) ==
  /\ At(p, "open")
  /\ fd' = [fd EXCEPT ![p] = link[file[p]]] /\ StableIdentity(p, link[file[p]])
  /\ Goto(p, "lookup")
  /\ UNCHANGED <<Outside, stores, op, file, sum, meta, parts, tainted>>

Key(p) == [file |-> file[p], stamp |-> ident[p]]

\* The records of a key; there is never more than one.
Cached(k) == {c \in cache : c.file = k.file /\ c.stamp = k.stamp}

ByteOnly(p) == file[p] = "sidecar" /\ inspection = "hash-only"

\* The file is done: the primary of a registered model is followed by its sidecar,
\* then by the receipt.  An observation is returned and kept nowhere.
Accepted(p, text) ==
  IF op[p] = "observe"
    THEN Leave(p)
    ELSE /\ parts' = [parts EXCEPT ![p][file[p]] =
                        [stamp |-> ident[p], text |-> text, meta |-> meta[p]]]
         /\ Goto(p, IF file[p] = "primary" THEN "open" ELSE "receipt")
         /\ file' = [file EXCEPT ![p] = "sidecar"] /\ fd' = [fd EXCEPT ![p] = 0]
         /\ ident' = [ident EXCEPT ![p] = 0]
         /\ sum' = [sum EXCEPT ![p] = "none"] /\ meta' = [meta EXCEPT ![p] = "none"]
         /\ UNCHANGED <<op, tainted>>

\* What follows the digest: a file that is not the one the manifest pins is
\* refused, except under inspect_local_gguf, which pins nothing; a sidecar that is
\* declared hash-only is never inspected.
Resolved(p, text) ==
  IF op[p] = "verify" /\ text # "good" THEN Leave(p)
  ELSE IF ByteOnly(p) THEN Accepted(p, text)
  ELSE /\ sum' = [sum EXCEPT ![p] = text]
       /\ Goto(p, "inspect")
       /\ UNCHANGED <<op, file, fd, ident, meta, parts, tainted>>

\* Mutant of Miss: who has the lock publishes before it has hashed.
MissUnhashed(p, l) == Goto(p, IF l = "hash" THEN "publish" ELSE l) /\ UNCHANGED locals

Miss(p, l) == Goto(p, l) /\ UNCHANGED locals

\* The first look at the cache takes no lock.
Lookup(p) ==
  /\ At(p, "lookup")
  /\ \/ \E c \in Cached(Key(p)) : Resolved(p, c.text)
     \/ Cached(Key(p)) = {} /\ Miss(p, "wait")
  /\ UNCHANGED <<Outside, stores>>

\* The labels between the lock of a key and its release.
Locked == {"recheck", "hash", "hashed", "publish", "sync_hash"}

\* Mutant of Contended: who polls the lock holds it for the others.
ContendedByWaiters(p) == \E q \in Procs \ {p} : pc[q] \in Locked \cup {"wait"} /\ Key(q) = Key(p)

Contended(p) == \E q \in Procs \ {p} : pc[q] \in Locked /\ Key(q) = Key(p)

Acquire(p) ==
  /\ At(p, "wait") /\ ~Contended(p)
  /\ Miss(p, "recheck")
  /\ UNCHANGED <<Outside, stores>>

\* wait_for_exclusive_lock gives up only after a try that found the lock held.
TimeOut(p) ==
  /\ At(p, "wait") /\ Contended(p)
  /\ Leave(p)
  /\ UNCHANGED <<Outside, stores>>

\* Mutant of Recheck: the lock is taken, and the cache not looked at again.
RecheckNothing(p) ==
  /\ At(p, "recheck") /\ Miss(p, "hash")
  /\ UNCHANGED <<Outside, stores>>

Recheck(p) ==
  /\ At(p, "recheck")
  /\ \/ \E c \in Cached(Key(p)) : Resolved(p, c.text)
     \/ Cached(Key(p)) = {} /\ Miss(p, "hash")
  /\ UNCHANGED <<Outside, stores>>

\* What the descriptor reads now.
Read(p) == history[inodes[fd[p]]]

Hash(p) ==
  /\ At(p, "hash")
  /\ sum' = [sum EXCEPT ![p] = Read(p)] /\ Goto(p, "hashed")
  /\ UNCHANGED <<Outside, stores, op, file, fd, ident, meta, parts, tainted>>

\* Mutant of HashIsStable: bytes that changed while they were hashed are taken.
HashIsTaken(p) == TRUE

\* The descriptor's identity after the last byte is the one it was opened with.
HashIsStable(p) == inodes[fd[p]] = ident[p]

HashChecked(p) ==
  /\ At(p, "hashed")
  /\ IF HashIsStable(p) THEN Miss(p, "publish") ELSE Leave(p)
  /\ UNCHANGED <<Outside, stores>>

Record(p) == [file |-> file[p], stamp |-> ident[p], text |-> sum[p]]

\* _publish_content_addressed up to its rename: a record that is there and says
\* something else is an error.
PublishHash(p) ==
  /\ At(p, "publish")
  /\ IF Cached(Key(p)) \subseteq {Record(p)}
       THEN /\ Miss(p, "sync_hash")
            /\ cache' = cache \cup {Record(p)}
            /\ unsynced' = unsynced \cup ({<<"hash", Record(p)>>} \ {<<"hash", c>> : c \in cache})
       ELSE Leave(p) /\ UNCHANGED <<cache, unsynced>>
  /\ UNCHANGED <<Outside, registry, receipts, returned>>

\* fsync of a directory makes every name in it durable.
Flushed(s) == {u \in unsynced : u[1] # s}

SyncHash(p) ==
  /\ At(p, "sync_hash")
  /\ unsynced' = Flushed("hash") /\ Resolved(p, sum[p])
  /\ UNCHANGED <<Outside, cache, registry, receipts, returned>>

\* _run_inspector verifies its tool before it starts the child, which opens the
\* descriptor under /proc.
StartInspector(p) ==
  /\ At(p, "inspect")
  /\ IF ToolHolds THEN Miss(p, "dump") ELSE Leave(p)
  /\ UNCHANGED <<Outside, stores>>

\* The child reads the file; a tool that was changed under it prints anything.
Dump(p) ==
  /\ At(p, "dump")
  /\ \E text \in IF ToolHolds THEN {Read(p)} ELSE Texts : meta' = [meta EXCEPT ![p] = text]
  /\ Goto(p, "dumped")
  /\ UNCHANGED <<Outside, stores, op, file, fd, ident, sum, parts, tainted>>

\* bound.verify after the child, and its outcome, spool and JSON.
ToolChecked(p) ==
  /\ At(p, "dumped")
  /\ IF ToolHolds THEN Miss(p, "drift") ELSE Leave(p)
  /\ UNCHANGED <<Outside, stores>>

\* Mutant of NotDrifted: only the descriptor is looked at, and only its inode.
SameInode(p) == link[file[p]] = fd[p]

NotDrifted(p) == inodes[link[file[p]]] = ident[p]

DriftChecked(p) ==
  /\ At(p, "drift")
  /\ IF NotDrifted(p) THEN Miss(p, "store") ELSE Leave(p)
  /\ UNCHANGED <<Outside, stores>>

\* _store_metadata, up to the rename: content-addressed, so what is there is equal.
StoreMetadata(p) ==
  /\ At(p, "store")
  /\ registry' = registry \cup {meta[p]}
  /\ unsynced' = unsynced \cup ({<<"metadata", meta[p]>>} \ {<<"metadata", t>> : t \in registry})
  /\ Miss(p, "sync_metadata")
  /\ UNCHANGED <<Outside, cache, receipts, returned>>

SyncMetadata(p) ==
  /\ At(p, "sync_metadata")
  /\ unsynced' = Flushed("metadata") /\ Accepted(p, sum[p])
  /\ UNCHANGED <<Outside, cache, registry, receipts, returned>>

-----------------------------------------------------------------------------
(* Receipts *)

\* The tool is verified a last time; the receipt is content-addressed as well.
PublishReceipt(p) ==
  /\ At(p, "receipt")
  /\ IF ToolHolds
       THEN /\ receipts' = receipts \cup {parts[p]}
            /\ unsynced' = unsynced \cup ({<<"receipt", parts[p]>>} \ {<<"receipt", r>> : r \in receipts})
            /\ Miss(p, "sync_receipt")
       ELSE Leave(p) /\ UNCHANGED <<receipts, unsynced>>
  /\ UNCHANGED <<Outside, cache, registry, returned>>

\* Mutant of SyncReceipt: a receipt is returned before its name is durable.
SyncReceiptLater(p) ==
  /\ At(p, "sync_receipt")
  /\ returned' = returned \cup {parts[p]} /\ Leave(p)
  /\ UNCHANGED <<Outside, cache, registry, receipts, unsynced>>

SyncReceipt(p) ==
  /\ At(p, "sync_receipt")
  /\ unsynced' = Flushed("receipt")
  /\ returned' = returned \cup {parts[p]} /\ Leave(p)
  /\ UNCHANGED <<Outside, cache, registry, receipts>>

Current(r, f) == inodes[link[f]] = r[f].stamp

\* load_model_receipt authenticates what it loads, and require_current_model
\* compares identities and hashes nothing.
Require(p) ==
  /\ At(p, "idle")
  /\ \E r \in receipts :
       /\ \A f \in Files : Current(r, f)
       /\ parts' = [parts EXCEPT ![p] = r]
  /\ Goto(p, "bind") /\ op' = [op EXCEPT ![p] = "lease"]
  /\ UNCHANGED <<Outside, stores, file, fd, ident, sum, meta, tainted>>

Bind(p) ==
  /\ At(p, "bind")
  /\ IF Current(parts[p], "primary")
       THEN /\ fd' = [fd EXCEPT ![p] = link["primary"]] /\ StableIdentity(p, link["primary"])
            /\ Goto(p, "leased")
            /\ UNCHANGED <<op, file, sum, meta, parts, tainted>>
       ELSE Leave(p)
  /\ UNCHANGED <<Outside, stores>>

\* A child of the lease holder reads the primary through the descriptor, or the
\* sidecar by its path.
Use(p, f) ==
  /\ At(p, "leased")
  /\ LET text == IF f = "primary" THEN Read(p) ELSE history[inodes[link[f]]] IN
       tainted' = [tainted EXCEPT ![p] = @ \/ text # parts[p][f].text]
  /\ UNCHANGED <<Outside, stores, pc, op, file, fd, ident, sum, meta, parts>>

\* Mutant of LeaseVerified: the paths are not looked at, as the descriptor is held.
DescriptorVerified(p) == inodes[fd[p]] = ident[p]

\* ModelLease.verify
LeaseVerified(p) ==
  /\ \A f \in Files : Current(parts[p], f)
  /\ inodes[fd[p]] = ident[p]

\* The lease ends normally; if it does not verify, its holder raises (Fail).
EndLease(p) ==
  /\ At(p, "leased") /\ LeaseVerified(p)
  /\ Leave(p)
  /\ UNCHANGED <<Outside, stores>>

LeaseRefused(p) ==
  /\ At(p, "leased") /\ ~LeaseVerified(p)
  /\ Leave(p)
  /\ UNCHANGED <<Outside, stores>>

-----------------------------------------------------------------------------
(* The user, and faults *)

Troubled == trouble < MaxTrouble /\ trouble' = trouble + 1

Stamp == Len(history) + 1

\* The file is written in place, whoever has it open.
Edit(f, text) ==
  /\ Troubled
  /\ history' = Append(history, text) /\ inodes' = [inodes EXCEPT ![link[f]] = Stamp]
  /\ UNCHANGED <<link, tool, inspection, stores, pc, locals>>

\* Another file is renamed over it.  The old inode loses a link, which moves its ctime.
Replace(f, text) ==
  /\ Troubled
  /\ history' = history \o <<history[inodes[link[f]]], text>>
  /\ inodes' = Append([inodes EXCEPT ![link[f]] = Stamp], Stamp + 1)
  /\ link' = [link EXCEPT ![f] = Len(inodes) + 1]
  /\ UNCHANGED <<tool, inspection, stores, pc, locals>>

ToolMoves ==
  /\ Troubled /\ tool # "restored"
  /\ tool' = IF tool = "pinned" THEN "changed" ELSE "restored"
  /\ UNCHANGED <<disk, inspection, stores, pc, locals>>

\* p is killed, or a call of its own raises, or the inspector times out.
Fail(p) ==
  /\ ~At(p, "idle") /\ Troubled
  /\ Leave(p)
  /\ UNCHANGED <<disk, tool, inspection, stores>>

\* The power fails: names that no fsync made durable may be gone.
PowerLoss ==
  /\ Troubled
  /\ \E lost \in SUBSET unsynced :
       /\ cache' = {c \in cache : <<"hash", c>> \notin lost}
       /\ registry' = {t \in registry : <<"metadata", t>> \notin lost}
       /\ receipts' = {r \in receipts : <<"receipt", r>> \notin lost}
  /\ unsynced' = {} /\ pc' = [p \in Procs |-> "idle"]
  /\ op' = [p \in Procs |-> "none"] /\ file' = [p \in Procs |-> "primary"]
  /\ fd' = [p \in Procs |-> 0] /\ ident' = [p \in Procs |-> 0]
  /\ sum' = [p \in Procs |-> "none"] /\ meta' = [p \in Procs |-> "none"]
  /\ parts' = [p \in Procs |-> NoParts] /\ tainted' = [p \in Procs |-> FALSE]
  /\ UNCHANGED <<disk, tool, inspection, returned>>

-----------------------------------------------------------------------------
Verify(p) == Begin(p, "verify")
Observe(p) == Begin(p, "observe")

\* What a process does of its own accord once it has begun.
Step(p) ==
  \/ Open(p) \/ Lookup(p) \/ Acquire(p) \/ TimeOut(p) \/ Recheck(p) \/ Hash(p)
  \/ HashChecked(p) \/ PublishHash(p) \/ SyncHash(p)
  \/ StartInspector(p) \/ Dump(p) \/ ToolChecked(p) \/ DriftChecked(p)
  \/ StoreMetadata(p) \/ SyncMetadata(p)
  \/ PublishReceipt(p) \/ SyncReceipt(p)
  \/ Bind(p) \/ EndLease(p) \/ LeaseRefused(p)

Next ==
  \/ \E p \in Procs : Verify(p) \/ Observe(p) \/ Require(p) \/ Step(p) \/ Fail(p)
  \/ \E p \in Procs, f \in Files : Use(p, f)
  \/ \E f \in Files, text \in Texts : Edit(f, text) \/ Replace(f, text)
  \/ ToolMoves \/ PowerLoss

Spec == Init /\ [][Next]_vars

\* A process that has begun goes on, and verification is asked for again and again.
FairSpec == Spec /\ \A p \in Procs : WF_vars(Step(p)) /\ SF_vars(Verify(p))

-----------------------------------------------------------------------------
(* Correctness *)

Stamps == 0 .. 2 + 2 * MaxTrouble
Sums == Texts \cup {"none"}
Parts == [stamp : Stamps, text : Sums, meta : Sums]

TypeOK ==
  /\ Len(history) \in 2 .. 2 + 2 * MaxTrouble /\ \A i \in DOMAIN history : history[i] \in Texts
  /\ \A i \in DOMAIN inodes : inodes[i] \in DOMAIN history
  /\ \A f \in Files : link[f] \in DOMAIN inodes
  /\ tool \in {"pinned", "changed", "restored"} /\ inspection \in {"gguf", "hash-only"}
  /\ cache \subseteq [file : Files, stamp : Stamps, text : Texts]
  /\ registry \subseteq Texts /\ receipts \subseteq [Files -> Parts]
  /\ returned \subseteq [Files -> Parts]
  /\ unsynced \subseteq ({"hash"} \X cache) \cup ({"metadata"} \X registry)
                        \cup ({"receipt"} \X receipts)
  /\ \A p \in Procs :
       /\ op[p] \in {"none", "verify", "observe", "lease"} /\ file[p] \in Files
       /\ fd[p] \in 0 .. Len(inodes) /\ ident[p] \in Stamps
       /\ sum[p] \in Sums /\ meta[p] \in Sums
       /\ parts[p] \in [Files -> Parts] /\ tainted[p] \in BOOLEAN

\* A record of the hash cache gives the digest of the bytes that bore its identity,
\* however the file was edited while it was hashed, and a key has one record.
CacheIsTrue ==
  \A c \in cache : c.text = history[c.stamp] /\ Cached(c) = {c}

\* "Hashing at most once even under concurrency": nobody hashes under an identity
\* that another is hashing, or that the cache knows.
HashedOnce ==
  \A p \in Procs : pc[p] \in {"hash", "hashed", "publish"} =>
    /\ Cached(Key(p)) = {}
    /\ \A q \in Procs \ {p} : pc[q] \in {"hash", "hashed", "publish"} => Key(q) # Key(p)

\* A receipt vouches for what the manifest pins, and its identity, digest and
\* metadata are of the same bytes, unless the inspector was changed and put back
\* between two looks at it.
ReceiptIsOfOneContent ==
  \A r \in receipts, f \in Files :
    /\ r[f].text = "good" /\ history[r[f].stamp] = "good"
    /\ \/ r[f].meta = "good" \/ tool = "restored"
       \/ f = "sidecar" /\ inspection = "hash-only" /\ r[f].meta = "none"

\* What a verification has returned outlives a power failure, and the metadata that
\* a receipt on disk names is on disk.
ReceiptsAreKept ==
  /\ returned \subseteq receipts
  /\ \A r \in receipts, f \in Files : r[f].meta \in registry \cup {"none"}

\* A lease that ends normally has given its holder the bytes of the receipt, of both
\* files and all the time, though only identities were compared.
LeaseIsOfReceipt ==
  [][\A p \in Procs : At(p, "leased") /\ LeaseVerified(p) /\ pc'[p] = "idle" /\ trouble' = trouble
       => ~tainted[p]]_vars

\* Files that hold what the manifest pins, with an inspector that holds, come to have
\* a receipt, whoever waits, times out or fails on the way.
ModelIsVerified ==
  []<>(\/ ~ToolHolds \/ \E f \in Files : history[inodes[link[f]]] # "good"
       \/ \E r \in receipts : \A f \in Files : Current(r, f))

\* The cache of digests is sound: typed, true to the bytes, and nothing in it was
\* hashed twice.
CacheIsSound == TypeOK /\ CacheIsTrue /\ HashedOnce

\* A receipt can be relied on: it speaks of one content, and outlives every failure
\* together with what it names.
ReceiptsAreReliable == ReceiptIsOfOneContent /\ ReceiptsAreKept
=============================================================================

------------------------- MODULE ModelCache_proofs -------------------------
(***************************************************************************)
(* Theorems about ModelCache, for every number of processes and every      *)
(* bound: the cache of digests is sound, receipts are reliable, and a      *)
(* lease that verifies has given the bytes of its receipt.                 *)
(***************************************************************************)
EXTENDS ModelCache, SequenceTheorems, TLAPS

----------------------------------------
(* Where a process may be *)

\* Labels at which the model file is open
Opened == {"lookup", "wait", "recheck", "hash", "hashed", "publish", "sync_hash",
           "inspect", "dump", "dumped", "drift", "store", "sync_metadata"}

\* Labels of an inspection
Inspecting == {"inspect", "dump", "dumped", "drift", "store", "sync_metadata"}

\* Labels before the tool has dumped anything
Undumped == {"open", "lookup", "wait", "recheck", "hash", "hashed", "publish", "sync_hash",
             "inspect", "dump"}

\* Where a process may be
Labels == {"idle", "open", "receipt", "sync_receipt", "bind", "leased"} \cup Opened

\* What it may be asked to do
Ops == {"none", "verify", "observe", "lease"}

----------------------------------------
(* The inductive invariant *)

\* A stamp is of one state of one file.
DiskInv ==
  /\ history \in Seq(Texts) /\ inodes \in Seq(Nat) /\ link \in [Files -> DOMAIN inodes]
  /\ trouble \in 0 .. MaxTrouble /\ Len(history) \in 2 .. 2 + 2 * trouble
  /\ \A i \in DOMAIN inodes : inodes[i] \in DOMAIN history
  /\ \A i, j \in DOMAIN inodes : inodes[i] = inodes[j] => i = j
  /\ tool \in {"pinned", "changed", "restored"} /\ inspection \in {"gguf", "hash-only"}

\* A part of a receipt that can be relied on
Good(x, f) ==
  /\ x \in Parts /\ x.stamp \in DOMAIN history /\ x.text = "good" /\ history[x.stamp] = "good"
  /\ \/ x.meta = "good" \/ tool = "restored"
     \/ f = "sidecar" /\ inspection = "hash-only" /\ x.meta = "none"

\* Metadata that no power failure takes away
Stored(m) == m = "none" \/ (m \in registry /\ <<"metadata", m>> \notin unsynced)

\* Every stored record is true and every receipt good; what is returned is durable.
StoreInv ==
  /\ \A c \in cache : /\ c \in [file : Files, stamp : Stamps, text : Texts]
                      /\ c.stamp \in DOMAIN history /\ c.text = history[c.stamp]
  /\ \A c, d \in cache : c.file = d.file /\ c.stamp = d.stamp => c = d
  /\ registry \subseteq Texts
  /\ receipts \subseteq [Files -> Parts]
  /\ \A r \in receipts, f \in Files : Good(r[f], f) /\ Stored(r[f].meta)
  /\ returned \subseteq receipts /\ \A r \in returned : <<"receipt", r>> \notin unsynced
  /\ unsynced \subseteq ({"hash"} \X cache) \cup ({"metadata"} \X registry)
                        \cup ({"receipt"} \X receipts)

\* What processes know keeps to its range.
Locals ==
  /\ pc \in [Procs -> Labels] /\ op \in [Procs -> Ops] /\ file \in [Procs -> Files]
  /\ fd \in [Procs -> Nat] /\ ident \in [Procs -> Stamps]
  /\ sum \in [Procs -> Sums] /\ meta \in [Procs -> Sums]
  /\ parts \in [Procs -> [Files -> Parts]] /\ tainted \in [Procs -> BOOLEAN]

\* Who has nothing to do remembers nothing.
IdleInv(p) ==
  /\ pc[p] = "idle" => /\ op[p] = "none" /\ file[p] = "primary" /\ fd[p] = 0 /\ ident[p] = 0
                       /\ sum[p] = "none" /\ meta[p] = "none" /\ parts[p] = NoParts
  /\ pc[p] # "leased" => ~tainted[p]

\* The descriptor is of the one inode that bore the identity of the file; a sidecar
\* is opened after its primary was found good.
OpenInv(p) ==
  /\ pc[p] \in Opened \cup {"open"} => op[p] \in {"verify", "observe"}
  /\ pc[p] \in Opened \cup {"open"} /\ file[p] = "sidecar" =>
       op[p] = "verify" /\ Good(parts[p]["primary"], "primary") /\ Stored(parts[p]["primary"].meta)
  /\ pc[p] \in Opened =>
       /\ fd[p] \in DOMAIN inodes /\ ident[p] \in DOMAIN history
       /\ \A i \in DOMAIN inodes : inodes[i] = ident[p] => i = fd[p]
  /\ pc[p] \in Undumped => meta[p] = "none"
  /\ fd[p] = 0 \/ fd[p] \in DOMAIN inodes

\* A digest that is checked is of the bytes that bore the identity.
SumInv(p) ==
  /\ pc[p] = "hashed" => sum[p] \in Texts /\ (sum[p] = history[ident[p]] \/ inodes[fd[p]] # ident[p])
  /\ pc[p] \in Inspecting \cup {"publish", "sync_hash"} => sum[p] = history[ident[p]]
  /\ pc[p] \in Inspecting /\ op[p] = "verify" => sum[p] = "good"

\* So is the metadata, or the inspector was not the pinned one all the time.
MetaInv(p) ==
  /\ pc[p] \in {"dumped", "drift", "store", "sync_metadata"} => meta[p] \in Texts
  /\ pc[p] = "dumped" =>
       meta[p] = history[ident[p]] \/ inodes[fd[p]] # ident[p] \/ tool # "pinned"
  /\ pc[p] = "drift" =>
       meta[p] = history[ident[p]] \/ inodes[fd[p]] # ident[p] \/ tool = "restored"
  /\ pc[p] \in {"store", "sync_metadata"} => meta[p] = history[ident[p]] \/ tool = "restored"
  /\ pc[p] = "sync_metadata" => meta[p] \in registry

\* Both parts of a receipt are good before it is published, and after it is loaded.
PartsInv(p) ==
  /\ pc[p] \in {"receipt", "sync_receipt", "bind", "leased"} => \A f \in Files : Good(parts[p][f], f)
  /\ pc[p] \in {"receipt", "sync_receipt"} => \A f \in Files : Stored(parts[p][f].meta)
  /\ pc[p] = "sync_receipt" => parts[p] \in receipts

\* Whoever has read other bytes than its receipt's holds a lease that cannot verify.
LeaseInv(p) ==
  pc[p] = "leased" =>
    /\ fd[p] \in DOMAIN inodes /\ ident[p] = parts[p]["primary"].stamp
    /\ tainted[p] => inodes[fd[p]] # ident[p] \/ \E f \in Files : ~Current(parts[p], f)

\* What holds of a process
ProcInv(p) == IdleInv(p) /\ OpenInv(p) /\ SumInv(p) /\ MetaInv(p) /\ PartsInv(p) /\ LeaseInv(p)

\* A key has one holder of its lock, who finds nothing cached until it publishes.
LockInv ==
  /\ \A p, q \in Procs : p # q /\ pc[p] \in Locked /\ pc[q] \in Locked => Key(p) # Key(q)
  /\ \A p \in Procs : pc[p] \in {"hash", "hashed", "publish"} => Cached(Key(p)) = {}

\* The inductive invariant
IInv == DiskInv /\ StoreInv /\ Locals /\ LockInv /\ \A p \in Procs : ProcInv(p)

----------------------------------------
(* Sequences *)

\* Appending keeps what was there.
LEMMA Appended ==
  ASSUME NEW T, NEW q \in Seq(T), NEW x \in T
  PROVE  /\ Append(q, x) \in Seq(T) /\ Len(Append(q, x)) = Len(q) + 1
         /\ DOMAIN Append(q, x) = (1 .. Len(q)) \cup {Len(q) + 1}
         /\ Append(q, x)[Len(q) + 1] = x /\ \A i \in 1 .. Len(q) : Append(q, x)[i] = q[i]
OBVIOUS

\* So does appending two.
LEMMA AppendedTwice ==
  ASSUME NEW T, NEW q \in Seq(T), NEW x \in T, NEW y \in T
  PROVE  /\ q \o <<x, y>> \in Seq(T) /\ Len(q \o <<x, y>>) = Len(q) + 2
         /\ \A i \in 1 .. Len(q) : (q \o <<x, y>>)[i] = q[i]
<1> DEFINE r == <<x, y>>
<1>1. r \in Seq(T) /\ Len(r) = 2 OBVIOUS
<1> HIDE DEF r
<1>2. /\ q \o r \in Seq(T) /\ Len(q \o r) = Len(q) + Len(r)
      /\ \A i \in 1 .. Len(q) + Len(r) : (q \o r)[i] = IF i <= Len(q) THEN q[i] ELSE r[i - Len(q)]
  BY <1>1, ConcatProperties, Zenon
<1>3. Len(q) \in Nat OBVIOUS
<1>4. \A i \in 1 .. Len(q) : (q \o r)[i] = q[i]
 <2> DEFINE k == Len(q)
 <2>1. \A i \in 1 .. k : i \in 1 .. k + Len(r) /\ i <= k BY <1>1, <1>3
 <2> QED BY <1>2, <2>1, Zenon
<1>5. Len(q \o r) = Len(q) + 2 BY <1>1, <1>2, Zenon
<1> QED BY <1>2, <1>4, <1>5, Zenon DEF r

----------------------------------------
(* The disk: what is written bears a stamp no file had before *)

\* How a step may change what is on disk
DiskMoves ==
  /\ \A i \in DOMAIN history : i \in DOMAIN history' /\ history'[i] = history[i]
  /\ \A i \in DOMAIN inodes :
       i \in DOMAIN inodes' /\ (inodes'[i] = inodes[i] \/ inodes'[i] \notin DOMAIN history)
  /\ \A i \in DOMAIN inodes' \ DOMAIN inodes : inodes'[i] \notin DOMAIN history
  /\ \A f \in Files : inodes'[link'[f]] = inodes[link[f]] \/ inodes'[link'[f]] \notin DOMAIN history
  /\ inspection' = inspection
  /\ tool = "restored" => tool' = "restored"
  /\ tool # "pinned" => tool' # "pinned"

\* The steps of processes leave the disk alone.
LEMMA StillDisk ==
  ASSUME DiskInv, UNCHANGED <<disk, tool, inspection>>, trouble' = trouble \/ Troubled
  PROVE  DiskInv' /\ DiskMoves
<1>1. trouble' \in 0 .. MaxTrouble /\ trouble <= trouble' /\ trouble \in Nat /\ trouble' \in Nat
  BY BoundsAssumption DEF DiskInv, Troubled
<1>2. Len(history) \in 2 .. 2 + 2 * trouble'
 <2>1. Len(history) \in Nat /\ 2 <= Len(history) /\ Len(history) <= 2 + 2 * trouble BY <1>1 DEF DiskInv
 <2>2. trouble \in Nat /\ trouble' \in Nat /\ trouble <= trouble' BY <1>1
 <2> QED BY <2>1, <2>2
<1>3. DiskInv' BY <1>1, <1>2 DEF DiskInv, disk
<1>4. DiskMoves BY DEF DiskMoves, disk
<1> QED BY <1>3, <1>4

\* An edit in place moves the stamp of one inode.
LEMMA EditMoves ==
  ASSUME DiskInv, NEW f \in Files, NEW text \in Texts, Edit(f, text)
  PROVE  DiskInv' /\ DiskMoves
<1> DEFINE n == Len(history)
<1>1. /\ history' = Append(history, text) /\ inodes' = [inodes EXCEPT ![link[f]] = n + 1]
      /\ link' = link /\ tool' = tool /\ inspection' = inspection
      /\ trouble < MaxTrouble /\ trouble' = trouble + 1
  BY DEF Edit, Troubled, Stamp
<1>2. /\ history \in Seq(Texts) /\ inodes \in Seq(Nat) /\ link \in [Files -> DOMAIN inodes]
      /\ n \in Nat /\ DOMAIN history = 1 .. n /\ link[f] \in DOMAIN inodes
  BY DEF DiskInv
<1>3. /\ history' \in Seq(Texts) /\ Len(history') = n + 1 /\ DOMAIN history' = (1 .. n) \cup {n + 1}
      /\ \A i \in 1 .. n : history'[i] = history[i]
  BY <1>1, <1>2
<1>4. /\ inodes' \in Seq(Nat) /\ DOMAIN inodes' = DOMAIN inodes /\ inodes'[link[f]] = n + 1
      /\ \A i \in DOMAIN inodes : i # link[f] => inodes'[i] = inodes[i]
  BY <1>1, <1>2
<1>5. \A i \in DOMAIN inodes : inodes[i] \in 1 .. n /\ inodes[i] # n + 1 BY <1>2 DEF DiskInv
<1>6. n + 1 \notin DOMAIN history BY <1>2
<1>7. trouble' \in 0 .. MaxTrouble /\ Len(history') \in 2 .. 2 + 2 * trouble'
  BY SMTT(40), <1>1, <1>2, <1>3, BoundsAssumption DEF DiskInv
<1>8. DiskInv'
 <2>1. \A i \in DOMAIN inodes' : inodes'[i] \in DOMAIN history' BY <1>3, <1>4, <1>5
 <2>2. \A i, j \in DOMAIN inodes' : inodes'[i] = inodes'[j] => i = j BY <1>4, <1>5 DEF DiskInv
 <2>3. link' \in [Files -> DOMAIN inodes'] BY <1>1, <1>2, <1>4
 <2>4. tool' \in {"pinned", "changed", "restored"} /\ inspection' \in {"gguf", "hash-only"} BY <1>1 DEF DiskInv
 <2> QED BY <1>3, <1>4, <1>7, <2>1, <2>2, <2>3, <2>4 DEF DiskInv
<1>9. DiskMoves
 <2>1. \A g \in Files : inodes'[link'[g]] = inodes[link[g]] \/ inodes'[link'[g]] \notin DOMAIN history
   BY <1>1, <1>2, <1>4, <1>6
 <2> QED BY <1>1, <1>2, <1>3, <1>4, <1>6, <2>1 DEF DiskMoves
<1> QED BY <1>8, <1>9

\* A replacement makes an inode, and moves the stamp of the old one.
LEMMA ReplaceMoves ==
  ASSUME DiskInv, NEW f \in Files, NEW text \in Texts, Replace(f, text)
  PROVE  DiskInv' /\ DiskMoves
<1> DEFINE n == Len(history)
           m == Len(inodes)
           old == history[inodes[link[f]]]
           aged == [inodes EXCEPT ![link[f]] = n + 1]
<1>1. /\ history' = history \o <<old, text>> /\ inodes' = Append(aged, n + 1 + 1)
      /\ link' = [link EXCEPT ![f] = m + 1] /\ tool' = tool /\ inspection' = inspection
      /\ trouble < MaxTrouble /\ trouble' = trouble + 1
  BY DEF Replace, Troubled, Stamp
<1>2. /\ history \in Seq(Texts) /\ inodes \in Seq(Nat) /\ link \in [Files -> DOMAIN inodes]
      /\ n \in Nat /\ DOMAIN history = 1 .. n /\ link[f] \in DOMAIN inodes
      /\ m \in Nat /\ DOMAIN inodes = 1 .. m /\ inodes[link[f]] \in DOMAIN history
  BY DEF DiskInv
<1>3. old \in Texts BY <1>2
<1> HIDE DEF old
<1>4. /\ history' \in Seq(Texts) /\ Len(history') = n + 2
      /\ DOMAIN history' = (1 .. n) \cup {n + 1, n + 2}
      /\ \A i \in 1 .. n : history'[i] = history[i]
 <2>1. history' = history \o <<old, text>> BY <1>1 DEF old
 <2>2. history' \in Seq(Texts) /\ Len(history') = n + 2 /\ \A i \in 1 .. n : history'[i] = history[i]
  <3> DEFINE new == history \o <<old, text>>
  <3>1. new \in Seq(Texts) /\ Len(new) = n + 2 /\ \A i \in 1 .. n : new[i] = history[i]
    BY <1>2, <1>3, AppendedTwice, Zenon
  <3> HIDE DEF new
  <3>2. history' = new BY <2>1 DEF new
  <3> QED BY <3>1, <3>2, Zenon
 <2>3. DOMAIN history' = 1 .. (n + 2) /\ n \in Nat BY <1>2, <2>2
 <2>4. 1 .. (n + 2) = (1 .. n) \cup {n + 1, n + 2}
  <3> HIDE DEF n
  <3> QED BY <2>3
 <2> QED BY <2>2, <2>3, <2>4
<1>5. /\ aged \in Seq(Nat) /\ Len(aged) = m /\ DOMAIN aged = 1 .. m /\ aged[link[f]] = n + 1
      /\ \A i \in 1 .. m : i # link[f] => aged[i] = inodes[i]
  BY <1>2
<1> HIDE DEF aged
<1>6. /\ inodes' \in Seq(Nat) /\ DOMAIN inodes' = (1 .. m) \cup {m + 1}
      /\ inodes'[m + 1] = n + 2 /\ inodes'[link[f]] = n + 1
      /\ \A i \in 1 .. m : i # link[f] => inodes'[i] = inodes[i]
 <2>1. n + 1 + 1 = n + 2 /\ n + 2 \in Nat BY <1>2
 <2>2. inodes' = Append(aged, n + 2) BY <1>1, <2>1
 <2>3. /\ inodes' \in Seq(Nat) /\ DOMAIN inodes' = (1 .. m) \cup {m + 1}
       /\ inodes'[m + 1] = n + 2 /\ \A i \in 1 .. m : inodes'[i] = aged[i]
  <3> HIDE DEF n, m
  <3> QED BY <1>5, <2>1, <2>2, Appended
 <2> QED BY <1>2, <1>5, <2>3
<1>7. \A i \in 1 .. m : inodes[i] \in 1 .. n /\ inodes[i] # n + 1 /\ inodes[i] # n + 2
 <2>1. \A i \in 1 .. m : inodes[i] \in 1 .. n BY <1>2 DEF DiskInv
 <2> HIDE DEF n
 <2> QED BY <1>2, <2>1
<1>8. n + 1 \notin DOMAIN history /\ n + 2 \notin DOMAIN history BY <1>2
<1>9. trouble' \in 0 .. MaxTrouble /\ Len(history') \in 2 .. 2 + 2 * trouble'
  BY <1>1, <1>2, <1>4, BoundsAssumption DEF DiskInv
<1>10. DiskInv'
 <2>1. \A i \in DOMAIN inodes' : inodes'[i] \in DOMAIN history' BY <1>4, <1>6, <1>7
 <2>2. \A i, j \in DOMAIN inodes' : inodes'[i] = inodes'[j] => i = j
  <3>1. \A i, j \in 1 .. m : inodes[i] = inodes[j] => i = j BY <1>2 DEF DiskInv
  <3>2. n + 1 # n + 2 BY <1>2
  <3> QED BY ZenonT(60), <1>6, <1>7, <3>1, <3>2
 <2>3. link' \in [Files -> DOMAIN inodes'] BY <1>1, <1>2, <1>6
 <2>4. tool' \in {"pinned", "changed", "restored"} /\ inspection' \in {"gguf", "hash-only"} BY <1>1 DEF DiskInv
 <2> QED BY <1>4, <1>6, <1>9, <2>1, <2>2, <2>3, <2>4 DEF DiskInv
<1>11. DiskMoves
 <2>1. \A g \in Files : inodes'[link'[g]] = inodes[link[g]] \/ inodes'[link'[g]] \notin DOMAIN history
   BY <1>1, <1>2, <1>6, <1>8
 <2>2. \A i \in DOMAIN inodes' \ DOMAIN inodes : inodes'[i] \notin DOMAIN history BY <1>2, <1>6, <1>8
 <2>3. \A i \in DOMAIN inodes :
         i \in DOMAIN inodes' /\ (inodes'[i] = inodes[i] \/ inodes'[i] \notin DOMAIN history)
   BY <1>2, <1>6, <1>8
 <2> QED BY <1>1, <1>2, <1>4, <2>1, <2>2, <2>3 DEF DiskMoves
<1> QED BY <1>10, <1>11

\* When the tool is replaced or put back, no file changes.
LEMMA ToolMovesOn ==
  ASSUME DiskInv, ToolMoves
  PROVE  DiskInv' /\ DiskMoves
<1>1. /\ UNCHANGED <<history, inodes, link, inspection>> /\ tool # "restored"
      /\ tool' = IF tool = "pinned" THEN "changed" ELSE "restored"
  BY DEF ToolMoves, disk
<1>2. UNCHANGED <<history, inodes, link>> /\ trouble' \in 0 .. MaxTrouble
      /\ Len(history) \in 2 .. 2 + 2 * trouble'
 <2>1. trouble \in Nat /\ MaxTrouble \in Nat /\ trouble < MaxTrouble /\ trouble' = trouble + 1
       /\ Len(history) \in Nat /\ 2 <= Len(history) /\ Len(history) <= 2 + 2 * trouble
   BY BoundsAssumption DEF DiskInv, ToolMoves, Troubled
 <2> QED BY <1>1, <2>1
<1> QED BY <1>1, <1>2 DEF DiskInv, DiskMoves

\* What a process does to the world around it, or the power failure does
Quiet == UNCHANGED <<disk, tool, inspection>> /\ (trouble' = trouble \/ Troubled)

\* A step of a process changes nothing outside.
LEMMA ActorQuiet ==
  ASSUME NEW p \in Procs, Verify(p) \/ Observe(p) \/ Require(p) \/ Step(p) \/ Fail(p)
                          \/ (\E f \in Files : Use(p, f))
  PROVE  Quiet
BY DEF Quiet, Verify, Observe, Begin, Require, Step, Fail, Use, Outside, Open, Lookup, Acquire, TimeOut, Recheck,
  Hash, HashChecked, PublishHash, SyncHash, StartInspector, Dump, ToolChecked, DriftChecked, StoreMetadata,
  SyncMetadata, PublishReceipt, SyncReceipt, Bind, EndLease, LeaseRefused

\* Every step gives the disk only stamps it had not.
LEMMA DiskStep ==
  ASSUME DiskInv, [Next]_vars
  PROVE  DiskInv' /\ DiskMoves
<1>1. CASE Quiet BY <1>1, StillDisk DEF Quiet
<1>2. UNCHANGED vars \/ PowerLoss => Quiet BY DEF Quiet, PowerLoss, vars
<1> QED BY <1>1, <1>2, ActorQuiet, EditMoves, ReplaceMoves, ToolMovesOn DEF Next

----------------------------------------
(* Processes: what a step leaves of those who do not take it *)

\* p's memory is untouched.
Same(p) ==
  /\ pc'[p] = pc[p] /\ op'[p] = op[p] /\ file'[p] = file[p] /\ fd'[p] = fd[p]
  /\ ident'[p] = ident[p] /\ sum'[p] = sum[p] /\ meta'[p] = meta[p]
  /\ parts'[p] = parts[p] /\ tainted'[p] = tainted[p]

\* What is stored stays, and what is durable stays durable: every step but a power failure
StoresMove ==
  /\ receipts \subseteq receipts'
  /\ \A t \in registry : t \in registry'
                         /\ (<<"metadata", t>> \notin unsynced => <<"metadata", t>> \notin unsynced')

\* A part that was good stays good.
LEMMA GoodStays ==
  ASSUME DiskMoves
  PROVE  \A x, f : Good(x, f) =>
           /\ x \in Parts /\ x.stamp \in DOMAIN history' /\ x.text = "good" /\ history'[x.stamp] = "good"
           /\ \/ x.meta = "good" \/ tool' = "restored"
              \/ f = "sidecar" /\ inspection' = "hash-only" /\ x.meta = "none"
BY DEF DiskMoves, Good

\* Stored metadata stays stored.
LEMMA StoredStays ==
  ASSUME StoresMove
  PROVE  \A t : Stored(t) => t = "none" \/ (t \in registry' /\ <<"metadata", t>> \notin unsynced')
BY DEF StoresMove, Stored

\* Whatever others do to the disk and the stores, what p has established holds.
LEMMA ProcKept ==
  ASSUME DiskInv, NEW p \in Procs, ProcInv(p), DiskMoves, StoresMove, Same(p)
  PROVE  ProcInv(p)'
<1>0. pc'[p] = pc[p] BY DEF Same
<1>1. IdleInv(p)' BY DEF ProcInv, IdleInv, Same
<1>2. OpenInv(p)'
 <2>1. pc'[p] \in Opened \cup {"open"} => op'[p] \in {"verify", "observe"} BY DEF ProcInv, OpenInv, Same
 <2>2. pc'[p] \in Opened \cup {"open"} /\ file'[p] = "sidecar" =>
         op'[p] = "verify" /\ Good(parts[p]["primary"], "primary")' /\ Stored(parts[p]["primary"].meta)'
  <3> SUFFICES ASSUME pc'[p] \in Opened \cup {"open"}, file'[p] = "sidecar"
               PROVE  op'[p] = "verify" /\ Good(parts[p]["primary"], "primary")'
                      /\ Stored(parts[p]["primary"].meta)'
    OBVIOUS
  <3>1. op[p] = "verify" /\ Good(parts[p]["primary"], "primary") /\ Stored(parts[p]["primary"].meta)
    BY DEF ProcInv, OpenInv, Same
  <3>2. parts'[p] = parts[p] /\ op'[p] = op[p] BY DEF Same
  <3>3. Good(parts[p]["primary"], "primary")' BY <3>1, <3>2, GoodStays DEF Good
  <3>4. Stored(parts[p]["primary"].meta)' BY <3>1, <3>2, StoredStays DEF Stored
  <3> QED BY <3>1, <3>2, <3>3, <3>4
 <2>3. pc'[p] \in Opened =>
         /\ fd'[p] \in DOMAIN inodes' /\ ident'[p] \in DOMAIN history'
         /\ \A i \in DOMAIN inodes' : inodes'[i] = ident'[p] => i = fd'[p]
  <3> SUFFICES ASSUME pc[p] \in Opened
               PROVE  /\ fd[p] \in DOMAIN inodes' /\ ident[p] \in DOMAIN history'
                      /\ \A i \in DOMAIN inodes' : inodes'[i] = ident[p] => i = fd[p]
    BY DEF Same
  <3>1. /\ fd[p] \in DOMAIN inodes /\ ident[p] \in DOMAIN history
        /\ \A i \in DOMAIN inodes : inodes[i] = ident[p] => i = fd[p]
    BY DEF ProcInv, OpenInv
  <3> QED BY <3>1 DEF DiskMoves
 <2>4. (pc'[p] \in Undumped => meta'[p] = "none") /\ (fd'[p] = 0 \/ fd'[p] \in DOMAIN inodes')
   BY DEF ProcInv, OpenInv, Same, DiskMoves
 <2> QED BY <2>1, <2>2, <2>3, <2>4 DEF OpenInv
<1>3. pc[p] \in Opened =>
        history'[ident'[p]] = history[ident[p]] /\ (inodes[fd[p]] # ident[p] => inodes'[fd'[p]] # ident'[p])
 <2> SUFFICES ASSUME pc[p] \in Opened
              PROVE  /\ history'[ident[p]] = history[ident[p]]
                     /\ inodes[fd[p]] # ident[p] => inodes'[fd[p]] # ident[p]
   BY DEF Same
 <2>1. fd[p] \in DOMAIN inodes /\ ident[p] \in DOMAIN history BY DEF ProcInv, OpenInv
 <2> QED BY <2>1 DEF DiskMoves
<1>4. SumInv(p)'
 <2>1. SumInv(p) BY DEF ProcInv
 <2>2. pc'[p] = "hashed" =>
         sum'[p] \in Texts /\ (sum'[p] = history'[ident'[p]] \/ inodes'[fd'[p]] # ident'[p])
   BY <1>3, <2>1 DEF SumInv, Opened, Same
 <2>3. pc'[p] \in Inspecting \cup {"publish", "sync_hash"} => sum'[p] = history'[ident'[p]]
   BY <1>3, <2>1 DEF SumInv, Opened, Inspecting, Same
 <2>4. pc'[p] \in Inspecting /\ op'[p] = "verify" => sum'[p] = "good" BY <2>1 DEF SumInv, Same
 <2> QED BY <2>2, <2>3, <2>4 DEF SumInv
<1>5. MetaInv(p)'
 <2>1. MetaInv(p) /\ (tool = "restored" => tool' = "restored") /\ (tool # "pinned" => tool' # "pinned")
   BY DEF ProcInv, DiskMoves
 <2>2. pc'[p] \in {"dumped", "drift", "store", "sync_metadata"} => meta'[p] \in Texts BY <2>1 DEF MetaInv, Same
 <2>3. pc'[p] = "dumped" =>
         meta'[p] = history'[ident'[p]] \/ inodes'[fd'[p]] # ident'[p] \/ tool' # "pinned"
   BY <1>3, <2>1 DEF MetaInv, Opened, Same
 <2>4. pc'[p] = "drift" =>
         meta'[p] = history'[ident'[p]] \/ inodes'[fd'[p]] # ident'[p] \/ tool' = "restored"
   BY <1>3, <2>1 DEF MetaInv, Opened, Same
 <2>5. pc'[p] \in {"store", "sync_metadata"} => meta'[p] = history'[ident'[p]] \/ tool' = "restored"
   BY <1>3, <2>1 DEF MetaInv, Opened, Same
 <2>6. pc'[p] = "sync_metadata" => meta'[p] \in registry' BY <2>1 DEF MetaInv, StoresMove, Same
 <2> QED BY <2>2, <2>3, <2>4, <2>5, <2>6 DEF MetaInv
<1>6. PartsInv(p)'
 <2>1. PartsInv(p) /\ pc'[p] = pc[p] /\ parts'[p] = parts[p] BY DEF ProcInv, Same
 <2>2. pc'[p] \in {"receipt", "sync_receipt", "bind", "leased"} => \A f \in Files : Good(parts[p][f], f)'
   BY SMTT(40), <2>1, GoodStays DEF PartsInv, Good
 <2>3. pc'[p] \in {"receipt", "sync_receipt"} => \A f \in Files : Stored(parts[p][f].meta)'
   BY <2>1, StoredStays DEF PartsInv, Stored
 <2>4. pc'[p] = "sync_receipt" => parts'[p] \in receipts' BY <2>1 DEF PartsInv, StoresMove
 <2> QED BY <2>2, <2>3, <2>4 DEF PartsInv
<1>7. LeaseInv(p)'
 <2> SUFFICES ASSUME pc[p] = "leased"
              PROVE  /\ fd[p] \in DOMAIN inodes' /\ ident[p] = parts[p]["primary"].stamp
                     /\ tainted[p] => \/ inodes'[fd[p]] # ident[p]
                                      \/ \E f \in Files : inodes'[link'[f]] # parts[p][f].stamp
   BY DEF LeaseInv, Current, Same
 <2>1. /\ fd[p] \in DOMAIN inodes /\ ident[p] = parts[p]["primary"].stamp
       /\ tainted[p] => \/ inodes[fd[p]] # ident[p]
                        \/ \E f \in Files : inodes[link[f]] # parts[p][f].stamp
   BY DEF ProcInv, LeaseInv, Current
 <2>2. \A f \in Files : parts[p][f].stamp \in DOMAIN history BY DEF ProcInv, PartsInv, Good
 <2>3. fd[p] \in DOMAIN inodes' /\ (inodes[fd[p]] # ident[p] => inodes'[fd[p]] # ident[p])
   BY <2>1, <2>2 DEF DiskMoves, Files
 <2>4. \A f \in Files : inodes[link[f]] # parts[p][f].stamp => inodes'[link'[f]] # parts[p][f].stamp
   BY <2>2 DEF DiskMoves
 <2> QED BY <2>1, <2>3, <2>4
<1> QED BY <1>1, <1>2, <1>4, <1>5, <1>6, <1>7 DEF ProcInv

----------------------------------------
(* Processes: what a step makes of the one who takes it *)

\* p alone moves, into a state that keeps its invariant; a lock it holds afterwards
\* it held before or found free, and it hashes only what is not cached.
Own(p) ==
  /\ Locals' /\ \A q \in Procs \ {p} : Same(q)
  /\ ProcInv(p)'
  /\ pc'[p] \in Locked => /\ ident'[p] = ident[p] /\ file'[p] = file[p]
                          /\ pc[p] \in Locked \/ ~Contended(p)
  /\ pc'[p] \in {"hash", "hashed", "publish"} => Cached(Key(p)) = {}

\* Who leaves forgets everything.
LEMMA Left ==
  ASSUME Locals, NEW p \in Procs, Leave(p)
  PROVE  Own(p)
<1>1. NoParts \in [Files -> Parts] /\ 0 \in Stamps BY BoundsAssumption DEF NoParts, NoPart, Parts, Stamps, Sums
<1>2. /\ pc'[p] = "idle" /\ op'[p] = "none" /\ file'[p] = "primary" /\ fd'[p] = 0 /\ ident'[p] = 0
      /\ sum'[p] = "none" /\ meta'[p] = "none" /\ parts'[p] = NoParts /\ tainted'[p] = FALSE
  BY DEF Leave, Goto, Locals
<1>3. \A q \in Procs \ {p} : Same(q) BY DEF Leave, Goto, Locals, Same
<1>4. Locals'
 <2>1. pc' \in [Procs -> Labels] /\ op' \in [Procs -> Ops] /\ file' \in [Procs -> Files]
   BY DEF Leave, Goto, Locals, Labels, Ops, Files
 <2>2. fd' \in [Procs -> Nat] /\ ident' \in [Procs -> Stamps] BY <1>1 DEF Leave, Locals
 <2>3. sum' \in [Procs -> Sums] /\ meta' \in [Procs -> Sums] BY DEF Leave, Locals, Sums
 <2>4. parts' \in [Procs -> [Files -> Parts]] /\ tainted' \in [Procs -> BOOLEAN] BY <1>1 DEF Leave, Locals
 <2> QED BY <2>1, <2>2, <2>3, <2>4 DEF Locals
<1>5. ProcInv(p)'
 <2>1. IdleInv(p)' /\ LeaseInv(p)' BY <1>2 DEF IdleInv, LeaseInv
 <2>2. OpenInv(p)' BY <1>2 DEF OpenInv, Opened, Undumped
 <2>3. SumInv(p)' /\ MetaInv(p)' /\ PartsInv(p)' BY <1>2 DEF SumInv, MetaInv, PartsInv, Inspecting
 <2> QED BY <2>1, <2>2, <2>3 DEF ProcInv
<1> QED BY <1>2, <1>3, <1>4, <1>5 DEF Own, Locked

\* Who only goes on keeps what it has.
LEMMA Moved ==
  ASSUME Locals, NEW p \in Procs, NEW l \in Labels, Miss(p, l)
  PROVE  /\ Locals' /\ \A q \in Procs \ {p} : Same(q)
         /\ pc'[p] = l /\ UNCHANGED <<op, file, fd, ident, sum, meta, parts, tainted>>
<1>1. pc' = [pc EXCEPT ![p] = l] /\ UNCHANGED <<op, file, fd, ident, sum, meta, parts, tainted>>
  BY DEF Miss, Goto, locals
<1>2. pc' \in [Procs -> Labels] /\ pc'[p] = l /\ \A q \in Procs \ {p} : pc'[q] = pc[q] BY <1>1 DEF Locals
<1> QED BY <1>1, <1>2 DEF Locals, Same

\* A file whose digest and metadata are of the bytes that bore its identity is accepted.
LEMMA AcceptedStep ==
  ASSUME DiskInv, Locals, NEW p \in Procs, ProcInv(p), pc[p] \in Opened,
         UNCHANGED <<disk, tool, inspection>>, StoresMove,
         NEW text \in Texts, text = history[ident[p]], op[p] = "verify" => text = "good",
         meta[p] = text \/ tool = "restored" \/ (ByteOnly(p) /\ meta[p] = "none"),
         meta[p] = "none" \/ (meta[p] \in registry' /\ <<"metadata", meta[p]>> \notin unsynced'),
         Accepted(p, text)
  PROVE  Own(p)
<1>1. CASE op[p] = "observe" BY <1>1, Left DEF Accepted
<1>2. CASE op[p] # "observe"
 <2> DEFINE part == [stamp |-> ident[p], text |-> text, meta |-> meta[p]]
 <2>1. op[p] = "verify" /\ text = "good" /\ history[ident[p]] = "good" BY <1>2 DEF ProcInv, OpenInv
 <2>2. /\ part \in Parts /\ part.stamp = ident[p] /\ part.text = "good" /\ part.meta = meta[p]
       /\ ident[p] \in DOMAIN history
   BY <2>1 DEF Locals, Parts, Sums, ProcInv, OpenInv
 <2>3. /\ parts' = [parts EXCEPT ![p][file[p]] = part]
       /\ pc' = [pc EXCEPT ![p] = IF file[p] = "primary" THEN "open" ELSE "receipt"]
       /\ file' = [file EXCEPT ![p] = "sidecar"] /\ fd' = [fd EXCEPT ![p] = 0]
       /\ ident' = [ident EXCEPT ![p] = 0]
       /\ sum' = [sum EXCEPT ![p] = "none"] /\ meta' = [meta EXCEPT ![p] = "none"]
       /\ op' = op /\ tainted' = tainted
   BY <1>2 DEF Accepted, Goto
 <2>4. part.meta = "good" \/ tool = "restored"
          \/ (file[p] = "sidecar" /\ inspection = "hash-only" /\ part.meta = "none")
   BY <2>1, <2>2 DEF ByteOnly
 <2> HIDE DEF part
 <2>5. /\ parts' \in [Procs -> [Files -> Parts]] /\ parts'[p][file[p]] = part
       /\ \A f \in Files \ {file[p]} : parts'[p][f] = parts[p][f]
       /\ \A q \in Procs \ {p} : parts'[q] = parts[q]
   BY <2>2, <2>3 DEF Locals
 <2>6. /\ pc'[p] = (IF file[p] = "primary" THEN "open" ELSE "receipt")
       /\ file'[p] = "sidecar" /\ fd'[p] = 0 /\ meta'[p] = "none" /\ op'[p] = "verify"
   BY <2>1, <2>3 DEF Locals
 <2>7. \A q \in Procs \ {p} : Same(q) BY <2>3, <2>5 DEF Same, Locals
 <2>8. Locals'
  <3>1. pc' \in [Procs -> Labels] /\ op' \in [Procs -> Ops] /\ file' \in [Procs -> Files]
    BY <2>3 DEF Locals, Labels, Files
  <3>2. fd' \in [Procs -> Nat] /\ ident' \in [Procs -> Stamps] BY <2>3, BoundsAssumption DEF Locals, Stamps
  <3>3. sum' \in [Procs -> Sums] /\ meta' \in [Procs -> Sums] /\ tainted' \in [Procs -> BOOLEAN]
    BY <2>3 DEF Locals, Sums
  <3> QED BY <2>5, <3>1, <3>2, <3>3 DEF Locals
 <2>9. /\ part \in Parts /\ part.stamp \in DOMAIN history' /\ part.text = "good"
       /\ history'[part.stamp] = "good"
       /\ \/ part.meta = "good" \/ tool' = "restored"
          \/ file[p] = "sidecar" /\ inspection' = "hash-only" /\ part.meta = "none"
       /\ part.meta = "none" \/ (part.meta \in registry' /\ <<"metadata", part.meta>> \notin unsynced')
   BY <2>1, <2>2, <2>4 DEF disk
 <2>10. CASE file[p] = "primary"
  <3>1. Good(parts[p]["primary"], "primary")' /\ Stored(parts[p]["primary"].meta)'
   <4>1. parts'[p]["primary"] = part BY <2>5, <2>10
   <4>2. Good(parts[p]["primary"], "primary")' BY <2>9, <2>10, <4>1 DEF Good
   <4>3. Stored(parts[p]["primary"].meta)' BY <2>9, <4>1 DEF Stored
   <4> QED BY <4>2, <4>3
  <3>2. pc'[p] = "open" BY <2>6, <2>10
  <3>3. OpenInv(p)' BY <2>6, <3>1, <3>2 DEF OpenInv, Opened
  <3>4. IdleInv(p)' /\ SumInv(p)' /\ MetaInv(p)' /\ PartsInv(p)' /\ LeaseInv(p)'
   <4>1. pc[p] # "leased" /\ ~tainted'[p] BY <2>3 DEF Opened, ProcInv, IdleInv
   <4> QED BY <3>2, <4>1 DEF IdleInv, SumInv, MetaInv, PartsInv, LeaseInv, Inspecting
  <3> QED BY <2>7, <2>8, <3>2, <3>3, <3>4 DEF Own, ProcInv, Locked
 <2>11. CASE file[p] # "primary"
  <3>1. file[p] = "sidecar" BY <2>11 DEF Locals, Files
  <3>2. parts'[p]["primary"] = parts[p]["primary"] /\ parts'[p]["sidecar"] = part BY <2>5, <3>1 DEF Files
  <3>3. Good(parts[p]["primary"], "primary") /\ Stored(parts[p]["primary"].meta) BY <3>1 DEF ProcInv, OpenInv
  <3>4. Good(parts[p]["primary"], "primary")' /\ Stored(parts[p]["primary"].meta)'
    BY <3>2, <3>3, StoredStays DEF Good, Stored, disk
  <3>5. Good(parts[p]["sidecar"], "sidecar")' /\ Stored(parts[p]["sidecar"].meta)'
   <4>1. Good(parts[p]["sidecar"], "sidecar")' BY <2>9, <3>1, <3>2 DEF Good
   <4>2. Stored(parts[p]["sidecar"].meta)' BY <2>9, <3>2 DEF Stored
   <4> QED BY <4>1, <4>2
  <3>6. pc'[p] = "receipt" BY <2>6, <2>11
  <3>7. PartsInv(p)' BY <3>4, <3>5, <3>6 DEF PartsInv, Files
  <3>8. OpenInv(p)' BY <2>6, <3>6 DEF OpenInv, Opened, Undumped
  <3>9. IdleInv(p)' /\ SumInv(p)' /\ MetaInv(p)' /\ LeaseInv(p)'
   <4>1. pc[p] # "leased" /\ ~tainted'[p] BY <2>3 DEF Opened, ProcInv, IdleInv
   <4> QED BY <3>6, <4>1 DEF IdleInv, SumInv, MetaInv, LeaseInv, Inspecting
  <3> QED BY <2>7, <2>8, <3>6, <3>7, <3>8, <3>9 DEF Own, ProcInv, Locked
 <2> QED BY <2>10, <2>11
<1> QED BY <1>1, <1>2

\* Between two looks at one open file only the digest and the metadata have to be
\* justified anew.
LEMMA StillOpen ==
  ASSUME DiskInv, NEW p \in Procs, ProcInv(p), UNCHANGED <<disk, tool, inspection>>, StoresMove,
         pc[p] \in Opened, pc'[p] \in Opened, op'[p] = op[p], file'[p] = file[p], fd'[p] = fd[p],
         ident'[p] = ident[p], parts'[p] = parts[p], tainted'[p] = tainted[p],
         meta'[p] = "none" \/ pc'[p] \notin Undumped
  PROVE  IdleInv(p)' /\ OpenInv(p)' /\ PartsInv(p)' /\ LeaseInv(p)'
<1>1. IdleInv(p)' /\ PartsInv(p)' /\ LeaseInv(p)'
 <2>1. ~tainted[p] BY DEF ProcInv, IdleInv, Opened
 <2> QED BY <2>1 DEF IdleInv, PartsInv, LeaseInv, Opened
<1>2. OpenInv(p) BY DEF ProcInv
<1>3. file[p] = "sidecar" => Good(parts[p]["primary"], "primary")' /\ Stored(parts[p]["primary"].meta)'
 <2> SUFFICES ASSUME file[p] = "sidecar"
              PROVE  Good(parts[p]["primary"], "primary")' /\ Stored(parts[p]["primary"].meta)'
   OBVIOUS
 <2>1. Good(parts[p]["primary"], "primary") /\ Stored(parts[p]["primary"].meta) BY <1>2 DEF OpenInv
 <2>2. Good(parts[p]["primary"], "primary")' BY <2>1 DEF Good, disk
 <2>3. Stored(parts[p]["primary"].meta)' BY <2>1, StoredStays DEF Stored
 <2> QED BY <2>2, <2>3
<1>4. OpenInv(p)' BY <1>2, <1>3 DEF OpenInv, disk
<1> QED BY <1>1, <1>4

\* What the cache or the hash says of an open file is refused, accepted or inspected.
LEMMA ResolvedStep ==
  ASSUME DiskInv, Locals, NEW p \in Procs, ProcInv(p), pc[p] \in Opened, pc[p] \in Undumped,
         UNCHANGED <<disk, tool, inspection>>, StoresMove,
         NEW text \in Texts, text = history[ident[p]], Resolved(p, text)
  PROVE  Own(p)
<1>1. meta[p] = "none" BY DEF ProcInv, OpenInv
<1>2. CASE op[p] = "verify" /\ text # "good" BY <1>2, Left DEF Resolved
<1>3. CASE ~(op[p] = "verify" /\ text # "good") /\ ByteOnly(p) BY <1>1, <1>3, AcceptedStep DEF Resolved
<1>4. CASE ~(op[p] = "verify" /\ text # "good") /\ ~ByteOnly(p)
 <2>1. /\ pc' = [pc EXCEPT ![p] = "inspect"] /\ sum' = [sum EXCEPT ![p] = text]
       /\ UNCHANGED <<op, file, fd, ident, meta, parts, tainted>>
   BY <1>4 DEF Resolved, Goto
 <2>2. Locals' /\ (\A q \in Procs \ {p} : Same(q)) /\ pc'[p] = "inspect" /\ sum'[p] = text
  <3>1. pc' \in [Procs -> Labels] /\ pc'[p] = "inspect" /\ \A q \in Procs \ {p} : pc'[q] = pc[q]
    BY <2>1 DEF Locals, Labels, Opened
  <3>2. sum' \in [Procs -> Sums] /\ sum'[p] = text /\ \A q \in Procs \ {p} : sum'[q] = sum[q] BY <2>1 DEF Locals, Sums
  <3> QED BY <2>1, <3>1, <3>2 DEF Locals, Same
 <2>3. IdleInv(p)' /\ OpenInv(p)' /\ PartsInv(p)' /\ LeaseInv(p)'
  <3>1. pc'[p] \in Opened BY <2>2 DEF Opened
  <3> QED BY <1>1, <2>1, <3>1, StillOpen
 <2>4. SumInv(p)' BY <1>4, <2>1, <2>2 DEF SumInv, Inspecting, disk
 <2>5. MetaInv(p)' BY <2>2 DEF MetaInv
 <2> QED BY <2>2, <2>3, <2>4, <2>5 DEF Own, ProcInv, Locked
<1> QED BY <1>2, <1>3, <1>4

\* A store that nobody touches only moves trivially.
LEMMA StoresStill == UNCHANGED stores => StoresMove
BY DEF stores, StoresMove

\* Every stamp that was borne is within the bound.
LEMMA StampsBorne == DiskInv => DOMAIN history \subseteq Stamps /\ DOMAIN history \subseteq Nat
<1>1. ASSUME DiskInv PROVE DOMAIN history \subseteq Stamps /\ DOMAIN history \subseteq Nat
 <2> DEFINE n == Len(history)
 <2>1. n \in Nat /\ DOMAIN history = 1 .. n /\ trouble \in Nat /\ MaxTrouble \in Nat
       /\ trouble <= MaxTrouble /\ n <= 2 + 2 * trouble
   BY <1>1, BoundsAssumption DEF DiskInv
 <2> HIDE DEF n
 <2>2. n <= 2 + 2 * MaxTrouble BY <2>1
 <2> QED BY <2>1, <2>2 DEF Stamps
<1> QED BY <1>1

\* A step that only goes on with an open file
LEMMA MissStep ==
  ASSUME DiskInv, Locals, NEW p \in Procs, ProcInv(p), UNCHANGED <<disk, tool, inspection>>, StoresMove,
         pc[p] \in Opened, NEW l \in Opened, meta[p] = "none" \/ l \notin Undumped, Miss(p, l),
         SumInv(p)', MetaInv(p)',
         l \in Locked => pc[p] \in Locked \/ ~Contended(p),
         l \in {"hash", "hashed", "publish"} => Cached(Key(p)) = {}
  PROVE  Own(p)
<1>1. /\ Locals' /\ \A q \in Procs \ {p} : Same(q)
      /\ pc'[p] = l /\ UNCHANGED <<op, file, fd, ident, sum, meta, parts, tainted>>
  BY Moved DEF Labels
<1>2. IdleInv(p)' /\ OpenInv(p)' /\ PartsInv(p)' /\ LeaseInv(p)' BY <1>1, StillOpen
<1> QED BY <1>1, <1>2 DEF Own, ProcInv

----------------------------------------
(* The actions of a process, one by one *)

\* Who begins has nothing yet.
LEMMA BeginStep ==
  ASSUME IInv, NEW p \in Procs, NEW o \in {"verify", "observe"}, Begin(p, o)
  PROVE  Own(p) /\ UNCHANGED stores
<1>1. Locals /\ IdleInv(p) /\ OpenInv(p) BY DEF IInv, ProcInv
<1>2. /\ pc[p] = "idle" /\ pc' = [pc EXCEPT ![p] = "open"] /\ op' = [op EXCEPT ![p] = o]
      /\ UNCHANGED <<file, fd, ident, sum, meta, parts, tainted>> /\ UNCHANGED stores
      /\ UNCHANGED disk
  BY DEF Begin, At, Goto, Outside
<1>3. /\ file[p] = "primary" /\ fd[p] = 0 /\ meta[p] = "none" /\ ~tainted[p] BY <1>1, <1>2 DEF IdleInv
<1>4. pc' \in [Procs -> Labels] /\ op' \in [Procs -> Ops] /\ pc'[p] = "open" /\ op'[p] = o
  BY <1>1, <1>2 DEF Locals, Labels, Ops
<1>5. Locals' /\ \A q \in Procs \ {p} : Same(q) BY <1>1, <1>2, <1>4 DEF Locals, Same
<1>6. IdleInv(p)' /\ SumInv(p)' /\ MetaInv(p)' /\ PartsInv(p)' /\ LeaseInv(p)'
  BY <1>2, <1>3, <1>4 DEF IdleInv, SumInv, MetaInv, PartsInv, LeaseInv, Inspecting
<1>7. OpenInv(p)' BY <1>2, <1>3, <1>4 DEF OpenInv, Opened
<1> QED BY <1>2, <1>4, <1>5, <1>6, <1>7 DEF Own, ProcInv, Locked

\* The descriptor and the identity are of the inode the path names.
LEMMA OpenStep ==
  ASSUME IInv, NEW p \in Procs, Open(p)
  PROVE  Own(p) /\ UNCHANGED stores
<1>1. DiskInv /\ Locals /\ IdleInv(p) /\ OpenInv(p) BY DEF IInv, ProcInv
<1> DEFINE i == link[file[p]]
<1>2. /\ pc[p] = "open" /\ pc' = [pc EXCEPT ![p] = "lookup"] /\ fd' = [fd EXCEPT ![p] = i]
      /\ ident' = [ident EXCEPT ![p] = inodes[i]]
      /\ UNCHANGED <<op, file, sum, meta, parts, tainted>> /\ UNCHANGED stores
      /\ UNCHANGED <<history, inodes, link, tool, inspection>>
  BY DEF Open, At, Goto, Outside, StableIdentity, disk
<1>3. /\ i \in DOMAIN inodes /\ i \in Nat /\ inodes[i] \in DOMAIN history /\ inodes[i] \in Stamps
      /\ \A j \in DOMAIN inodes : inodes[j] = inodes[i] => j = i
 <2>1. i \in DOMAIN inodes BY <1>1 DEF DiskInv, Locals
 <2>2. inodes[i] \in DOMAIN history /\ i \in Nat BY <1>1, <2>1 DEF DiskInv
 <2>3. inodes[i] \in Stamps BY <1>1, <2>2, StampsBorne
 <2>4. \A j \in DOMAIN inodes : inodes[j] = inodes[i] => j = i BY <1>1, <2>1 DEF DiskInv
 <2> QED BY <2>1, <2>2, <2>3, <2>4
<1> HIDE DEF i
<1>4. /\ pc' \in [Procs -> Labels] /\ fd' \in [Procs -> Nat] /\ ident' \in [Procs -> Stamps]
      /\ pc'[p] = "lookup" /\ fd'[p] = i /\ ident'[p] = inodes[i]
  BY <1>1, <1>2, <1>3 DEF Locals, Labels, Opened
<1>5. Locals' /\ \A q \in Procs \ {p} : Same(q) BY <1>1, <1>2, <1>4 DEF Locals, Same
<1>6. IdleInv(p)' /\ SumInv(p)' /\ MetaInv(p)' /\ PartsInv(p)' /\ LeaseInv(p)'
 <2>1. ~tainted[p] BY <1>1, <1>2 DEF IdleInv
 <2> QED BY <1>2, <1>4, <2>1 DEF IdleInv, SumInv, MetaInv, PartsInv, LeaseInv, Inspecting
<1>7. OpenInv(p)'
 <2>1. pc'[p] \in Opened => /\ fd'[p] \in DOMAIN inodes' /\ ident'[p] \in DOMAIN history'
                            /\ \A j \in DOMAIN inodes' : inodes'[j] = ident'[p] => j = fd'[p]
   BY <1>2, <1>3, <1>4
 <2>2. meta[p] = "none" /\ op[p] \in {"verify", "observe"} BY <1>1, <1>2 DEF OpenInv, Undumped
 <2>3. file[p] = "sidecar" => /\ op[p] = "verify" /\ Good(parts[p]["primary"], "primary")'
                              /\ Stored(parts[p]["primary"].meta)'
  <3> SUFFICES ASSUME file[p] = "sidecar"
               PROVE  /\ op[p] = "verify" /\ Good(parts[p]["primary"], "primary")'
                      /\ Stored(parts[p]["primary"].meta)'
    OBVIOUS
  <3>1. /\ op[p] = "verify" /\ Good(parts[p]["primary"], "primary")
        /\ Stored(parts[p]["primary"].meta)
    BY <1>1, <1>2 DEF OpenInv
  <3>2. Good(parts[p]["primary"], "primary")' BY <1>2, <3>1 DEF Good
  <3>3. Stored(parts[p]["primary"].meta)' BY <1>2, <3>1 DEF Stored, stores
  <3> QED BY <3>1, <3>2, <3>3
 <2>4. fd'[p] = 0 \/ fd'[p] \in DOMAIN inodes' BY <1>2, <1>3, <1>4
 <2> QED BY <1>2, <1>4, <2>1, <2>2, <2>3, <2>4 DEF OpenInv
<1> QED BY <1>2, <1>4, <1>5, <1>6, <1>7 DEF Own, ProcInv, Locked

\* A record of the cache gives the digest of the bytes that bore the identity.
LEMMA CachedTold ==
  ASSUME StoreInv, NEW p \in Procs, NEW c \in Cached(Key(p))
  PROVE  c.text \in Texts /\ c.text = history[ident[p]]
BY DEF StoreInv, Cached, Key

\* The cache is looked up without a lock.
LEMMA LookupStep ==
  ASSUME IInv, NEW p \in Procs, Lookup(p)
  PROVE  Own(p) /\ UNCHANGED stores
<1>1. DiskInv /\ StoreInv /\ Locals /\ ProcInv(p) BY DEF IInv
<1>2. /\ pc[p] = "lookup" /\ UNCHANGED <<disk, tool, inspection>> /\ UNCHANGED stores /\ StoresMove
  BY StoresStill DEF Lookup, At, Outside
<1>3. pc[p] \in Opened /\ pc[p] \in Undumped BY <1>2 DEF Opened, Undumped
<1>4. CASE \E c \in Cached(Key(p)) : Resolved(p, c.text) BY <1>1, <1>2, <1>3, <1>4, CachedTold, ResolvedStep
<1>5. CASE Miss(p, "wait")
 <2>1. pc'[p] = "wait" BY <1>1, <1>5, Moved DEF Labels, Opened
 <2>2. SumInv(p)' /\ MetaInv(p)' BY <2>1 DEF SumInv, MetaInv, Inspecting
 <2>3. meta[p] = "none" BY <1>1, <1>3 DEF ProcInv, OpenInv
 <2>4. "wait" \in Opened /\ "wait" \notin Locked BY DEF Opened, Locked
 <2> QED BY <1>1, <1>2, <1>3, <1>5, <2>2, <2>3, <2>4, MissStep
<1> QED BY <1>2, <1>4, <1>5 DEF Lookup

\* The lock of a key is taken when nobody holds it.
LEMMA AcquireStep ==
  ASSUME IInv, NEW p \in Procs, Acquire(p)
  PROVE  Own(p) /\ UNCHANGED stores
<1>1. DiskInv /\ StoreInv /\ Locals /\ ProcInv(p) BY DEF IInv
<1>2. /\ pc[p] = "wait" /\ UNCHANGED <<disk, tool, inspection>> /\ UNCHANGED stores /\ StoresMove
      /\ Miss(p, "recheck") /\ ~Contended(p)
  BY StoresStill DEF Acquire, At, Outside
<1>3. pc'[p] = "recheck" BY <1>1, <1>2, Moved DEF Labels, Opened
<1>4. SumInv(p)' /\ MetaInv(p)' BY <1>3 DEF SumInv, MetaInv, Inspecting
<1>5. meta[p] = "none" /\ pc[p] \in Opened /\ "recheck" \in Opened BY <1>1, <1>2 DEF ProcInv, OpenInv, Opened, Undumped
<1> QED BY <1>1, <1>2, <1>4, <1>5, MissStep

\* The cache is looked at once more under the lock.
LEMMA RecheckStep ==
  ASSUME IInv, NEW p \in Procs, Recheck(p)
  PROVE  Own(p) /\ UNCHANGED stores
<1>1. DiskInv /\ StoreInv /\ Locals /\ ProcInv(p) BY DEF IInv
<1>2. /\ pc[p] = "recheck" /\ UNCHANGED <<disk, tool, inspection>> /\ UNCHANGED stores /\ StoresMove
  BY StoresStill DEF Recheck, At, Outside
<1>3. pc[p] \in Opened /\ pc[p] \in Undumped /\ pc[p] \in Locked BY <1>2 DEF Opened, Undumped, Locked
<1>4. CASE \E c \in Cached(Key(p)) : Resolved(p, c.text) BY <1>1, <1>2, <1>3, <1>4, CachedTold, ResolvedStep
<1>5. CASE Cached(Key(p)) = {} /\ Miss(p, "hash")
 <2>1. pc'[p] = "hash" BY <1>1, <1>5, Moved DEF Labels, Opened
 <2>2. SumInv(p)' /\ MetaInv(p)' BY <2>1 DEF SumInv, MetaInv, Inspecting
 <2>3. meta[p] = "none" BY <1>1, <1>3 DEF ProcInv, OpenInv
 <2>4. "hash" \in Opened BY DEF Opened
 <2> QED BY <1>1, <1>2, <1>3, <1>5, <2>2, <2>3, <2>4, MissStep
<1> QED BY <1>2, <1>4, <1>5 DEF Recheck

\* What an open descriptor reads is what bore its identity, or the identity is gone.
LEMMA ReadTells ==
  ASSUME DiskInv, NEW p \in Procs, ProcInv(p), pc[p] \in Opened
  PROVE  Read(p) \in Texts /\ (Read(p) = history[ident[p]] \/ inodes[fd[p]] # ident[p])
BY DEF Read, ProcInv, OpenInv, DiskInv

\* The file is hashed through the descriptor.
LEMMA HashStep ==
  ASSUME IInv, NEW p \in Procs, Hash(p)
  PROVE  Own(p) /\ UNCHANGED stores
<1>1. DiskInv /\ StoreInv /\ Locals /\ ProcInv(p) /\ LockInv BY DEF IInv
<1>2. /\ pc[p] = "hash" /\ UNCHANGED <<disk, tool, inspection>> /\ UNCHANGED stores /\ StoresMove
      /\ sum' = [sum EXCEPT ![p] = Read(p)] /\ pc' = [pc EXCEPT ![p] = "hashed"]
      /\ UNCHANGED <<op, file, fd, ident, meta, parts, tainted>>
  BY StoresStill DEF Hash, At, Outside, Goto
<1>3. pc[p] \in Opened /\ meta[p] = "none" /\ Cached(Key(p)) = {}
  BY <1>1, <1>2 DEF Opened, ProcInv, OpenInv, Undumped, LockInv
<1>4. Read(p) \in Texts /\ (Read(p) = history[ident[p]] \/ inodes[fd[p]] # ident[p]) BY <1>1, <1>3, ReadTells
<1>5. /\ pc' \in [Procs -> Labels] /\ pc'[p] = "hashed" /\ sum' \in [Procs -> Sums] /\ sum'[p] = Read(p)
      /\ \A q \in Procs \ {p} : pc'[q] = pc[q] /\ sum'[q] = sum[q]
  BY <1>1, <1>2, <1>4 DEF Locals, Labels, Opened, Sums
<1>6. Locals' /\ \A q \in Procs \ {p} : Same(q) BY <1>1, <1>2, <1>5 DEF Locals, Same
<1>7. IdleInv(p)' /\ OpenInv(p)' /\ PartsInv(p)' /\ LeaseInv(p)'
 <2>1. pc'[p] \in Opened BY <1>5 DEF Opened
 <2> QED BY <1>1, <1>2, <1>3, <2>1, StillOpen
<1>8. SumInv(p)' /\ MetaInv(p)'
 <2>1. sum'[p] = history'[ident'[p]] \/ inodes'[fd'[p]] # ident'[p] BY <1>2, <1>4, <1>5 DEF disk
 <2> QED BY <1>4, <1>5, <2>1 DEF SumInv, MetaInv, Inspecting
<1>9. pc[p] \in Locked BY <1>2 DEF Locked
<1> QED BY <1>2, <1>3, <1>6, <1>7, <1>8, <1>9 DEF Own, ProcInv

\* A digest is kept only if the file is still the one that was opened.
LEMMA HashCheckedStep ==
  ASSUME IInv, NEW p \in Procs, HashChecked(p)
  PROVE  Own(p) /\ UNCHANGED stores
<1>1. DiskInv /\ StoreInv /\ Locals /\ ProcInv(p) /\ LockInv BY DEF IInv
<1>2. /\ pc[p] = "hashed" /\ UNCHANGED <<disk, tool, inspection>> /\ UNCHANGED stores /\ StoresMove
  BY StoresStill DEF HashChecked, At, Outside
<1>3. CASE Leave(p) BY <1>1, <1>2, <1>3, Left
<1>4. CASE inodes[fd[p]] = ident[p] /\ Miss(p, "publish")
 <2>1. pc'[p] = "publish" /\ UNCHANGED <<op, file, fd, ident, sum, meta, parts, tainted>>
   BY <1>1, <1>4, Moved DEF Labels, Opened
 <2>2. pc[p] \in Opened /\ meta[p] = "none" /\ Cached(Key(p)) = {} /\ pc[p] \in Locked /\ "publish" \in Opened
   BY <1>1, <1>2 DEF Opened, ProcInv, OpenInv, Undumped, LockInv, Locked
 <2>3. sum[p] = history[ident[p]] BY <1>1, <1>2, <1>4 DEF ProcInv, SumInv
 <2>4. SumInv(p)' /\ MetaInv(p)' BY <1>2, <2>1, <2>3 DEF SumInv, MetaInv, Inspecting, disk
 <2> QED BY <1>1, <1>2, <1>4, <2>2, <2>4, MissStep
<1> QED BY <1>2, <1>3, <1>4 DEF HashChecked, HashIsStable

\* The record that is published is true, and the only one of its key.
LEMMA PublishHashStep ==
  ASSUME IInv, NEW p \in Procs, PublishHash(p)
  PROVE  /\ Own(p) /\ StoresMove
         /\ \/ UNCHANGED stores
            \/ /\ pc[p] = "publish" /\ cache' = cache \cup {Record(p)}
               /\ unsynced' \subseteq unsynced \cup {<<"hash", Record(p)>>} /\ unsynced \subseteq unsynced'
               /\ UNCHANGED <<registry, receipts, returned>>
<1>1. DiskInv /\ StoreInv /\ Locals /\ ProcInv(p) /\ LockInv BY DEF IInv
<1>2. /\ pc[p] = "publish" /\ UNCHANGED <<disk, tool, inspection>>
      /\ UNCHANGED <<registry, receipts, returned>>
  BY DEF PublishHash, At, Outside
<1>3. CASE Leave(p) /\ UNCHANGED <<cache, unsynced>>
 <2>1. UNCHANGED stores BY <1>2, <1>3 DEF stores
 <2> QED BY <1>1, <1>3, <2>1, Left, StoresStill
<1>4. CASE /\ Miss(p, "sync_hash") /\ cache' = cache \cup {Record(p)}
           /\ unsynced' = unsynced \cup ({<<"hash", Record(p)>>} \ {<<"hash", c>> : c \in cache})
 <2>1. unsynced' \subseteq unsynced \cup {<<"hash", Record(p)>>} /\ unsynced \subseteq unsynced' BY <1>4
 <2>2. StoresMove BY <1>2, <2>1 DEF StoresMove
 <2>3. pc'[p] = "sync_hash" /\ UNCHANGED <<op, file, fd, ident, sum, meta, parts, tainted>>
   BY <1>1, <1>4, Moved DEF Labels, Opened
 <2>4. pc[p] \in Opened /\ meta[p] = "none" /\ pc[p] \in Locked /\ "sync_hash" \in Opened
   BY <1>1, <1>2 DEF Opened, ProcInv, OpenInv, Undumped, Locked
 <2>5. sum[p] = history[ident[p]] BY <1>1, <1>2 DEF ProcInv, SumInv
 <2>6. SumInv(p)' /\ MetaInv(p)' BY <1>2, <2>3, <2>5 DEF SumInv, MetaInv, Inspecting, disk
 <2>7. Own(p) BY <1>1, <1>2, <1>4, <2>2, <2>4, <2>6, MissStep
 <2> QED BY <1>2, <1>4, <2>1, <2>2, <2>7
<1> QED BY <1>3, <1>4 DEF PublishHash

\* A flush takes the names of one store off the list.
LEMMA FlushMoves ==
  ASSUME NEW s, unsynced' = Flushed(s), registry' = registry, receipts \subseteq receipts'
  PROVE  StoresMove
BY DEF Flushed, StoresMove

\* The digest is durable, and the lock is dropped.
LEMMA SyncHashStep ==
  ASSUME IInv, NEW p \in Procs, SyncHash(p)
  PROVE  Own(p) /\ StoresMove
<1>1. DiskInv /\ StoreInv /\ Locals /\ ProcInv(p) /\ LockInv BY DEF IInv
<1>2. /\ pc[p] = "sync_hash" /\ UNCHANGED <<disk, tool, inspection>>
      /\ UNCHANGED <<cache, registry, receipts, returned>> /\ unsynced' = Flushed("hash")
      /\ Resolved(p, sum[p])
  BY DEF SyncHash, At, Outside
<1>3. StoresMove BY <1>2, FlushMoves
<1>4. pc[p] \in Opened /\ pc[p] \in Undumped BY <1>2 DEF Opened, Undumped
<1>5. sum[p] = history[ident[p]] /\ sum[p] \in Texts BY <1>1, <1>2, <1>4 DEF ProcInv, SumInv, OpenInv, DiskInv
<1> QED BY <1>1, <1>2, <1>3, <1>4, <1>5, ResolvedStep

\* From the inspector on, a step that only goes on keeps the digest justified.
LEMMA InspectMiss ==
  ASSUME IInv, NEW p \in Procs, UNCHANGED <<disk, tool, inspection>>, StoresMove,
         pc[p] \in Inspecting, NEW l \in Inspecting, meta[p] = "none" \/ l \notin Undumped, Miss(p, l),
         MetaInv(p)'
  PROVE  Own(p)
<1>1. DiskInv /\ StoreInv /\ Locals /\ ProcInv(p) BY DEF IInv
<1>2. pc'[p] = l /\ UNCHANGED <<op, file, fd, ident, sum, meta, parts, tainted>>
  BY <1>1, Moved DEF Labels, Opened, Inspecting
<1>3. sum[p] = history[ident[p]] /\ (op[p] = "verify" => sum[p] = "good") BY <1>1 DEF ProcInv, SumInv
<1>4. SumInv(p)'
 <2>1. l # "hashed" BY DEF Inspecting
 <2> QED BY <1>2, <1>3, <2>1 DEF SumInv, disk
<1>5. /\ pc[p] \in Opened /\ l \in Opened /\ l \notin Locked /\ l \notin {"hash", "hashed", "publish"}
  BY DEF Inspecting, Opened, Locked
<1> QED BY <1>1, <1>4, <1>5, MissStep

\* An inspection starts with the pinned tool, or not at all.
LEMMA StartInspectorStep ==
  ASSUME IInv, NEW p \in Procs, StartInspector(p)
  PROVE  Own(p) /\ UNCHANGED stores
<1>1. Locals /\ ProcInv(p) BY DEF IInv
<1>2. /\ pc[p] = "inspect" /\ UNCHANGED <<disk, tool, inspection>> /\ UNCHANGED stores /\ StoresMove
  BY StoresStill DEF StartInspector, At, Outside
<1>3. CASE Leave(p) BY <1>1, <1>2, <1>3, Left
<1>4. CASE Miss(p, "dump")
 <2>1. pc'[p] = "dump" BY <1>1, <1>4, Moved DEF Labels, Opened
 <2>2. MetaInv(p)' BY <2>1 DEF MetaInv
 <2>3. meta[p] = "none" /\ pc[p] \in Inspecting /\ "dump" \in Inspecting
   BY <1>1, <1>2 DEF ProcInv, OpenInv, Undumped, Inspecting
 <2> QED BY <1>2, <1>4, <2>2, <2>3, InspectMiss
<1> QED BY <1>2, <1>3, <1>4 DEF StartInspector

\* The metadata is of the bytes that bore the identity, or the identity is gone, or the
\* inspector is not the pinned one.
LEMMA DumpStep ==
  ASSUME IInv, NEW p \in Procs, Dump(p)
  PROVE  Own(p) /\ UNCHANGED stores
<1>1. DiskInv /\ StoreInv /\ Locals /\ ProcInv(p) BY DEF IInv
<1>2. PICK text \in IF ToolHolds THEN {Read(p)} ELSE Texts : meta' = [meta EXCEPT ![p] = text] BY Zenon DEF Dump
<1>3. /\ pc[p] = "dump" /\ UNCHANGED <<disk, tool, inspection>> /\ UNCHANGED stores /\ StoresMove
      /\ pc' = [pc EXCEPT ![p] = "dumped"]
      /\ UNCHANGED <<op, file, fd, ident, sum, parts, tainted>>
  BY StoresStill DEF Dump, At, Outside, Goto
<1>4. pc[p] \in Opened BY <1>3 DEF Opened
<1>5. Read(p) \in Texts /\ (Read(p) = history[ident[p]] \/ inodes[fd[p]] # ident[p]) BY <1>1, <1>4, ReadTells
<1>6. text \in Texts /\ (text = history[ident[p]] \/ inodes[fd[p]] # ident[p] \/ tool # "pinned")
  BY <1>2, <1>5 DEF ToolHolds
<1>7. /\ pc' \in [Procs -> Labels] /\ pc'[p] = "dumped" /\ meta' \in [Procs -> Sums] /\ meta'[p] = text
      /\ \A q \in Procs \ {p} : pc'[q] = pc[q] /\ meta'[q] = meta[q]
  BY <1>1, <1>2, <1>3, <1>6 DEF Locals, Labels, Opened, Sums
<1>8. Locals' /\ \A q \in Procs \ {p} : Same(q) BY <1>1, <1>3, <1>7 DEF Locals, Same
<1>9. IdleInv(p)' /\ OpenInv(p)' /\ PartsInv(p)' /\ LeaseInv(p)'
 <2>1. pc'[p] \in Opened /\ pc'[p] \notin Undumped BY <1>7 DEF Opened, Undumped
 <2> QED BY <1>1, <1>3, <1>4, <2>1, StillOpen
<1>10. SumInv(p)'
 <2>1. sum[p] = history[ident[p]] /\ (op[p] = "verify" => sum[p] = "good")
   BY <1>1, <1>3 DEF ProcInv, SumInv, Inspecting
 <2> QED BY <1>3, <1>7, <2>1 DEF SumInv, disk
<1>11. MetaInv(p)'
 <2>1. meta'[p] = history'[ident'[p]] \/ inodes'[fd'[p]] # ident'[p] \/ tool' # "pinned" BY <1>3, <1>6, <1>7 DEF disk
 <2> QED BY <1>6, <1>7, <2>1 DEF MetaInv
<1>12. pc'[p] \notin Locked /\ pc'[p] \notin {"hash", "hashed", "publish"} BY <1>7 DEF Locked
<1> QED BY <1>3, <1>8, <1>9, <1>10, <1>11, <1>12 DEF Own, ProcInv

\* A tool that holds after it was found changed was put back.
LEMMA ToolCheckedStep ==
  ASSUME IInv, NEW p \in Procs, ToolChecked(p)
  PROVE  Own(p) /\ UNCHANGED stores
<1>1. DiskInv /\ Locals /\ ProcInv(p) BY DEF IInv
<1>2. /\ pc[p] = "dumped" /\ UNCHANGED <<disk, tool, inspection>> /\ UNCHANGED stores /\ StoresMove
  BY StoresStill DEF ToolChecked, At, Outside
<1>3. CASE Leave(p) BY <1>1, <1>2, <1>3, Left
<1>4. CASE ToolHolds /\ Miss(p, "drift")
 <2>1. pc'[p] = "drift" /\ UNCHANGED <<fd, ident, meta>> BY <1>1, <1>4, Moved DEF Labels, Opened
 <2>2. tool = "pinned" \/ tool = "restored" BY <1>1, <1>4 DEF DiskInv, ToolHolds
 <2>3. /\ meta[p] \in Texts
       /\ meta[p] = history[ident[p]] \/ inodes[fd[p]] # ident[p] \/ tool # "pinned"
   BY <1>1, <1>2 DEF ProcInv, MetaInv
 <2>4. MetaInv(p)' BY <1>2, <2>1, <2>2, <2>3 DEF MetaInv, disk
 <2>5. pc[p] \in Inspecting /\ "drift" \in Inspecting /\ "drift" \notin Undumped BY <1>2 DEF Undumped, Inspecting
 <2> QED BY <1>2, <1>4, <2>4, <2>5, InspectMiss
<1> QED BY <1>2, <1>3, <1>4 DEF ToolChecked

\* The path names an inode that bears the identity: it is the open one.
LEMMA DriftCheckedStep ==
  ASSUME IInv, NEW p \in Procs, DriftChecked(p)
  PROVE  Own(p) /\ UNCHANGED stores
<1>1. DiskInv /\ Locals /\ ProcInv(p) BY DEF IInv
<1>2. /\ pc[p] = "drift" /\ UNCHANGED <<disk, tool, inspection>> /\ UNCHANGED stores /\ StoresMove
  BY StoresStill DEF DriftChecked, At, Outside
<1>3. CASE Leave(p) BY <1>1, <1>2, <1>3, Left
<1>4. CASE NotDrifted(p) /\ Miss(p, "store")
 <2>1. pc'[p] = "store" /\ UNCHANGED <<fd, ident, meta>> BY <1>1, <1>4, Moved DEF Labels, Opened
 <2>2. inodes[fd[p]] = ident[p]
  <3>1. link[file[p]] \in DOMAIN inodes /\ inodes[link[file[p]]] = ident[p]
    BY <1>1, <1>4 DEF NotDrifted, DiskInv, Locals
  <3>2. \A i \in DOMAIN inodes : inodes[i] = ident[p] => i = fd[p] BY <1>1, <1>2 DEF ProcInv, OpenInv, Opened
  <3> QED BY <3>1, <3>2
 <2>3. meta[p] \in Texts /\ (meta[p] = history[ident[p]] \/ tool = "restored") BY <1>1, <1>2, <2>2 DEF ProcInv, MetaInv
 <2>4. MetaInv(p)' BY <1>2, <2>1, <2>3 DEF MetaInv, disk
 <2>5. pc[p] \in Inspecting /\ "store" \in Inspecting /\ "store" \notin Undumped BY <1>2 DEF Undumped, Inspecting
 <2> QED BY <1>2, <1>4, <2>4, <2>5, InspectMiss
<1> QED BY <1>2, <1>3, <1>4 DEF DriftChecked

\* The metadata of the dump is stored under the digest.
LEMMA StoreMetadataStep ==
  ASSUME IInv, NEW p \in Procs, StoreMetadata(p)
  PROVE  /\ Own(p) /\ StoresMove /\ meta[p] \in Texts
<1>1. DiskInv /\ Locals /\ ProcInv(p) BY DEF IInv
<1>2. /\ pc[p] = "store" /\ UNCHANGED <<disk, tool, inspection>> /\ UNCHANGED <<cache, receipts, returned>>
      /\ registry' = registry \cup {meta[p]} /\ Miss(p, "sync_metadata")
      /\ unsynced' = unsynced \cup ({<<"metadata", meta[p]>>} \ {<<"metadata", t>> : t \in registry})
  BY DEF StoreMetadata, At, Outside
<1>3. StoresMove
 <2>1. \A t \in registry : <<"metadata", t>> \notin unsynced => <<"metadata", t>> \notin unsynced' BY <1>2
 <2> QED BY <1>2, <2>1 DEF StoresMove
<1>4. pc'[p] = "sync_metadata" /\ UNCHANGED <<fd, ident, meta>> BY <1>1, <1>2, Moved DEF Labels, Opened
<1>5. meta[p] \in Texts /\ (meta[p] = history[ident[p]] \/ tool = "restored") BY <1>1, <1>2 DEF ProcInv, MetaInv
<1>6. MetaInv(p)'
 <2>1. meta'[p] \in registry' BY <1>2, <1>4
 <2> QED BY <1>2, <1>4, <1>5, <2>1 DEF MetaInv, disk
<1>7. pc[p] \in Inspecting /\ "sync_metadata" \in Inspecting /\ "sync_metadata" \notin Undumped
  BY <1>2 DEF Undumped, Inspecting
<1> QED BY <1>2, <1>3, <1>5, <1>6, <1>7, InspectMiss

\* The metadata is durable.
LEMMA SyncMetadataStep ==
  ASSUME IInv, NEW p \in Procs, SyncMetadata(p)
  PROVE  Own(p) /\ StoresMove
<1>1. DiskInv /\ StoreInv /\ Locals /\ ProcInv(p) BY DEF IInv
<1>2. /\ pc[p] = "sync_metadata" /\ UNCHANGED <<disk, tool, inspection>>
      /\ UNCHANGED <<cache, registry, receipts, returned>> /\ unsynced' = Flushed("metadata")
      /\ Accepted(p, sum[p])
  BY DEF SyncMetadata, At, Outside
<1>3. StoresMove BY <1>2, FlushMoves
<1>4. pc[p] \in Opened /\ pc[p] \in Inspecting BY <1>2 DEF Opened, Inspecting
<1>5. sum[p] = history[ident[p]] /\ sum[p] \in Texts /\ (op[p] = "verify" => sum[p] = "good")
  BY <1>1, <1>2, <1>4 DEF ProcInv, SumInv, OpenInv, DiskInv
<1>6. (meta[p] = sum[p] \/ tool = "restored") /\ meta[p] \in registry BY <1>1, <1>2, <1>5 DEF ProcInv, MetaInv
<1>7. <<"metadata", meta[p]>> \notin unsynced' BY <1>2 DEF Flushed
<1> QED BY <1>1, <1>2, <1>3, <1>4, <1>5, <1>6, <1>7, AcceptedStep

\* The receipt is of the digest and the metadata the process has.
LEMMA PublishReceiptStep ==
  ASSUME IInv, NEW p \in Procs, PublishReceipt(p)
  PROVE  /\ Own(p) /\ StoresMove
         /\ \/ UNCHANGED stores
            \/ /\ pc[p] = "receipt" /\ receipts' = receipts \cup {parts[p]}
               /\ unsynced' = unsynced \cup ({<<"receipt", parts[p]>>} \ {<<"receipt", r>> : r \in receipts})
               /\ UNCHANGED <<cache, registry, returned>>
<1>1. DiskInv /\ Locals /\ ProcInv(p) BY DEF IInv
<1>2. /\ pc[p] = "receipt" /\ UNCHANGED <<disk, tool, inspection>>
      /\ UNCHANGED <<cache, registry, returned>>
  BY DEF PublishReceipt, At, Outside
<1>3. CASE Leave(p) /\ UNCHANGED <<receipts, unsynced>>
 <2>1. UNCHANGED stores BY <1>2, <1>3 DEF stores
 <2> QED BY <1>1, <1>3, <2>1, Left, StoresStill
<1>4. CASE /\ receipts' = receipts \cup {parts[p]}
           /\ unsynced' = unsynced \cup ({<<"receipt", parts[p]>>} \ {<<"receipt", r>> : r \in receipts})
           /\ Miss(p, "sync_receipt")
 <2>1. StoresMove BY <1>2, <1>4 DEF StoresMove
 <2>2. /\ Locals' /\ \A q \in Procs \ {p} : Same(q)
       /\ pc'[p] = "sync_receipt" /\ UNCHANGED <<op, file, fd, ident, sum, meta, parts, tainted>>
   BY <1>1, <1>4, Moved DEF Labels
 <2>3. PartsInv(p)'
  <3>1. \A f \in Files : Good(parts[p][f], f) /\ Stored(parts[p][f].meta) BY <1>1, <1>2 DEF ProcInv, PartsInv
  <3>2. \A f \in Files : Good(parts[p][f], f)' BY <1>2, <2>2, <3>1 DEF Good, disk
  <3>3. \A f \in Files : Stored(parts[p][f].meta)' BY <2>1, <2>2, <3>1, StoredStays DEF Stored
  <3>4. parts'[p] \in receipts' BY <1>4, <2>2
  <3> QED BY <3>2, <3>3, <3>4 DEF PartsInv
 <2>4. IdleInv(p)' /\ OpenInv(p)' /\ SumInv(p)' /\ MetaInv(p)' /\ LeaseInv(p)'
  <3>1. ~tainted[p] /\ (fd[p] = 0 \/ fd[p] \in DOMAIN inodes) BY <1>1, <1>2 DEF ProcInv, IdleInv, OpenInv
  <3>2. IdleInv(p)' /\ SumInv(p)' /\ MetaInv(p)' /\ LeaseInv(p)'
    BY <2>2, <3>1 DEF IdleInv, SumInv, MetaInv, LeaseInv, Inspecting
  <3>3. OpenInv(p)' BY <1>2, <2>2, <3>1 DEF OpenInv, Opened, Undumped, disk
  <3> QED BY <3>2, <3>3
 <2> QED BY <1>2, <1>4, <2>1, <2>2, <2>3, <2>4 DEF Own, ProcInv, Locked
<1> QED BY <1>3, <1>4 DEF PublishReceipt

\* The receipt is durable, and the operation is done.
LEMMA SyncReceiptStep ==
  ASSUME IInv, NEW p \in Procs, SyncReceipt(p)
  PROVE  Own(p) /\ StoresMove /\ parts[p] \in receipts
<1>1. Locals /\ ProcInv(p) /\ Leave(p) /\ pc[p] = "sync_receipt" BY DEF IInv, SyncReceipt, At
<1>2. StoresMove BY FlushMoves DEF SyncReceipt
<1>3. parts[p] \in receipts BY <1>1 DEF ProcInv, PartsInv
<1> QED BY <1>1, <1>2, <1>3, Left

\* Who asks for a lease has what the receipt says, and nothing else.
LEMMA RequireStep ==
  ASSUME IInv, NEW p \in Procs, Require(p)
  PROVE  Own(p) /\ UNCHANGED stores
<1>1. StoreInv /\ Locals /\ ProcInv(p) BY DEF IInv
<1>2. PICK r \in receipts : parts' = [parts EXCEPT ![p] = r] BY Zenon DEF Require
<1>3. /\ pc[p] = "idle" /\ UNCHANGED <<disk, tool, inspection>> /\ UNCHANGED stores
      /\ pc' = [pc EXCEPT ![p] = "bind"] /\ op' = [op EXCEPT ![p] = "lease"]
      /\ UNCHANGED <<file, fd, ident, sum, meta, tainted>>
  BY DEF Require, At, Outside, Goto
<1>4. r \in [Files -> Parts] /\ \A f \in Files : Good(r[f], f) BY <1>1 DEF StoreInv
<1>5. /\ pc' \in [Procs -> Labels] /\ pc'[p] = "bind" /\ op' \in [Procs -> Ops] /\ op'[p] = "lease"
      /\ parts' \in [Procs -> [Files -> Parts]] /\ parts'[p] = r
      /\ \A q \in Procs \ {p} : pc'[q] = pc[q] /\ op'[q] = op[q] /\ parts'[q] = parts[q]
  BY <1>1, <1>2, <1>3, <1>4 DEF Locals, Labels, Ops
<1>6. Locals' /\ \A q \in Procs \ {p} : Same(q) BY <1>1, <1>3, <1>5 DEF Locals, Same
<1>7. fd[p] = 0 /\ ~tainted[p] BY <1>1, <1>3 DEF ProcInv, IdleInv
<1>8. PartsInv(p)'
 <2>1. \A f \in Files : Good(parts[p][f], f)' BY <1>3, <1>4, <1>5 DEF Good, disk
 <2> QED BY <1>5, <2>1 DEF PartsInv
<1>9. IdleInv(p)' /\ OpenInv(p)' /\ SumInv(p)' /\ MetaInv(p)' /\ LeaseInv(p)'
  BY <1>3, <1>5, <1>7 DEF IdleInv, OpenInv, SumInv, MetaInv, LeaseInv, Opened, Undumped, Inspecting
<1> QED BY <1>3, <1>5, <1>6, <1>8, <1>9 DEF Own, ProcInv, Locked

\* The descriptor of a lease is of the inode that bears the identity of the receipt.
LEMMA BindStep ==
  ASSUME IInv, NEW p \in Procs, Bind(p)
  PROVE  Own(p) /\ UNCHANGED stores
<1>1. DiskInv /\ Locals /\ ProcInv(p) BY DEF IInv
<1>2. pc[p] = "bind" /\ UNCHANGED <<disk, tool, inspection>> /\ UNCHANGED stores BY DEF Bind, At, Outside
<1>3. CASE Leave(p) BY <1>1, <1>2, <1>3, Left
<1> DEFINE i == link["primary"]
<1>4. CASE /\ Current(parts[p], "primary")
           /\ fd' = [fd EXCEPT ![p] = i] /\ ident' = [ident EXCEPT ![p] = inodes[i]]
           /\ pc' = [pc EXCEPT ![p] = "leased"]
           /\ UNCHANGED <<op, file, sum, meta, parts, tainted>>
 <2>1. /\ i \in DOMAIN inodes /\ i \in Nat /\ inodes[i] \in DOMAIN history
       /\ inodes[i] = parts[p]["primary"].stamp
   BY <1>1, <1>4 DEF DiskInv, Files, Current
 <2>2. inodes[i] \in Stamps BY <1>1, <2>1, StampsBorne
 <2> HIDE DEF i
 <2>3. /\ pc' \in [Procs -> Labels] /\ fd' \in [Procs -> Nat] /\ ident' \in [Procs -> Stamps]
       /\ pc'[p] = "leased" /\ fd'[p] = i /\ ident'[p] = inodes[i]
   BY <1>1, <1>4, <2>1, <2>2 DEF Locals, Labels
 <2>4. Locals' /\ \A q \in Procs \ {p} : Same(q) BY <1>1, <1>4, <2>3 DEF Locals, Same
 <2>5. ~tainted[p] /\ \A f \in Files : Good(parts[p][f], f) BY <1>1, <1>2 DEF ProcInv, IdleInv, PartsInv
 <2>6. \A f \in Files : Good(parts[p][f], f)' BY <1>2, <1>4, <2>5 DEF Good, disk
 <2>7. LeaseInv(p)'
  <3>1. fd'[p] \in DOMAIN inodes' /\ ident'[p] = parts'[p]["primary"].stamp /\ ~tainted'[p]
    BY <1>2, <1>4, <2>1, <2>3, <2>5 DEF disk
  <3> QED BY <3>1 DEF LeaseInv
 <2>8. IdleInv(p)' /\ SumInv(p)' /\ MetaInv(p)' /\ PartsInv(p)'
   BY <2>3, <2>6 DEF IdleInv, SumInv, MetaInv, PartsInv, Inspecting
 <2>9. OpenInv(p)' BY <1>2, <2>1, <2>3 DEF OpenInv, Opened, Undumped, disk
 <2> QED BY <1>2, <2>3, <2>4, <2>7, <2>8, <2>9 DEF Own, ProcInv, Locked
<1> QED BY <1>2, <1>3, <1>4 DEF Bind, Goto, StableIdentity

\* Who reads other bytes than the receipt's reads them where an identity has moved.
LEMMA UseStep ==
  ASSUME IInv, NEW p \in Procs, NEW f \in Files, Use(p, f)
  PROVE  Own(p) /\ UNCHANGED stores
<1>1. DiskInv /\ Locals /\ ProcInv(p) BY DEF IInv
<1> DEFINE text == IF f = "primary" THEN Read(p) ELSE history[inodes[link[f]]]
<1>2. /\ pc[p] = "leased" /\ UNCHANGED <<disk, tool, inspection>> /\ UNCHANGED stores
      /\ tainted' = [tainted EXCEPT ![p] = @ \/ text # parts[p][f].text]
      /\ UNCHANGED <<pc, op, file, fd, ident, sum, meta, parts>>
  BY DEF Use, At, Outside
<1>3. /\ fd[p] \in DOMAIN inodes /\ ident[p] = parts[p]["primary"].stamp
      /\ tainted[p] => inodes[fd[p]] # ident[p] \/ \E g \in Files : ~Current(parts[p], g)
  BY <1>1, <1>2 DEF ProcInv, LeaseInv
<1>4. parts[p][f].text = "good" /\ history[parts[p][f].stamp] = "good" BY <1>1, <1>2 DEF ProcInv, PartsInv, Good
<1>5. text # parts[p][f].text => inodes[fd[p]] # ident[p] \/ ~Current(parts[p], f)
 <2>1. CASE f = "primary" BY <1>3, <1>4, <2>1 DEF Read
 <2>2. CASE f # "primary" BY <1>4, <2>2 DEF Current
 <2> QED BY <2>1, <2>2
<1> HIDE DEF text
<1>6. /\ tainted' \in [Procs -> BOOLEAN] /\ \A q \in Procs \ {p} : tainted'[q] = tainted[q]
      /\ tainted'[p] => tainted[p] \/ text # parts[p][f].text
  BY <1>1, <1>2 DEF Locals
<1>7. Locals' /\ \A q \in Procs \ {p} : Same(q) BY <1>1, <1>2, <1>6 DEF Locals, Same
<1>8. LeaseInv(p)'
 <2>1. tainted'[p] => inodes[fd[p]] # ident[p] \/ \E g \in Files : ~Current(parts[p], g) BY <1>3, <1>5, <1>6
 <2> QED BY <1>2, <1>3, <2>1 DEF LeaseInv, Current, disk
<1>9. IdleInv(p)' /\ SumInv(p)' /\ MetaInv(p)' BY <1>2 DEF IdleInv, SumInv, MetaInv, Inspecting
<1>10. PartsInv(p)'
 <2>1. \A g \in Files : Good(parts[p][g], g) BY <1>1, <1>2 DEF ProcInv, PartsInv
 <2>2. \A g \in Files : Good(parts[p][g], g)' BY <1>2, <2>1 DEF Good, disk
 <2> QED BY <1>2, <2>2 DEF PartsInv
<1>11. OpenInv(p)' BY <1>2, <1>3 DEF OpenInv, Opened, Undumped, disk
<1> QED BY <1>2, <1>7, <1>8, <1>9, <1>10, <1>11 DEF Own, ProcInv, Locked

\* Whatever an actor does, it alone moves, and the stores lose nothing.
LEMMA ActorOwn ==
  ASSUME IInv, NEW p \in Procs, Verify(p) \/ Observe(p) \/ Require(p) \/ Step(p) \/ Fail(p)
                                \/ (\E f \in Files : Use(p, f))
  PROVE  Own(p) /\ StoresMove
<1>1. Locals BY DEF IInv
<1>2. CASE TimeOut(p) \/ EndLease(p) \/ LeaseRefused(p) \/ Fail(p)
 <2>1. Leave(p) /\ UNCHANGED stores BY <1>2 DEF TimeOut, EndLease, LeaseRefused, Fail
 <2> QED BY <1>1, <2>1, Left, StoresStill
<1>3. CASE Verify(p) \/ Observe(p) \/ Require(p) \/ Open(p) \/ Lookup(p) \/ Acquire(p) \/ Recheck(p)
           \/ Hash(p) \/ HashChecked(p) \/ StartInspector(p) \/ Dump(p) \/ ToolChecked(p)
           \/ DriftChecked(p) \/ Bind(p) \/ (\E f \in Files : Use(p, f))
 <2>1. Verify(p) \/ Observe(p) => Own(p) /\ UNCHANGED stores BY BeginStep DEF Verify, Observe
 <2>2. Own(p) /\ UNCHANGED stores
   BY <1>3, <2>1, RequireStep, OpenStep, LookupStep, AcquireStep, RecheckStep, HashStep, HashCheckedStep,
     StartInspectorStep, DumpStep, ToolCheckedStep, DriftCheckedStep, BindStep, UseStep
 <2> QED BY <2>2, StoresStill
<1>4. CASE PublishHash(p) \/ SyncHash(p) \/ StoreMetadata(p) \/ SyncMetadata(p)
           \/ PublishReceipt(p) \/ SyncReceipt(p)
  BY <1>4, PublishHashStep, SyncHashStep, StoreMetadataStep, SyncMetadataStep, PublishReceiptStep, SyncReceiptStep
<1> QED BY <1>2, <1>3, <1>4 DEF Step

----------------------------------------
(* The stores *)

\* What a record or a receipt says of the past stays true whatever happens to the disk.
LEMMA ToldStays ==
  ASSUME StoreInv, DiskMoves
  PROVE  /\ \A c \in cache : c.stamp \in DOMAIN history' /\ c.text = history'[c.stamp]
         /\ \A r \in receipts, f \in Files : Good(r[f], f)'
<1>1. \A c \in cache : c.stamp \in DOMAIN history' /\ c.text = history'[c.stamp] BY DEF StoreInv, DiskMoves
<1>2. \A r \in receipts, f \in Files : Good(r[f], f)'
 <2> SUFFICES ASSUME NEW r \in receipts, NEW f \in Files
              PROVE  Good(r[f], f)'
   OBVIOUS
 <2>1. Good(r[f], f) BY DEF StoreInv
 <2> QED BY <2>1, GoodStays DEF Good
<1> QED BY <1>1, <1>2

\* Steps that store nothing
LEMMA StoreKept ==
  ASSUME StoreInv, DiskMoves, UNCHANGED <<cache, registry, receipts, returned>>, unsynced' \subseteq unsynced
  PROVE  StoreInv'
<1>1. \A r \in receipts, f \in Files : Stored(r[f].meta)' BY DEF StoreInv, Stored
<1>2. \A r \in returned : <<"receipt", r>> \notin unsynced' BY DEF StoreInv
<1>3. /\ \A c \in cache' : /\ c \in [file : Files, stamp : Stamps, text : Texts]
                           /\ c.stamp \in DOMAIN history' /\ c.text = history'[c.stamp]
      /\ \A c, d \in cache' : c.file = d.file /\ c.stamp = d.stamp => c = d
  BY ToldStays DEF StoreInv
<1>4. \A r \in receipts', f \in Files : Good(r[f], f)' /\ Stored(r[f].meta)' BY <1>1, ToldStays
<1>5. unsynced' \subseteq ({"hash"} \X cache') \cup ({"metadata"} \X registry') \cup ({"receipt"} \X receipts')
  BY DEF StoreInv
<1> QED BY <1>2, <1>3, <1>4, <1>5 DEF StoreInv

\* A record is added only under a key that has none.
LEMMA HashStored ==
  ASSUME IInv, NEW p \in Procs, DiskMoves, UNCHANGED disk, pc[p] = "publish",
         cache' = cache \cup {Record(p)},
         unsynced' \subseteq unsynced \cup {<<"hash", Record(p)>>}, UNCHANGED <<registry, receipts, returned>>
  PROVE  StoreInv'
<1> DEFINE rec == Record(p)
<1>1. DiskInv /\ StoreInv /\ Locals /\ ProcInv(p) /\ LockInv BY DEF IInv
<1>2. /\ rec.file = file[p] /\ rec.stamp = ident[p] /\ rec.text = sum[p] /\ sum[p] = history[ident[p]]
      /\ ident[p] \in DOMAIN history /\ file[p] \in Files /\ ident[p] \in Stamps /\ sum[p] \in Texts
  BY <1>1 DEF Record, ProcInv, SumInv, OpenInv, Opened, Locals, DiskInv
<1>3. rec \in [file : Files, stamp : Stamps, text : Texts] BY <1>2 DEF Record
<1>4. \A c \in cache : ~(c.file = file[p] /\ c.stamp = ident[p]) BY <1>1 DEF LockInv, Cached, Key
<1> HIDE DEF rec
<1>5. cache' = cache \cup {rec} BY DEF rec
<1>6. /\ \A c \in cache' : /\ c \in [file : Files, stamp : Stamps, text : Texts]
                           /\ c.stamp \in DOMAIN history' /\ c.text = history'[c.stamp]
      /\ \A c, d \in cache' : c.file = d.file /\ c.stamp = d.stamp => c = d
 <2>1. rec.stamp \in DOMAIN history' /\ rec.text = history'[rec.stamp] BY <1>2 DEF disk
 <2>2. \A c \in cache' : /\ c \in [file : Files, stamp : Stamps, text : Texts]
                         /\ c.stamp \in DOMAIN history' /\ c.text = history'[c.stamp]
   BY <1>1, <1>3, <1>5, <2>1, ToldStays DEF StoreInv
 <2>3. \A c, d \in cache' : c.file = d.file /\ c.stamp = d.stamp => c = d BY <1>1, <1>2, <1>4, <1>5 DEF StoreInv
 <2> QED BY <2>2, <2>3
<1>7. \A r \in receipts', f \in Files : Good(r[f], f)' /\ Stored(r[f].meta)'
 <2>1. \A r \in receipts, f \in Files : Stored(r[f].meta)' BY <1>1 DEF StoreInv, Stored
 <2> QED BY <1>1, <2>1, ToldStays
<1>8. /\ returned' \subseteq receipts' /\ registry' \subseteq Texts /\ receipts' \subseteq [Files -> Parts]
      /\ \A r \in returned' : <<"receipt", r>> \notin unsynced'
  BY <1>1 DEF StoreInv
<1>9. unsynced' \subseteq ({"hash"} \X cache') \cup ({"metadata"} \X registry') \cup ({"receipt"} \X receipts')
  BY <1>1 DEF StoreInv
<1> QED BY <1>6, <1>7, <1>8, <1>9 DEF StoreInv

\* Metadata that is stored is of the file the digest is of.
LEMMA MetadataStored ==
  ASSUME StoreInv, NEW p \in Procs, DiskMoves, StoresMove, StoreMetadata(p), meta[p] \in Texts
  PROVE  StoreInv'
<1>1. /\ UNCHANGED <<cache, receipts, returned>> /\ registry' = registry \cup {meta[p]}
      /\ unsynced' \subseteq unsynced \cup {<<"metadata", meta[p]>>}
  BY DEF StoreMetadata
<1>2. \A r \in receipts, f \in Files : Stored(r[f].meta)' BY <1>1, StoredStays DEF StoreInv, Stored
<1>3. /\ \A c \in cache' : /\ c \in [file : Files, stamp : Stamps, text : Texts]
                           /\ c.stamp \in DOMAIN history' /\ c.text = history'[c.stamp]
      /\ \A c, d \in cache' : c.file = d.file /\ c.stamp = d.stamp => c = d
  BY <1>1, ToldStays DEF StoreInv
<1>4. \A r \in receipts', f \in Files : Good(r[f], f)' /\ Stored(r[f].meta)' BY <1>1, <1>2, ToldStays
<1>5. /\ returned' \subseteq receipts' /\ registry' \subseteq Texts /\ receipts' \subseteq [Files -> Parts]
      /\ \A r \in returned' : <<"receipt", r>> \notin unsynced'
  BY <1>1 DEF StoreInv
<1>6. unsynced' \subseteq ({"hash"} \X cache') \cup ({"metadata"} \X registry') \cup ({"receipt"} \X receipts')
  BY <1>1 DEF StoreInv
<1> QED BY <1>3, <1>4, <1>5, <1>6 DEF StoreInv

\* A receipt is stored when both its parts are good and their metadata durable.
LEMMA ReceiptStored ==
  ASSUME IInv, NEW p \in Procs, DiskMoves, StoresMove, pc[p] = "receipt",
         receipts' = receipts \cup {parts[p]},
         unsynced' = unsynced \cup ({<<"receipt", parts[p]>>} \ {<<"receipt", r>> : r \in receipts}),
         UNCHANGED <<cache, registry, returned>>
  PROVE  StoreInv'
<1>1. StoreInv /\ Locals /\ ProcInv(p) BY DEF IInv
<1> DEFINE new == parts[p]
<1>2. new \in [Files -> Parts] /\ \A f \in Files : Good(new[f], f) /\ Stored(new[f].meta)
  BY <1>1 DEF Locals, ProcInv, PartsInv
<1>3. /\ \A f \in Files : /\ new[f] \in Parts /\ new[f].stamp \in DOMAIN history' /\ new[f].text = "good"
                          /\ history'[new[f].stamp] = "good"
                          /\ \/ new[f].meta = "good" \/ tool' = "restored"
                             \/ f = "sidecar" /\ inspection' = "hash-only" /\ new[f].meta = "none"
      /\ \A f \in Files : \/ new[f].meta = "none"
                          \/ new[f].meta \in registry' /\ <<"metadata", new[f].meta>> \notin unsynced'
  BY <1>2, GoodStays, StoredStays
<1>4. receipts' = receipts \cup {new} /\ unsynced' \subseteq unsynced \cup {<<"receipt", new>>} OBVIOUS
<1>5. \A r \in returned : <<"receipt", r>> \notin unsynced'
 <2>1. \A r \in returned : r \in receipts /\ <<"receipt", r>> \notin unsynced BY <1>1 DEF StoreInv
 <2> QED BY <2>1
<1> HIDE DEF new
<1>6. \A r \in receipts', f \in Files : Good(r[f], f)' /\ Stored(r[f].meta)'
 <2> SUFFICES ASSUME NEW r \in receipts', NEW f \in Files
              PROVE  Good(r[f], f)' /\ Stored(r[f].meta)'
   OBVIOUS
 <2>1. CASE r = new
  <3>1. Good(r[f], f)' BY <1>3, <2>1 DEF Good
  <3>2. Stored(r[f].meta)' BY <1>3, <2>1 DEF Stored
  <3> QED BY <3>1, <3>2
 <2>2. CASE r \in receipts
  <3>1. Good(r[f], f) /\ Stored(r[f].meta) BY <1>1, <2>2 DEF StoreInv
  <3>2. Good(r[f], f)' BY <3>1, GoodStays DEF Good
  <3>3. Stored(r[f].meta)' BY <3>1, StoredStays DEF Stored
  <3> QED BY <3>2, <3>3
 <2> QED BY <1>4, <2>1, <2>2
<1>7. /\ \A c \in cache' : /\ c \in [file : Files, stamp : Stamps, text : Texts]
                           /\ c.stamp \in DOMAIN history' /\ c.text = history'[c.stamp]
      /\ \A c, d \in cache' : c.file = d.file /\ c.stamp = d.stamp => c = d
  BY <1>1, ToldStays DEF StoreInv
<1>8. returned' \subseteq receipts' /\ registry' \subseteq Texts /\ receipts' \subseteq [Files -> Parts]
  BY <1>1, <1>2, <1>4 DEF StoreInv
<1>9. unsynced' \subseteq ({"hash"} \X cache') \cup ({"metadata"} \X registry') \cup ({"receipt"} \X receipts')
  BY <1>1, <1>4 DEF StoreInv
<1> QED BY <1>5, <1>6, <1>7, <1>8, <1>9 DEF StoreInv

\* A receipt is returned once its name is durable.
LEMMA ReceiptReturned ==
  ASSUME StoreInv, NEW p \in Procs, DiskMoves, SyncReceipt(p), parts[p] \in receipts
  PROVE  StoreInv'
<1>1. /\ UNCHANGED <<cache, registry, receipts>> /\ unsynced' = Flushed("receipt")
      /\ returned' = returned \cup {parts[p]}
  BY DEF SyncReceipt
<1>2. unsynced' \subseteq unsynced /\ \A r : <<"receipt", r>> \notin unsynced' BY <1>1 DEF Flushed
<1>3. \A r \in receipts, f \in Files : Stored(r[f].meta)' BY <1>1, <1>2 DEF StoreInv, Stored
<1>4. /\ \A c \in cache' : /\ c \in [file : Files, stamp : Stamps, text : Texts]
                           /\ c.stamp \in DOMAIN history' /\ c.text = history'[c.stamp]
      /\ \A c, d \in cache' : c.file = d.file /\ c.stamp = d.stamp => c = d
  BY <1>1, ToldStays DEF StoreInv
<1>5. \A r \in receipts', f \in Files : Good(r[f], f)' /\ Stored(r[f].meta)' BY <1>1, <1>3, ToldStays
<1>6. /\ returned' \subseteq receipts' /\ registry' \subseteq Texts /\ receipts' \subseteq [Files -> Parts]
      /\ \A r \in returned' : <<"receipt", r>> \notin unsynced'
  BY <1>1, <1>2 DEF StoreInv
<1>7. unsynced' \subseteq ({"hash"} \X cache') \cup ({"metadata"} \X registry') \cup ({"receipt"} \X receipts')
  BY <1>1, <1>2 DEF StoreInv
<1> QED BY <1>4, <1>5, <1>6, <1>7 DEF StoreInv

\* A power failure takes only names that no fsync made durable.
LEMMA PowerStored ==
  ASSUME StoreInv, DiskMoves, PowerLoss
  PROVE  StoreInv'
<1>1. PICK lost \in SUBSET unsynced :
        /\ cache' = {c \in cache : <<"hash", c>> \notin lost}
        /\ registry' = {t \in registry : <<"metadata", t>> \notin lost}
        /\ receipts' = {r \in receipts : <<"receipt", r>> \notin lost}
  BY Zenon DEF PowerLoss
<1>2. unsynced' = {} /\ returned' = returned BY DEF PowerLoss
<1>3. /\ \A c \in cache' : /\ c \in [file : Files, stamp : Stamps, text : Texts]
                           /\ c.stamp \in DOMAIN history' /\ c.text = history'[c.stamp]
      /\ \A c, d \in cache' : c.file = d.file /\ c.stamp = d.stamp => c = d
  BY <1>1, ToldStays DEF StoreInv
<1>4. \A r \in receipts', f \in Files : Good(r[f], f)' /\ Stored(r[f].meta)'
 <2> SUFFICES ASSUME NEW r \in receipts', NEW f \in Files
              PROVE  Good(r[f], f)' /\ Stored(r[f].meta)'
   OBVIOUS
 <2>1. r \in receipts BY <1>1
 <2>2. Stored(r[f].meta) BY <2>1 DEF StoreInv
 <2>3. Stored(r[f].meta)' BY <1>1, <1>2, <2>2 DEF Stored
 <2> QED BY <2>1, <2>3, ToldStays
<1>5. returned' \subseteq receipts' BY <1>1, <1>2 DEF StoreInv
<1>6. registry' \subseteq Texts /\ receipts' \subseteq [Files -> Parts] BY <1>1 DEF StoreInv
<1> QED BY <1>2, <1>3, <1>4, <1>5, <1>6 DEF StoreInv

\* Every step keeps the stores true, good and durable.
LEMMA StoreStep ==
  ASSUME IInv, [Next]_vars
  PROVE  StoreInv'
<1>1. DiskInv /\ StoreInv /\ DiskMoves BY DiskStep DEF IInv
<1>2. CASE UNCHANGED stores BY <1>1, <1>2, StoreKept DEF stores
<1>3. ASSUME NEW p \in Procs, PublishHash(p) PROVE StoreInv'
  BY <1>1, <1>2, <1>3, PublishHashStep, HashStored DEF PublishHash, Outside
<1>4. ASSUME NEW p \in Procs, SyncHash(p) \/ SyncMetadata(p) PROVE StoreInv'
  BY <1>1, <1>4, StoreKept DEF SyncHash, SyncMetadata, Flushed
<1>5. ASSUME NEW p \in Procs, StoreMetadata(p) PROVE StoreInv' BY <1>1, <1>5, StoreMetadataStep, MetadataStored
<1>6. ASSUME NEW p \in Procs, PublishReceipt(p) PROVE StoreInv' BY <1>1, <1>2, <1>6, PublishReceiptStep, ReceiptStored
<1>7. ASSUME NEW p \in Procs, SyncReceipt(p) PROVE StoreInv' BY <1>1, <1>7, SyncReceiptStep, ReceiptReturned
<1>8. CASE PowerLoss BY <1>1, <1>8, PowerStored
<1>9. ASSUME NEW p \in Procs, Verify(p) \/ Observe(p) \/ Require(p) \/ Step(p) \/ Fail(p)
      PROVE  StoreInv'
 <2>1. CASE Verify(p) \/ Observe(p) \/ Require(p) \/ Fail(p) BY <1>2, <2>1 DEF Verify, Observe, Begin, Require, Fail
 <2>2. CASE Open(p) \/ Lookup(p) \/ Acquire(p) \/ TimeOut(p) \/ Recheck(p) \/ Hash(p) \/ HashChecked(p)
   BY <1>2, <2>2 DEF Open, Lookup, Acquire, TimeOut, Recheck, Hash, HashChecked
 <2>3. CASE StartInspector(p) \/ Dump(p) \/ ToolChecked(p) \/ DriftChecked(p) \/ Bind(p) \/ EndLease(p)
            \/ LeaseRefused(p)
   BY <1>2, <2>3 DEF StartInspector, Dump, ToolChecked, DriftChecked, Bind, EndLease, LeaseRefused
 <2> QED BY <1>3, <1>4, <1>5, <1>6, <1>7, <1>9, <2>1, <2>2, <2>3 DEF Step
<1>10. ASSUME NEW p \in Procs, NEW f \in Files, Use(p, f) PROVE StoreInv' BY <1>2, <1>10 DEF Use
<1>11. ASSUME NEW f \in Files, NEW text \in Texts, Edit(f, text) \/ Replace(f, text) PROVE StoreInv'
  BY <1>2, <1>11 DEF Edit, Replace
<1>12. CASE ToolMoves BY <1>2, <1>12 DEF ToolMoves
<1>13. CASE UNCHANGED vars BY <1>2, <1>13 DEF vars
<1> QED BY <1>8, <1>9, <1>10, <1>11, <1>12, <1>13 DEF Next

----------------------------------------
(* The lock *)

\* A step of p keeps the lock of every key with one holder, who finds nothing cached.
LEMMA LockStep ==
  ASSUME IInv, NEW p \in Procs, Own(p), cache' \subseteq cache \/ PublishHash(p)
  PROVE  LockInv'
<1>1. LockInv /\ Locals /\ Locals' /\ \A q \in Procs \ {p} : Same(q) BY DEF IInv, Own
<1>2. \A q \in Procs \ {p} : pc'[q] = pc[q] /\ ident'[q] = ident[q] /\ file'[q] = file[q] BY <1>1 DEF Same
<1>3. pc'[p] \in Locked => /\ ident'[p] = ident[p] /\ file'[p] = file[p]
                           /\ pc[p] \in Locked \/ ~Contended(p)
  BY DEF Own
<1>4. \A q \in Procs : pc'[q] \in Locked => Key(q)' = Key(q) BY <1>2, <1>3 DEF Key
<1>5. \A q \in Procs \ {p} : pc'[p] \in Locked /\ pc'[q] \in Locked => Key(p)' # Key(q)'
 <2> SUFFICES ASSUME NEW q \in Procs \ {p}, pc'[p] \in Locked, pc'[q] \in Locked
              PROVE  Key(p) # Key(q)
   BY <1>4
 <2>1. pc[q] \in Locked BY <1>2
 <2>2. CASE pc[p] \in Locked BY <1>1, <2>1, <2>2 DEF LockInv
 <2>3. CASE ~Contended(p) BY <2>1, <2>3 DEF Contended
 <2> QED BY <1>3, <2>2, <2>3
<1>6. \A q, r \in Procs : q # r /\ pc'[q] \in Locked /\ pc'[r] \in Locked => Key(q)' # Key(r)'
 <2> SUFFICES ASSUME NEW q \in Procs, NEW r \in Procs, q # r, pc'[q] \in Locked, pc'[r] \in Locked
              PROVE  Key(q)' # Key(r)'
   OBVIOUS
 <2>1. CASE q = p \/ r = p BY <1>5, <2>1
 <2>2. CASE q # p /\ r # p
  <3>1. pc[q] \in Locked /\ pc[r] \in Locked /\ Key(q) # Key(r) BY <1>1, <1>2, <2>2 DEF LockInv
  <3> QED BY <1>4, <3>1
 <2> QED BY <2>1, <2>2
<1>7. \A q \in Procs : pc'[q] \in {"hash", "hashed", "publish"} => Cached(Key(q))' = {}
 <2> SUFFICES ASSUME NEW q \in Procs, pc'[q] \in {"hash", "hashed", "publish"}
              PROVE  Cached(Key(q))' = {}
   OBVIOUS
 <2>1. Key(q)' = Key(q) /\ pc'[q] \in Locked BY <1>4 DEF Locked
 <2>2. Cached(Key(q)) = {} BY <1>1, <1>2 DEF LockInv, Own
 <2>3. ident'[q] = ident[q] /\ file'[q] = file[q] BY <1>2, <1>3, <2>1
 <2>4. CASE cache' \subseteq cache BY <2>2, <2>3, <2>4 DEF Cached, Key
 <2>5. CASE PublishHash(p) /\ ~(cache' \subseteq cache)
  <3>1. pc[p] = "publish" /\ cache' = cache \cup {Record(p)} /\ Miss(p, "sync_hash") BY <2>5 DEF PublishHash, At
  <3>2. pc'[p] = "sync_hash" BY <1>1, <3>1, Moved DEF Labels, Opened
  <3>3. q # p /\ pc[p] \in Locked /\ pc[q] \in Locked BY <1>2, <2>1, <3>1, <3>2 DEF Locked
  <3>4. Key(q) # Key(p) BY <1>1, <3>3 DEF LockInv
  <3>5. Record(p).file = file[p] /\ Record(p).stamp = ident[p] BY DEF Record
  <3>6. ~(file[q] = file[p] /\ ident[q] = ident[p]) BY <3>4 DEF Key
  <3> QED BY <2>2, <2>3, <3>1, <3>5, <3>6 DEF Cached, Key
 <2> QED BY <2>4, <2>5
<1> QED BY <1>6, <1>7 DEF LockInv

----------------------------------------
(* Every step *)

\* Only a publication adds to the cache of digests.
LEMMA CacheGrows ==
  ASSUME NEW p \in Procs, Verify(p) \/ Observe(p) \/ Require(p) \/ Step(p) \/ Fail(p)
                          \/ (\E f \in Files : Use(p, f))
  PROVE  cache' \subseteq cache \/ PublishHash(p)
<1>1. CASE Verify(p) \/ Observe(p) \/ Require(p) \/ Fail(p) \/ (\E f \in Files : Use(p, f))
  BY <1>1 DEF Verify, Observe, Begin, Require, Fail, Use, stores
<1>2. CASE Open(p) \/ Lookup(p) \/ Acquire(p) \/ TimeOut(p) \/ Recheck(p) \/ Hash(p) \/ HashChecked(p)
           \/ PublishHash(p) \/ SyncHash(p)
  BY <1>2 DEF Open, Lookup, Acquire, TimeOut, Recheck, Hash, HashChecked, SyncHash, stores
<1>3. CASE StartInspector(p) \/ Dump(p) \/ ToolChecked(p) \/ DriftChecked(p) \/ StoreMetadata(p)
           \/ SyncMetadata(p) \/ PublishReceipt(p) \/ SyncReceipt(p) \/ Bind(p) \/ EndLease(p)
           \/ LeaseRefused(p)
  BY <1>3 DEF StartInspector, Dump, ToolChecked, DriftChecked, StoreMetadata, SyncMetadata, PublishReceipt,
    SyncReceipt, Bind, EndLease, LeaseRefused, stores
<1> QED BY <1>1, <1>2, <1>3 DEF Step

\* A power failure leaves everyone with nothing.
LEMMA PowerProcs ==
  ASSUME PowerLoss
  PROVE  Locals' /\ LockInv' /\ \A p \in Procs : ProcInv(p)'
<1>1. /\ pc' = [p \in Procs |-> "idle"] /\ op' = [p \in Procs |-> "none"]
      /\ file' = [p \in Procs |-> "primary"] /\ fd' = [p \in Procs |-> 0]
      /\ ident' = [p \in Procs |-> 0] /\ sum' = [p \in Procs |-> "none"]
      /\ meta' = [p \in Procs |-> "none"] /\ parts' = [p \in Procs |-> NoParts]
      /\ tainted' = [p \in Procs |-> FALSE]
  BY DEF PowerLoss
<1>2. NoParts \in [Files -> Parts] /\ 0 \in Stamps BY BoundsAssumption DEF NoParts, NoPart, Parts, Stamps, Sums
<1>3. Locals' BY <1>1, <1>2 DEF Locals, Labels, Ops, Files, Sums
<1>4. LockInv' BY <1>1 DEF LockInv, Locked
<1>5. \A p \in Procs : ProcInv(p)'
  BY <1>1 DEF ProcInv, IdleInv, OpenInv, SumInv, MetaInv, PartsInv, LeaseInv, Opened, Undumped, Inspecting
<1> QED BY <1>3, <1>4, <1>5

\* Steps of the user move no process.
LEMMA UserProcs ==
  ASSUME IInv, DiskMoves, UNCHANGED <<stores, pc, locals>>
  PROVE  Locals' /\ LockInv' /\ \A p \in Procs : ProcInv(p)'
<1>1. StoresMove /\ UNCHANGED <<pc, op, file, fd, ident, sum, meta, parts, tainted>> /\ cache' = cache
  BY StoresStill DEF locals, stores
<1>2. \A p \in Procs : Same(p) BY <1>1 DEF Same
<1>3. \A p \in Procs : ProcInv(p)' BY <1>1, <1>2, ProcKept DEF IInv
<1>4. Locals' BY <1>1 DEF Locals, IInv
<1>5. LockInv'
 <2>1. LockInv BY DEF IInv
 <2> QED BY <1>1, <2>1 DEF LockInv, Key, Cached
<1> QED BY <1>3, <1>4, <1>5

\* The invariant holds initially.
LEMMA InitInv == Init => IInv
<1> SUFFICES ASSUME Init PROVE IInv OBVIOUS
<1>1. NoParts \in [Files -> Parts] /\ 0 \in Stamps BY BoundsAssumption DEF NoParts, NoPart, Parts, Stamps, Sums
<1>2. DiskInv
 <2>1. history \in Seq(Texts) /\ Len(history) = 2 /\ DOMAIN history = {1, 2} BY DEF Init, Texts
 <2>2. inodes \in Seq(Nat) /\ DOMAIN inodes = {1, 2} /\ inodes[1] = 1 /\ inodes[2] = 2 BY DEF Init
 <2>3. link \in [Files -> DOMAIN inodes] BY <2>2 DEF Init
 <2>4. trouble = 0 /\ trouble \in 0 .. MaxTrouble /\ Len(history) \in 2 .. 2 + 2 * trouble
   BY <2>1, BoundsAssumption DEF Init
 <2>5. tool \in {"pinned", "changed", "restored"} /\ inspection \in {"gguf", "hash-only"} BY DEF Init
 <2> QED BY <2>1, <2>2, <2>3, <2>4, <2>5 DEF DiskInv
<1>3. StoreInv BY DEF Init, StoreInv
<1>4. Locals BY <1>1 DEF Init, Locals, Labels, Ops, Files, Sums
<1>5. LockInv BY DEF Init, LockInv, Locked
<1>6. \A p \in Procs : ProcInv(p)
  BY DEF Init, ProcInv, IdleInv, OpenInv, SumInv, MetaInv, PartsInv, LeaseInv, Opened, Undumped, Inspecting
<1> QED BY <1>2, <1>3, <1>4, <1>5, <1>6 DEF IInv

\* The inductive step
LEMMA NextInv == IInv /\ [Next]_vars => IInv'
<1> SUFFICES ASSUME IInv, [Next]_vars PROVE IInv' OBVIOUS
<1>1. DiskInv' /\ DiskMoves /\ StoreInv' BY DiskStep, StoreStep DEF IInv
<1>2. ASSUME NEW p \in Procs, Verify(p) \/ Observe(p) \/ Require(p) \/ Step(p) \/ Fail(p)
                              \/ (\E f \in Files : Use(p, f))
      PROVE  Locals' /\ LockInv' /\ \A q \in Procs : ProcInv(q)'
 <2>1. Own(p) /\ StoresMove BY <1>2, ActorOwn
 <2>2. cache' \subseteq cache \/ PublishHash(p) BY <1>2, CacheGrows
 <2>3. LockInv' BY <2>1, <2>2, LockStep
 <2>4. \A q \in Procs \ {p} : ProcInv(q)' BY <1>1, <2>1, ProcKept DEF IInv, Own
 <2> QED BY <2>1, <2>3, <2>4 DEF Own
<1>3. CASE PowerLoss BY <1>1, <1>3, PowerProcs DEF IInv
<1>4. CASE UNCHANGED <<stores, pc, locals>> BY <1>1, <1>4, UserProcs DEF IInv
<1>5. UNCHANGED vars \/ ToolMoves \/ (\E f \in Files, text \in Texts : Edit(f, text) \/ Replace(f, text))
        => UNCHANGED <<stores, pc, locals>>
  BY DEF vars, ToolMoves, Edit, Replace
<1>6. CASE \E p \in Procs : \/ Verify(p) \/ Observe(p) \/ Require(p) \/ Step(p) \/ Fail(p)
                            \/ \E f \in Files : Use(p, f)
  BY <1>1, <1>2, <1>6 DEF IInv
<1> QED BY <1>3, <1>4, <1>5, <1>6 DEF Next

\* The strengthened invariant holds of every behaviour.
THEOREM Invariance == Spec => []IInv
<1> QED BY InitInv, NextInv, PTL DEF Spec

----------------------------------------
(* The theorems *)

\* What the invariant says of the cache
LEMMA InvCache == IInv => CacheIsSound
<1> SUFFICES ASSUME IInv PROVE CacheIsSound OBVIOUS
<1>1. DiskInv /\ StoreInv /\ Locals /\ LockInv /\ \A p \in Procs : ProcInv(p) BY DEF IInv
<1>2. TypeOK
 <2>1. Len(history) \in 2 .. 2 + 2 * MaxTrouble
  <3>1. /\ trouble \in Nat /\ MaxTrouble \in Nat /\ trouble <= MaxTrouble /\ Len(history) \in Nat
        /\ 2 <= Len(history) /\ Len(history) <= 2 + 2 * trouble
    BY <1>1, BoundsAssumption DEF DiskInv
  <3> QED BY <3>1
 <2>2. /\ \A i \in DOMAIN history : history[i] \in Texts
       /\ \A i \in DOMAIN inodes : inodes[i] \in DOMAIN history
       /\ \A f \in Files : link[f] \in DOMAIN inodes
       /\ tool \in {"pinned", "changed", "restored"} /\ inspection \in {"gguf", "hash-only"}
   BY <1>1 DEF DiskInv
 <2>3. cache \subseteq [file : Files, stamp : Stamps, text : Texts] BY <1>1 DEF StoreInv
 <2>4. returned \subseteq [Files -> Parts] BY <1>1 DEF StoreInv
 <2>5. \A p \in Procs : fd[p] \in 0 .. Len(inodes)
  <3>1. DOMAIN inodes = 1 .. Len(inodes) /\ Len(inodes) \in Nat BY <1>1 DEF DiskInv
  <3>2. \A p \in Procs : fd[p] = 0 \/ fd[p] \in 1 .. Len(inodes) BY <1>1, <3>1, Zenon DEF ProcInv, OpenInv
  <3>3. \A n \in Nat : \A x : x = 0 \/ x \in 1 .. n => x \in 0 .. n OBVIOUS
  <3> QED BY <3>1, <3>2, <3>3, Zenon
 <2>6. \A p \in Procs :
         /\ op[p] \in {"none", "verify", "observe", "lease"} /\ file[p] \in Files
         /\ ident[p] \in Stamps /\ sum[p] \in Sums /\ meta[p] \in Sums
         /\ parts[p] \in [Files -> Parts] /\ tainted[p] \in BOOLEAN
   BY <1>1 DEF Locals, Ops
 <2>7. /\ registry \subseteq Texts /\ receipts \subseteq [Files -> Parts]
       /\ unsynced \subseteq ({"hash"} \X cache) \cup ({"metadata"} \X registry)
                             \cup ({"receipt"} \X receipts)
   BY <1>1 DEF StoreInv
 <2> QED BY <2>1, <2>2, <2>3, <2>4, <2>5, <2>6, <2>7 DEF TypeOK
<1>3. CacheIsTrue
 <2>1. \A c \in cache : c.text = history[c.stamp] BY <1>1 DEF StoreInv
 <2>2. \A c \in cache : Cached(c) = {c} BY <1>1 DEF StoreInv, Cached
 <2> QED BY <2>1, <2>2 DEF CacheIsTrue
<1>4. HashedOnce BY <1>1 DEF LockInv, HashedOnce, Locked
<1> QED BY <1>2, <1>3, <1>4 DEF CacheIsSound

\* The cache of digests of models.py is sound, for any number of processes and however the
\* user edits and replaces the files: it is typed, a record gives the digest of the bytes
\* that bore its identity, a key has one record, and nobody hashes what another hashes
\* or the cache knows.
THEOREM CacheSound == Spec => []CacheIsSound
<1> QED BY Invariance, InvCache, PTL

\* What the invariant says of receipts
LEMMA InvReceipts == IInv => ReceiptsAreReliable
<1> SUFFICES ASSUME IInv PROVE ReceiptsAreReliable OBVIOUS
<1>1. StoreInv BY DEF IInv
<1>2. ReceiptIsOfOneContent BY <1>1 DEF StoreInv, Good, ReceiptIsOfOneContent
<1>3. ReceiptsAreKept BY <1>1 DEF StoreInv, Stored, ReceiptsAreKept
<1> QED BY <1>2, <1>3 DEF ReceiptsAreReliable

\* A receipt of models.py can be relied on: identity, digest and metadata are of one
\* content, the pinned one, and what a verification returned outlives a power failure
\* together with the metadata it names.
THEOREM ReceiptsReliable == Spec => []ReceiptsAreReliable
<1> QED BY Invariance, InvReceipts, PTL

\* A lease whose verification succeeds at its end has given its holder the bytes of the
\* receipt all the time: ModelLease.verify compares identities only, and that is enough.
THEOREM LeaseOfReceipt == Spec => LeaseIsOfReceipt
<1>1. IInv => \A p \in Procs : At(p, "leased") /\ LeaseVerified(p) => ~tainted[p]
  BY DEF IInv, ProcInv, LeaseInv, LeaseVerified, At
<1>2. IInv => [\A p \in Procs : At(p, "leased") /\ LeaseVerified(p) /\ pc'[p] = "idle" /\ trouble' = trouble
                 => ~tainted[p]]_vars
  BY <1>1
<1> QED BY <1>2, Invariance, PTL DEF LeaseIsOfReceipt
=============================================================================

----------------------------- MODULE BlobStore -----------------------------
(***************************************************************************)
(* The life of an object: blob_store's index and space, the handler and    *)
(* client calls around it, the storage servers that hold the bytes, and    *)
(* the S3 bucket a client falls back to.                                   *)
(*                                                                         *)
(* A put allocates, indexes and answers; only then does the client write   *)
(* the slices.  A get looks the inode up and then reads the slices.  A     *)
(* remove unlinks the inode under mtx_ and frees its space after dropping  *)
(* it.  A client and the server thread of its connection are one process.  *)
(*                                                                         *)
(* Space comes from BlockPool: an object of at least one block takes       *)
(* blocks; a smaller one takes one slice, a place of its own, from the     *)
(* slice pool its lifetime selects (SliceSpace says what BlobStore relies  *)
(* on, and SlicePool implements it).                                       *)
(***************************************************************************)
EXTENDS BlockPool, Naturals, Sequences, Functions

CONSTANTS
  Client, Name,
  Size,          \* sizes objects may have
  Blocksize,
  Threshold,     \* invalid_tsv: one slice pool each
  Known,         \* lifetimes given to put_lf
  IntMax,        \* INT32_MAX, the lifetime put asks for
  MaxPuts,       \* bound on the puts of a behaviour
  MaxLost,       \* bound on the put replies that are lost
  Overlap,       \* clients work on one name at a time only, or not
  Reput,         \* an existing object may be put again, or not
  NoClient, NoInode, NoName

ASSUME SizeAssumption ==
  /\ Blocksize \in Nat \ {0}
  /\ Size \subseteq Nat \ {0}

ASSUME LifetimeAssumption ==
  /\ Threshold \subseteq Nat /\ Threshold # {}
  /\ Known \subseteq Nat
  /\ IntMax \in Nat \ Known

ASSUME CallerAssumption ==
  /\ NoClient \notin Client /\ NoName \notin Name
  /\ Client \cap Name = {}

ASSUME BoundAssumption == MaxPuts \in Nat /\ MaxLost \in Nat

VARIABLES
  live,      \* per slice pool, the places it has handed out
  index,     \* index_table_
  mtx,       \* who holds mtx_
  mem,       \* the bytes at a place: slice i of put k, or <<>>
  s3,        \* the put whose object the S3 bucket holds, 0 for none
  lost,      \* replies lost so far
  pc, name, inode, idx, got,   \* the call a client is in
  puts,      \* every put so far: name, number of slices
  put,       \* the put a client is performing
  last       \* the last put of a name, 0 when never put or removed since

store == <<avail, leased, live, index, mtx, mem>>
ghost == <<puts, put, last>>
call == <<pc, name, inode, idx, got>>
vars == <<store, s3, lost, call, ghost>>

Label == {"idle", "insert", "write", "fallback", "read", "s3", "got",
          "erase", "free"}
Piece == [place : Block, size : Nat]
Inode == [slices : Seq(Piece), lifetime : Nat]

ASSUME InodeAssumption == NoInode \notin Inode

Init ==
  /\ avail = Block
  /\ leased = {}
  /\ live = [p \in Threshold |-> {}]
  /\ index = [n \in Name |-> NoInode]
  /\ mtx = NoClient
  /\ mem = [b \in Block |-> <<>>]
  /\ s3 = [n \in Name |-> 0]
  /\ lost = 0
  /\ pc = [c \in Client |-> "idle"]
  /\ name = [c \in Client |-> NoName]
  /\ inode = [c \in Client |-> NoInode]
  /\ idx = [c \in Client |-> 0]
  /\ got = [c \in Client |-> <<>>]
  /\ puts = <<>>
  /\ put = [c \in Client |-> 0]
  /\ last = [n \in Name |-> 0]

-----------------------------------------------------------------------------
(* Where an object goes                                                    *)

FullBlocks(n) == n \div Blocksize
Odds(n) == n - FullBlocks(n) * Blocksize
TotalBlocks(n) == IF Odds(n) > 0 THEN FullBlocks(n) + 1 ELSE FullBlocks(n)

IsSmall(n) == n < Blocksize

SlicesByRest(blocks, n) ==
  [i \in DOMAIN blocks |-> [place |-> blocks[i],
      size |-> IF i < FullBlocks(n) THEN Blocksize ELSE n - i * Blocksize]]
SlicesOverFirst(blocks, n) ==
  [i \in DOMAIN blocks |-> [place |-> blocks[1],
      size |-> IF i <= FullBlocks(n) THEN Blocksize ELSE Odds(n)]]

\* The slices of an object over the blocks it was given.
SlicesOver(blocks, n) ==
  [i \in DOMAIN blocks |-> [place |-> blocks[i],
      size |-> IF i <= FullBlocks(n) THEN Blocksize ELSE Odds(n)]]

\* slice_pools_.upper_bound(lifetime), or the last pool.
PoolFor(lifetime) ==
  LET above == {p \in Threshold : p > lifetime}
  IN  IF above = {}
        THEN CHOOSE p \in Threshold : \A q \in Threshold : q <= p
        ELSE CHOOSE p \in above : \A q \in above : p <= q

\* How remove tells a slice from a block: by what the inode holds.
HoldsSlice(ino) == Len(ino.slices) = 1 /\ ino.slices[1].size # Blocksize

Places(ino) == {ino.slices[i].place : i \in DOMAIN ino.slices}

-----------------------------------------------------------------------------
(* What callers may do.  The server does not restrict them.                *)

Writing(c) == pc[c] \in {"insert", "write", "fallback", "erase", "free"}

MayPut(n) ==
  /\ Overlap \/ \A c \in Client : name[c] # n
  /\ Reput \/ last[n] = 0

MayGet(n) == Overlap \/ \A c \in Client : name[c] = n => ~Writing(c)

MayRemove(n) == Overlap \/ \A c \in Client : name[c] # n

Begin(c, label, n, ino) ==
  /\ pc' = [pc EXCEPT ![c] = label]
  /\ name' = [name EXCEPT ![c] = n]
  /\ inode' = [inode EXCEPT ![c] = ino]
  /\ idx' = [idx EXCEPT ![c] = 1]
  /\ got' = got

Return(c) ==
  /\ pc' = [pc EXCEPT ![c] = "idle"]
  /\ name' = [name EXCEPT ![c] = NoName]
  /\ inode' = [inode EXCEPT ![c] = NoInode]
  /\ idx' = [idx EXCEPT ![c] = 0]
  /\ got' = [got EXCEPT ![c] = <<>>]

-----------------------------------------------------------------------------
(* put(name, object), and put_lf which names the lifetime                  *)

NewPut(c, n, pieces) ==
  /\ Len(puts) < MaxPuts
  /\ puts' = Append(puts, [name |-> n, pieces |-> pieces])
  /\ put' = [put EXCEPT ![c] = Len(puts) + 1]
  /\ UNCHANGED last

PutSmall(c, n, size, lifetime) ==
  /\ pc[c] = "idle" /\ MayPut(n)
  /\ IsSmall(size)
  /\ \E b \in avail :
       /\ Take({b})
       /\ live' = [live EXCEPT ![PoolFor(lifetime)] = @ \cup {b}]
       /\ Begin(c, "insert", n, [slices |-> <<[place |-> b, size |-> size]>>,
                                 lifetime |-> lifetime])
  /\ NewPut(c, n, 1)
  /\ UNCHANGED <<index, mtx, mem, s3, lost>>

PutLarge(c, n, size, lifetime) ==
  /\ pc[c] = "idle" /\ MayPut(n)
  /\ ~IsSmall(size)
  /\ \E blocks \in Injection(1 .. TotalBlocks(size), avail) :
       /\ Take(Range(blocks))
       /\ Begin(c, "insert", n, [slices |-> SlicesOver(blocks, size),
                                 lifetime |-> lifetime])
  /\ NewPut(c, n, TotalBlocks(size))
  /\ UNCHANGED <<live, index, mtx, mem, s3, lost>>

\* The allocator refused: put answers lifetime 0 and the client turns to S3.
\* put_lf lets the exception through, and nothing has changed.
PutRefused(c, n) ==
  /\ pc[c] = "idle" /\ MayPut(n)
  /\ Begin(c, "fallback", n, NoInode)
  /\ NewPut(c, n, 1)
  /\ UNCHANGED <<store, s3, lost>>

LinkedOver(old, new) == new
\* insert() keeps the entry it finds.
Linked(old, new) == IF old = NoInode THEN new ELSE old

Insert(c) ==
  /\ pc[c] = "insert"
  /\ index' = [index EXCEPT ![name[c]] = Linked(@, inode[c])]
  /\ pc' = [pc EXCEPT ![c] = "write"]
  /\ UNCHANGED <<poolVars, live, mtx, mem, s3, lost, name, inode, idx, got, ghost>>

\* inode_management_client::put swallows the error of a reply that never
\* comes: the inode is empty and its lifetime 0.
ReplyLost(c) ==
  /\ pc[c] = "write" /\ idx[c] = 1 /\ inode[c].lifetime = IntMax
  /\ lost < MaxLost
  /\ lost' = lost + 1
  /\ Begin(c, "fallback", name[c], NoInode)
  /\ UNCHANGED <<store, s3, ghost>>

PutDone(c) ==
  /\ Return(c)
  /\ last' = [last EXCEPT ![name[c]] = put[c]]
  /\ put' = [put EXCEPT ![c] = 0]
  /\ UNCHANGED puts

WriteSlice(c) ==
  /\ pc[c] = "write"
  /\ mem' = [mem EXCEPT ![inode[c].slices[idx[c]].place] = <<put[c], idx[c]>>]
  /\ IF idx[c] = Len(inode[c].slices)
       THEN PutDone(c)
       ELSE /\ idx' = [idx EXCEPT ![c] = @ + 1]
            /\ UNCHANGED <<pc, name, inode, got, ghost>>
  /\ UNCHANGED <<poolVars, live, index, mtx, s3, lost>>

WriteS3(c) ==
  /\ pc[c] = "fallback"
  /\ s3' = [s3 EXCEPT ![name[c]] = put[c]]
  /\ PutDone(c)
  /\ UNCHANGED <<store, lost>>

-----------------------------------------------------------------------------
(* get(name)                                                               *)

\* The client takes lifetime 0 for "not in memory", whoever chose it.
InMemory(ino) == ino # NoInode /\ ino.lifetime # 0

GetFound(c, n) ==
  /\ pc[c] = "idle" /\ MayGet(n)
  /\ InMemory(index[n])
  /\ Begin(c, "read", n, index[n])
  /\ UNCHANGED <<store, s3, lost, ghost>>

GetMissing(c, n) ==
  /\ pc[c] = "idle" /\ MayGet(n)
  /\ ~InMemory(index[n])
  /\ Begin(c, "s3", n, NoInode)
  /\ UNCHANGED <<store, s3, lost, ghost>>

ReadSlice(c) ==
  /\ pc[c] = "read"
  /\ got' = [got EXCEPT ![c] = Append(@, mem[inode[c].slices[idx[c]].place])]
  /\ IF idx[c] = Len(inode[c].slices)
       THEN pc' = [pc EXCEPT ![c] = "got"] /\ UNCHANGED idx
       ELSE idx' = [idx EXCEPT ![c] = @ + 1] /\ UNCHANGED pc
  /\ UNCHANGED <<store, s3, lost, name, inode, ghost>>

\* What put k wrote, in order.
Content(k) == [i \in 1 .. puts[k].pieces |-> <<k, i>>]

ReadS3(c) ==
  /\ pc[c] = "s3"
  /\ got' = [got EXCEPT ![c] = IF s3[name[c]] = 0 THEN <<>> ELSE Content(s3[name[c]])]
  /\ pc' = [pc EXCEPT ![c] = "got"]
  /\ UNCHANGED <<store, s3, lost, name, inode, idx, ghost>>

GetReturns(c) ==
  /\ pc[c] = "got"
  /\ Return(c)
  /\ UNCHANGED <<store, s3, lost, ghost>>

-----------------------------------------------------------------------------
(* remove(name)                                                            *)

\* Not in the index: the early return drops the mutex.
RemoveMissing(c, n) ==
  /\ pc[c] = "idle" /\ MayRemove(n)
  /\ mtx = NoClient
  /\ index[n] = NoInode
  /\ last' = [last EXCEPT ![n] = 0]
  /\ UNCHANGED <<store, s3, lost, call, puts, put>>

RemoveFindUnlocked(c, n) ==
  /\ pc[c] = "idle" /\ MayRemove(n)
  /\ index[n] # NoInode
  /\ Begin(c, "erase", n, index[n])
  /\ UNCHANGED <<store, s3, lost, ghost>>

RemoveFind(c, n) ==
  /\ pc[c] = "idle" /\ MayRemove(n)
  /\ mtx = NoClient
  /\ index[n] # NoInode
  /\ mtx' = c
  /\ Begin(c, "erase", n, index[n])
  /\ UNCHANGED <<poolVars, live, index, mem, s3, lost, ghost>>

Erase(c) ==
  /\ pc[c] = "erase"
  /\ index' = [index EXCEPT ![name[c]] = NoInode]
  /\ mtx' = NoClient
  /\ pc' = [pc EXCEPT ![c] = "free"]
  /\ last' = [last EXCEPT ![name[c]] = 0]
  /\ UNCHANGED <<poolVars, live, mem, s3, lost, name, inode, idx, got, puts, put>>

FreeSlice(c) ==
  /\ pc[c] = "free" /\ HoldsSlice(inode[c])
  /\ Places(inode[c]) \subseteq live[PoolFor(inode[c].lifetime)]
  /\ GiveBack(Places(inode[c]))
  /\ live' = [live EXCEPT ![PoolFor(inode[c].lifetime)] = @ \ Places(inode[c])]
  /\ Return(c)
  /\ UNCHANGED <<index, mtx, mem, s3, lost, ghost>>

FreeFirstBlock(c) ==
  /\ pc[c] = "free" /\ ~HoldsSlice(inode[c])
  /\ GiveBack({inode[c].slices[1].place})
  /\ Return(c)
  /\ UNCHANGED <<live, index, mtx, mem, s3, lost, ghost>>

FreeBlocks(c) ==
  /\ pc[c] = "free" /\ ~HoldsSlice(inode[c])
  /\ GiveBack(Places(inode[c]))
  /\ Return(c)
  /\ UNCHANGED <<live, index, mtx, mem, s3, lost, ghost>>

-----------------------------------------------------------------------------

Put(c, n) ==
  \/ \E size \in Size, lifetime \in Known \cup {IntMax} :
       PutSmall(c, n, size, lifetime) \/ PutLarge(c, n, size, lifetime)
  \/ PutRefused(c, n)

Call(c) ==
  \E n \in Name : \/ Put(c, n)
                  \/ GetFound(c, n) \/ GetMissing(c, n)
                  \/ RemoveMissing(c, n) \/ RemoveFind(c, n)

Continue(c) ==
  \/ Insert(c) \/ ReplyLost(c) \/ WriteSlice(c) \/ WriteS3(c)
  \/ ReadSlice(c) \/ ReadS3(c) \/ GetReturns(c)
  \/ Erase(c) \/ FreeSlice(c) \/ FreeBlocks(c)

Next == \E c \in Client : Call(c) \/ Continue(c)

Spec == Init /\ [][Next]_vars

-----------------------------------------------------------------------------
(* Properties                                                              *)

TypeOK ==
  /\ avail \subseteq Block /\ leased \subseteq Block
  /\ live \in [Threshold -> SUBSET Block]
  /\ index \in [Name -> Inode \cup {NoInode}]
  /\ mtx \in Client \cup {NoClient}
  /\ \A b \in Block : mem[b] = <<>> \/ mem[b] \in Nat \X Nat
  /\ s3 \in [Name -> 0 .. MaxPuts]
  /\ lost \in 0 .. MaxLost
  /\ pc \in [Client -> Label]
  /\ name \in [Client -> Name \cup {NoName}]
  /\ inode \in [Client -> Inode \cup {NoInode}]
  /\ idx \in [Client -> Nat]
  /\ put \in [Client -> 0 .. MaxPuts]
  /\ last \in [Name -> 0 .. MaxPuts]

\* Whoever has an inode that owns space: a name in the index, a put about to
\* link it, a remove that has unlinked it and is about to free its space.
Holder ==
  {n \in Name : index[n] # NoInode}
    \cup {c \in Client : pc[c] \in {"insert", "free"}}
InodeOf(h) == IF h \in Name THEN index[h] ELSE inode[h]

\* An inode has its places to itself, and a remove will look for them where
\* they are: in the slice pool its lifetime selects or among the blocks.
HoldsPlaces(ino) ==
  /\ Places(ino) \subseteq leased
  /\ \A i, j \in DOMAIN ino.slices :
       ino.slices[i].place = ino.slices[j].place => i = j
  /\ \A p \in Threshold :
       Places(ino) \cap live[p] =
         IF HoldsSlice(ino) /\ p = PoolFor(ino.lifetime) THEN Places(ino) ELSE {}

\* A place is freed once and to where it came from, and two objects never
\* share one, whatever calls are in progress on the same name.
SpaceIsOwned ==
  /\ \A h \in Holder : HoldsPlaces(InodeOf(h))
  /\ \A g, h \in Holder :
       g # h => Places(InodeOf(g)) \cap Places(InodeOf(h)) = {}

\* What a remove erases is the entry it found, though only removes take mtx_.
ErasedIsFound == \A c \in Client : pc[c] = "erase" => index[name[c]] = inode[c]

\* Every place taken is owned by an object or by a call in progress: "Allocate
\* space for object" (blob_store.h:21), and nothing besides.
NothingLeaked == leased \subseteq UNION {Places(InodeOf(h)) : h \in Holder}

\* While an object exists, a get returns what its put wrote, from the storage
\* servers or from S3: "Object content" (hive_client.h:55).
GetReturnsPut ==
  \A c \in Client :
    pc[c] = "got" /\ last[name[c]] # 0 => got[c] = Content(last[name[c]])
=============================================================================

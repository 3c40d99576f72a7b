--------------------------- MODULE BlockAllocator ---------------------------
(***************************************************************************)
(* random_block_allocator: the metadata server's pool of storage blocks.   *)
(* Free blocks sit in a lock-free queue, allocated ones in a concurrent    *)
(* hash map; the mutex that once covered each operation is commented out,  *)
(* so a call is a sequence of single queue or map operations and several   *)
(* server threads interleave between any two of them.                      *)
(*                                                                         *)
(* The queue gives no order between producers, so it is a bag.  A thread   *)
(* serves one call at a time; `hand' is its local vector of blocks.        *)
(***************************************************************************)
EXTENDS Naturals, Sequences, FiniteSets, Functions

CONSTANTS
  Server,     \* storage servers
  Block,      \* block names
  BlocksOf,   \* the names a server advertises when it starts
  Thread,     \* server threads of the metadata process
  Owner,      \* requests: a large object of blob_store::put, or one bucket
  NoOwner,
  MaxCount,   \* bound: blocks one request asks for
  MaxBoots    \* bound: times a storage server is started

ASSUME ServerAssumption ==
  /\ BlocksOf \in [Server -> Seq(Block)]
  /\ \A s \in Server : BlocksOf[s] # <<>>
  /\ \A s, r \in Server : \A i \in DOMAIN BlocksOf[s], j \in DOMAIN BlocksOf[r] :
       BlocksOf[s][i] = BlocksOf[r][j] => s = r /\ i = j

ASSUME CallerAssumption ==
  /\ NoOwner \notin Owner
  /\ Thread \cap Owner = {}
  /\ MaxCount \in Nat \ {0}
  /\ MaxBoots \in Nat \ {0}

VARIABLES
  free,       \* free_blocks_: how many copies of a name the queue holds
  allocated,  \* allocated_blocks_: the keys of the map
  boots,      \* how often a server has advertised its blocks
  grant,      \* the blocks a request has received and not returned
  pc, hand, idx, want, owner, missed   \* locals of the call a thread serves

vars == <<free, allocated, boots, grant, pc, hand, idx, want, owner, missed>>

Label == {"idle", "dequeue", "rollback", "insert", "erase", "enqueue"}

Init ==
  /\ free = [b \in Block |-> 0]
  /\ allocated = {}
  /\ boots = [s \in Server |-> 0]
  /\ grant = [o \in Owner |-> <<>>]
  /\ pc = [t \in Thread |-> "idle"]
  /\ hand = [t \in Thread |-> <<>>]
  /\ idx = [t \in Thread |-> 1]
  /\ want = [t \in Thread |-> 0]
  /\ owner = [t \in Thread |-> NoOwner]
  /\ missed = [t \in Thread |-> FALSE]

-----------------------------------------------------------------------------
(* The queue and the loops over `blocks'.                                  *)

\* The entries of the queue, and how many there are.
Entries == UNION {{b} \X (1 .. free[b]) : b \in Block}
QueueSize == Cardinality(Entries)

\* size_approx() "is only accurate if the queue has completely stabilized"; while
\* other threads take from it or add to it, the answer may be anything.  What it
\* says beyond MaxCount makes no difference.
Stable(t) == \A u \in Thread \ {t} : pc[u] \notin {"dequeue", "rollback", "enqueue"}
SizeApprox(t) == IF Stable(t) THEN {QueueSize} ELSE 0 .. MaxCount

PeekedFree(b) == free
DequeuedFree(b) == [free EXCEPT ![b] = @ - 1]
EnqueuedFree(b) == [free EXCEPT ![b] = @ + 1]

\* The block of `blocks' the enqueue loops are at.
LastInHand(t) == hand[t][Len(hand[t])]
NextInHand(t) == Head(hand[t])

\* The block the map loops are at.
OwnerAt(t) == owner[t]
BlockAt(t) == hand[t][idx[t]]

LoopStopsEarly(t) == idx[t] < Len(hand[t])
InLoop(t) == idx[t] <= Len(hand[t])

\* One turn of a loop `for (block : blocks) free_blocks_.enqueue(block)'.
EnqueueNext(t) ==
  /\ free' = EnqueuedFree(NextInHand(t))
  /\ hand' = [hand EXCEPT ![t] = Tail(@)]
  /\ pc' = [pc EXCEPT ![t] = IF Len(hand[t]) = 1 THEN "idle" ELSE @]
  /\ UNCHANGED <<allocated, boots, grant, idx, want, owner, missed>>

-----------------------------------------------------------------------------
(* allocate(count)                                                         *)

\* The estimate is checked first; when it is too low the call throws and
\* leaves everything as it was.
AllocateThrows(t, n) ==
  /\ pc[t] = "idle"
  /\ \E size \in SizeApprox(t) : n > size
  /\ UNCHANGED vars

Allocate(t, o, n) ==
  /\ pc[t] = "idle"
  /\ grant[o] = <<>>
  /\ \A u \in Thread : owner[u] # o
  /\ \E size \in SizeApprox(t) : n <= size
  /\ pc' = [pc EXCEPT ![t] = "dequeue"]
  /\ want' = [want EXCEPT ![t] = n]
  /\ owner' = [owner EXCEPT ![t] = o]
  /\ UNCHANGED <<free, allocated, boots, grant, hand, idx, missed>>

Dequeue(t) ==
  /\ pc[t] = "dequeue"
  /\ \E b \in Block :
       /\ free[b] > 0
       /\ free' = DequeuedFree(b)
       /\ hand' = [hand EXCEPT ![t] = Append(@, b)]
  /\ pc' = [pc EXCEPT ![t] = IF Len(hand[t]) + 1 = want[t] THEN "insert" ELSE @]
  /\ UNCHANGED <<allocated, boots, grant, idx, want, owner, missed>>

MissForgetsHand(t) ==
  /\ pc[t] = "dequeue"
  /\ hand' = [hand EXCEPT ![t] = <<>>]
  /\ pc' = [pc EXCEPT ![t] = "idle"]
  /\ want' = [want EXCEPT ![t] = 0]
  /\ owner' = [owner EXCEPT ![t] = NoOwner]
  /\ UNCHANGED <<free, allocated, boots, grant, idx, missed>>

MissTriesAgain(t) ==
  /\ pc[t] = "dequeue"
  /\ UNCHANGED vars

MissKeepsShort(t) ==
  /\ pc[t] = "dequeue"
  /\ hand[t] # <<>>
  /\ pc' = [pc EXCEPT ![t] = "insert"]
  /\ UNCHANGED <<free, allocated, boots, grant, hand, idx, want, owner, missed>>

\* try_dequeue failed: what was taken goes back, then the call throws.  A queue
\* that looks empty is "likely but not guaranteed to be empty".
Miss(t) ==
  /\ pc[t] = "dequeue"
  /\ pc' = [pc EXCEPT ![t] = IF hand[t] = <<>> THEN "idle" ELSE "rollback"]
  /\ want' = [want EXCEPT ![t] = 0]
  /\ owner' = [owner EXCEPT ![t] = NoOwner]
  /\ UNCHANGED <<free, allocated, boots, grant, hand, idx, missed>>

Rollback(t) == pc[t] = "rollback" /\ EnqueueNext(t)

InsertNothing(t) ==
  /\ pc[t] = "insert"
  /\ InLoop(t)
  /\ idx' = [idx EXCEPT ![t] = @ + 1]
  /\ UNCHANGED <<free, allocated, boots, grant, pc, hand, want, owner, missed>>

Insert(t) ==
  /\ pc[t] = "insert"
  /\ InLoop(t)
  /\ allocated' = allocated \cup {BlockAt(t)}
  /\ idx' = [idx EXCEPT ![t] = @ + 1]
  /\ UNCHANGED <<free, boots, grant, pc, hand, want, owner, missed>>

\* The call returns the vector.
Grant(t) ==
  /\ pc[t] = "insert"
  /\ ~InLoop(t)
  /\ grant' = [grant EXCEPT ![owner[t]] = hand[t]]
  /\ pc' = [pc EXCEPT ![t] = "idle"]
  /\ hand' = [hand EXCEPT ![t] = <<>>]
  /\ idx' = [idx EXCEPT ![t] = 1]
  /\ want' = [want EXCEPT ![t] = 0]
  /\ owner' = [owner EXCEPT ![t] = NoOwner]
  /\ UNCHANGED <<free, allocated, boots, missed>>

-----------------------------------------------------------------------------
(* free(blocks): called once for what a request received.                  *)

FreeBlocks(t, o) ==
  /\ pc[t] = "idle"
  /\ grant[o] # <<>>
  /\ grant' = [grant EXCEPT ![o] = <<>>]
  /\ hand' = [hand EXCEPT ![t] = grant[o]]
  /\ pc' = [pc EXCEPT ![t] = "erase"]
  /\ UNCHANGED <<free, allocated, boots, idx, want, owner, missed>>

\* erase() says whether the name was in the map.
Erase(t) ==
  /\ pc[t] = "erase"
  /\ InLoop(t)
  /\ allocated' = allocated \ {BlockAt(t)}
  /\ missed' = [missed EXCEPT ![t] = @ \/ BlockAt(t) \notin allocated]
  /\ idx' = [idx EXCEPT ![t] = @ + 1]
  /\ UNCHANGED <<free, boots, grant, pc, hand, want, owner>>

FreeThrowsAtOnce(t) ==
  /\ pc[t] = "erase"
  /\ missed[t]
  /\ pc' = [pc EXCEPT ![t] = "idle"]
  /\ hand' = [hand EXCEPT ![t] = <<>>]
  /\ idx' = [idx EXCEPT ![t] = 1]
  /\ missed' = [missed EXCEPT ![t] = FALSE]
  /\ UNCHANGED <<free, allocated, boots, grant, want, owner>>

\* Some block was not allocated: the call throws; the others stay erased and
\* are not enqueued.
FreeThrows(t) ==
  /\ pc[t] = "erase"
  /\ ~InLoop(t)
  /\ missed[t]
  /\ pc' = [pc EXCEPT ![t] = "idle"]
  /\ hand' = [hand EXCEPT ![t] = <<>>]
  /\ idx' = [idx EXCEPT ![t] = 1]
  /\ missed' = [missed EXCEPT ![t] = FALSE]
  /\ UNCHANGED <<free, allocated, boots, grant, want, owner>>

FreeErased(t) ==
  /\ pc[t] = "erase"
  /\ ~InLoop(t)
  /\ ~missed[t]
  /\ pc' = [pc EXCEPT ![t] = "enqueue"]
  /\ idx' = [idx EXCEPT ![t] = 1]
  /\ UNCHANGED <<free, allocated, boots, grant, hand, want, owner, missed>>

Enqueue(t) == pc[t] = "enqueue" /\ EnqueueNext(t)

-----------------------------------------------------------------------------
(* Registration: a storage server advertises its blocks every time it is   *)
(* started.  Nothing calls remove_blocks, whose body is empty.             *)

AddBlocks(t, s) ==
  /\ pc[t] = "idle"
  /\ boots[s] < MaxBoots
  /\ boots' = [boots EXCEPT ![s] = @ + 1]
  /\ hand' = [hand EXCEPT ![t] = BlocksOf[s]]
  /\ pc' = [pc EXCEPT ![t] = "enqueue"]
  /\ UNCHANGED <<free, allocated, grant, idx, want, owner, missed>>

-----------------------------------------------------------------------------

Continue(t) ==
  \/ Dequeue(t) \/ Miss(t) \/ Rollback(t) \/ Insert(t) \/ Grant(t)
  \/ Erase(t) \/ FreeThrows(t) \/ FreeErased(t) \/ Enqueue(t)

Call(t) ==
  \/ \E n \in 1..MaxCount : AllocateThrows(t, n)
  \/ \E o \in Owner, n \in 1..MaxCount : Allocate(t, o, n)
  \/ \E o \in Owner : FreeBlocks(t, o)
  \/ \E s \in Server : AddBlocks(t, s)

Next == \E t \in Thread : Call(t) \/ Continue(t)

Spec == Init /\ [][Next]_vars

\* A thread inside a call is running code that never blocks.
FairSpec == Spec /\ \A t \in Thread : WF_vars(Continue(t))

-----------------------------------------------------------------------------
(* Properties                                                              *)

TypeOK ==
  /\ free \in [Block -> Nat]
  /\ allocated \subseteq Block
  /\ boots \in [Server -> 0..MaxBoots]
  /\ grant \in [Owner -> Seq(Block)]
  /\ pc \in [Thread -> Label]
  /\ hand \in [Thread -> Seq(Block)]
  /\ idx \in [Thread -> Nat \ {0}]
  /\ want \in [Thread -> 0..MaxCount]
  /\ owner \in [Thread -> Owner \cup {NoOwner}]
  /\ missed \in [Thread -> BOOLEAN]

\* Everyone who can be holding blocks outside the queue.
Holder == Thread \cup Owner
Held(x) == IF x \in Thread THEN hand[x] ELSE grant[x]

RegisteredOnce == \A s \in Server : boots[s] <= 1

\* A block has at most one place: one entry of the queue, or one position of
\* one holder's vector.
OnePlace ==
  /\ \A b \in Block : free[b] <= 1
  /\ \A x \in Holder : \A i \in DOMAIN Held(x) : free[Held(x)[i]] = 0
  /\ \A x, y \in Holder : \A i \in DOMAIN Held(x), j \in DOMAIN Held(y) :
       Held(x)[i] = Held(y)[j] => x = y /\ i = j

\* Without the mutex that is commented out, no interleaving of allocate, free,
\* rollback and registration gives a block to two requests or lists it twice,
\* as long as no storage server advertises its blocks again.
ExclusiveUse == RegisteredOnce => OnePlace

\* No block of a registered server is ever lost by a failed allocate or a free:
\* it stays in the queue or in somebody's vector.
NothingLost ==
  RegisteredOnce =>
    \A s \in Server : boots[s] > 0 =>
      \A b \in Range(BlocksOf[s]) :
        \/ free[b] > 0
        \/ \E x \in Holder : b \in Range(Held(x))

\* The part of a thread's vector that is in the map at this moment.
MapIndices(t) ==
  CASE pc[t] = "insert" -> 1 .. idx[t] - 1
    [] pc[t] = "erase"  -> idx[t] .. Len(hand[t])
    [] OTHER            -> {}

MapOfThread(t) == {hand[t][i] : i \in MapIndices(t)}

\* allocated_blocks_ holds exactly the blocks some request holds, and those of
\* a call between the map operations of its loop.
MapIsExact ==
  RegisteredOnce =>
    allocated = (UNION {Range(grant[o]) : o \in Owner})
                  \cup UNION {MapOfThread(t) : t \in Thread}

\* A request that returns what it was given is never told that its blocks
\* "have not been allocated" (the branch that throws and drops the rest).
FreeNeverRefused == RegisteredOnce => \A t \in Thread : ~missed[t]

\* The callers index the vector by the count they asked for: a request is given
\* exactly as many blocks, whatever the size estimate said and whoever took
\* blocks in between, and no block twice.
GrantsWhole ==
  [][\A t \in Thread : pc[t] = "insert" /\ pc'[t] = "idle" =>
       LET got == grant'[owner[t]]
       IN  Len(got) = want[t] /\ (RegisteredOnce => IsInjective(got))]_vars

\* Whatever servers restart: every name in allocated_blocks_ is held by a request,
\* or by a call between the map operations of its loop.  A name with two users
\* may be missing from the map, but none stays in it that nobody uses.
MapIsHeld ==
  allocated \subseteq (UNION {Range(grant[o]) : o \in Owner})
                        \cup UNION {MapOfThread(t) : t \in Thread}

NumTotalBlocks == QueueSize + Cardinality(allocated)

\* When no call is running, num_total_blocks() is the number of blocks that
\* the storage servers have registered (random_block_allocator.h:61).
TotalIsRegistered ==
  (\A t \in Thread : pc[t] = "idle") =>
    NumTotalBlocks =
      Cardinality(UNION {Range(BlocksOf[s]) : s \in {r \in Server : boots[r] > 0}})

Places(b) ==
  UNION {{<<x, i>> : i \in {j \in DOMAIN Held(x) : Held(x)[j] = b}} : x \in Holder}

\* Whatever servers restart: the queue and the vectors together never hold
\* more copies of a name than the number of times it was advertised.
CopiesBounded ==
  \A s \in Server : \A b \in Range(BlocksOf[s]) :
    free[b] + Cardinality(Places(b)) <= boots[s]

\* The calls, one operation at a time, implement a pool that takes and gives
\* back whole requests: MaxBoots = 1.
Pool == INSTANCE BlockPool WITH
  avail  <- {b \in Block : free[b] > 0}
              \cup UNION {Range(hand[t]) : t \in {u \in Thread : pc[u] # "erase"}},
  leased <- (UNION {Range(grant[o]) : o \in Owner})
              \cup UNION {Range(hand[t]) : t \in {u \in Thread : pc[u] = "erase"}}

ImplementsPool == Pool!PoolSpec

\* Every call returns or throws: a failing allocate does not wait for blocks.
EveryCallReturns == \A t \in Thread : pc[t] # "idle" ~> pc[t] = "idle"
=============================================================================

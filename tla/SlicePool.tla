----------------------------- MODULE SlicePool -----------------------------
(***************************************************************************)
(* slice_pool with its buckets: small objects share a block.  A pool cuts  *)
(* slices off its current bucket, retires a bucket that has no room to the *)
(* map of immutable buckets, and gives a retired bucket's block back when  *)
(* everything cut off it has been freed.                                   *)
(*                                                                         *)
(* current_ is protected by a mutex; a retired bucket by its own mutex;    *)
(* the map of immutable buckets and the block allocator by nothing but     *)
(* themselves.  free drops the pool's mutex before it looks the bucket up. *)
(* The allocator is BlockPool, which BlockAllocator implements.            *)
(***************************************************************************)
EXTENDS BlockPool, Naturals, Functions

CONSTANTS
  Thread,     \* server threads of the metadata process
  Object,     \* the small objects of this pool
  Bucket,     \* addresses of bucket objects
  Size,       \* sizes the objects may have
  Capacity,   \* blocksize
  NoThread, NoBucket, NoSlice, NoObject

ASSUME SizeAssumption ==
  /\ Capacity \in Nat
  /\ Size \subseteq 1 .. Capacity - 1

ASSUME NoneAssumption ==
  /\ NoThread \notin Thread
  /\ NoBucket \notin Bucket
  /\ NoObject \notin Object

\* One bucket is current, one per block is in the map, and a thread holds one:
\* an address that is not in use can always be found.
ASSUME AddressAssumption ==
  /\ IsFiniteSet(Block) /\ IsFiniteSet(Thread) /\ IsFiniteSet(Bucket)
  /\ Cardinality(Block) + Cardinality(Thread) + 1 < Cardinality(Bucket)

VARIABLES
  mine,       \* blocks the allocator has leased to this pool
  heap,       \* the bucket objects: block id, cur_offset_, freed_memory_
  current,    \* current_
  immutable,  \* immutable_buckets_
  lock,       \* who holds mtx_
  slice,      \* the slice an object occupies, until it is handed to free
  pc, obj, size, arg, bkt   \* locals of the call a thread serves

poolState == <<mine, heap, current, immutable, lock>>
vars == <<avail, leased, mine, heap, current, immutable, lock, slice,
          pc, obj, size, arg, bkt>>

Label == {"idle", "get", "refill", "find", "put", "release", "erase"}

BucketState == [bid : Block, cur : Nat, freed : Nat]
Slice == [bid : Block, off : Nat, size : Nat]

ASSUME RecordAssumption == NoBucket \notin BucketState /\ NoSlice \notin Slice

Init ==
  /\ avail = Block
  /\ leased = {}
  /\ mine = {}
  /\ heap = [a \in Bucket |-> NoBucket]
  /\ current = NoBucket
  /\ immutable = [b \in Block |-> NoBucket]
  /\ lock = NoThread
  /\ slice = [o \in Object |-> NoSlice]
  /\ pc = [t \in Thread |-> "idle"]
  /\ obj = [t \in Thread |-> NoObject]
  /\ size = [t \in Thread |-> 0]
  /\ arg = [t \in Thread |-> NoSlice]
  /\ bkt = [t \in Thread |-> NoBucket]

-----------------------------------------------------------------------------
(* Buckets                                                                 *)

FitsAllButOne(b, n) == Capacity - b.cur + 1 >= n
Fits(b, n) == Capacity - b.cur >= n

NewBucketUninit(b) == [bid |-> b, cur |-> NoBucket, freed |-> 0]
NewBucket(b) == [bid |-> b, cur |-> 0, freed |-> 0]

Get(b, n) == [b EXCEPT !.cur = @ + n]
Put(b, n) == [b EXCEPT !.freed = @ + n]

AlmostAllFreed(b) == b.freed + 1 >= b.cur
AllFreed(b) == b.freed = b.cur

Reset(b) == NewBucket(b.bid)

\* put_st, and reset_st when everything cut off the bucket has been freed.
PutAndReset(b, n) == Reset(b)
PutNoReset(b, n) == Put(b, n)
PutCurrent(b, n) == IF AllFreed(Put(b, n)) THEN Reset(b) ELSE Put(b, n)

\* A bucket nobody points to any more is destroyed by its last shared_ptr.
Collect(h, cur, imm, bk) ==
  LET reachable == {cur} \cup Range(imm) \cup Range(bk)
  IN  [a \in Bucket |-> IF a \in reachable THEN h[a] ELSE NoBucket]

\* make_shared: any address that is not in use.
NewAddress == CHOOSE a \in Bucket : heap[a] = NoBucket

-----------------------------------------------------------------------------
(* alloc(size): the whole call holds mtx_.                                 *)

AllocEnter(t, o, n) ==
  /\ pc[t] = "idle"
  /\ lock = NoThread
  /\ slice[o] = NoSlice
  /\ \A u \in Thread : obj[u] # o
  /\ lock' = t
  /\ pc' = [pc EXCEPT ![t] = IF current = NoBucket THEN "refill" ELSE "get"]
  /\ obj' = [obj EXCEPT ![t] = o]
  /\ size' = [size EXCEPT ![t] = n]
  /\ UNCHANGED <<poolVars, mine, heap, current, immutable, slice, arg, bkt>>

ReturnAlloc(t) ==
  /\ lock' = NoThread
  /\ pc' = [pc EXCEPT ![t] = "idle"]
  /\ obj' = [obj EXCEPT ![t] = NoObject]
  /\ size' = [size EXCEPT ![t] = 0]

GetSlice(t) ==
  /\ pc[t] = "get"
  /\ Fits(heap[current], size[t])
  /\ slice' = [slice EXCEPT ![obj[t]] =
       [bid |-> heap[current].bid, off |-> heap[current].cur, size |-> size[t]]]
  /\ heap' = [heap EXCEPT ![current] = Get(@, size[t])]
  /\ ReturnAlloc(t)
  /\ UNCHANGED <<poolVars, mine, current, immutable, arg, bkt>>

\* No room: the bucket becomes immutable.  insert() does nothing when the map
\* already has an entry for the block.
Retire(t) ==
  /\ pc[t] = "get"
  /\ ~Fits(heap[current], size[t])
  /\ immutable' = [immutable EXCEPT ![heap[current].bid] =
                     IF @ = NoBucket THEN current ELSE @]
  /\ pc' = [pc EXCEPT ![t] = "refill"]
  /\ UNCHANGED <<poolVars, mine, heap, current, lock, slice, obj, size, arg, bkt>>

\* current_ = bucket_alloc_->alloc().
Refill(t) ==
  /\ pc[t] = "refill"
  /\ \E b \in avail :
       /\ Take({b})
       /\ mine' = mine \cup {b}
       /\ current' = NewAddress
       /\ heap' = Collect([heap EXCEPT ![NewAddress] = NewBucket(b)],
                          NewAddress, immutable, bkt)
  /\ pc' = [pc EXCEPT ![t] = "get"]
  /\ UNCHANGED <<immutable, lock, slice, obj, size, arg, bkt>>

RefillThrowsLocked(t) ==
  /\ pc[t] = "refill"
  /\ pc' = [pc EXCEPT ![t] = "idle"]
  /\ obj' = [obj EXCEPT ![t] = NoObject]
  /\ size' = [size EXCEPT ![t] = 0]
  /\ UNCHANGED <<poolVars, poolState, slice, arg, bkt>>

RefillWaits(t) ==
  /\ pc[t] = "refill"
  /\ UNCHANGED vars

\* The allocator refuses: it has no block, or none while another request is
\* holding some (BlockAllocator!Miss).  current_ keeps the retired bucket.
RefillThrows(t) ==
  /\ pc[t] = "refill"
  /\ ReturnAlloc(t)
  /\ UNCHANGED <<poolVars, mine, heap, current, immutable, slice, arg, bkt>>

-----------------------------------------------------------------------------
(* free(slice): called once for a slice, blob_store::remove having erased   *)
(* the object's index entry under its own mutex.                            *)

FreeFromCurrent(t, o) ==
  /\ pc[t] = "idle"
  /\ lock = NoThread
  /\ slice[o] # NoSlice
  /\ heap[current].bid = slice[o].bid
  /\ heap' = [heap EXCEPT ![current] = PutCurrent(@, slice[o].size)]
  /\ slice' = [slice EXCEPT ![o] = NoSlice]
  /\ UNCHANGED <<poolVars, mine, current, immutable, lock, pc, obj, size, arg, bkt>>

\* Not the current bucket's block: the mutex is dropped.
FreeFromImmutable(t, o) ==
  /\ pc[t] = "idle"
  /\ lock = NoThread
  /\ slice[o] # NoSlice
  /\ heap[current].bid # slice[o].bid
  /\ arg' = [arg EXCEPT ![t] = slice[o]]
  /\ slice' = [slice EXCEPT ![o] = NoSlice]
  /\ pc' = [pc EXCEPT ![t] = "find"]
  /\ UNCHANGED <<poolVars, poolState, obj, size, bkt>>

Find(t) ==
  /\ pc[t] = "find"
  /\ immutable[arg[t].bid] # NoBucket
  /\ bkt' = [bkt EXCEPT ![t] = immutable[arg[t].bid]]
  /\ pc' = [pc EXCEPT ![t] = "put"]
  /\ UNCHANGED <<poolVars, poolState, slice, obj, size, arg>>

FindThrows(t) ==
  /\ pc[t] = "find"
  /\ immutable[arg[t].bid] = NoBucket
  /\ arg' = [arg EXCEPT ![t] = NoSlice]
  /\ pc' = [pc EXCEPT ![t] = "idle"]
  /\ UNCHANGED <<poolVars, poolState, slice, obj, size, bkt>>

\* put_mt, under the bucket's mutex.
PutSlice(t) ==
  /\ pc[t] = "put"
  /\ LET b == Put(heap[bkt[t]], arg[t].size) IN
       /\ ~AllFreed(b)
       /\ bkt' = [bkt EXCEPT ![t] = NoBucket]
       /\ heap' = Collect([heap EXCEPT ![bkt[t]] = b], current, immutable, bkt')
  /\ arg' = [arg EXCEPT ![t] = NoSlice]
  /\ pc' = [pc EXCEPT ![t] = "idle"]
  /\ UNCHANGED <<poolVars, mine, current, immutable, lock, slice, obj, size>>

PutLastSlice(t) ==
  /\ pc[t] = "put"
  /\ LET b == Put(heap[bkt[t]], arg[t].size) IN
       /\ AllFreed(b)
       /\ heap' = [heap EXCEPT ![bkt[t]] = b]
  /\ pc' = [pc EXCEPT ![t] = "release"]
  /\ UNCHANGED <<poolVars, mine, current, immutable, lock, slice, obj, size, arg, bkt>>

\* The block goes back to the allocator before the map forgets the bucket.
Release(t) ==
  /\ pc[t] = "release"
  /\ GiveBack({heap[bkt[t]].bid})
  /\ mine' = mine \ {heap[bkt[t]].bid}
  /\ pc' = [pc EXCEPT ![t] = "erase"]
  /\ UNCHANGED <<heap, current, immutable, lock, slice, obj, size, arg, bkt>>

Erase(t) ==
  /\ pc[t] = "erase"
  /\ immutable' = [immutable EXCEPT ![arg[t].bid] = NoBucket]
  /\ bkt' = [bkt EXCEPT ![t] = NoBucket]
  /\ heap' = Collect(heap, current, immutable', bkt')
  /\ arg' = [arg EXCEPT ![t] = NoSlice]
  /\ pc' = [pc EXCEPT ![t] = "idle"]
  /\ UNCHANGED <<poolVars, mine, current, lock, slice, obj, size>>

-----------------------------------------------------------------------------
(* Other requests on the same allocator: large objects, other pools.       *)

TakeElsewhere(b) ==
  /\ Take({b})
  /\ UNCHANGED <<poolState, slice, pc, obj, size, arg, bkt>>

GiveBackElsewhere(b) ==
  /\ b \notin mine
  /\ GiveBack({b})
  /\ UNCHANGED <<poolState, slice, pc, obj, size, arg, bkt>>

-----------------------------------------------------------------------------

Continue(t) ==
  \/ GetSlice(t) \/ Retire(t) \/ Refill(t) \/ RefillThrows(t)
  \/ Find(t) \/ FindThrows(t) \/ PutSlice(t) \/ PutLastSlice(t)
  \/ Release(t) \/ Erase(t)

Call(t) ==
  \E o \in Object :
    \/ \E n \in Size : AllocEnter(t, o, n)
    \/ FreeFromCurrent(t, o)
    \/ FreeFromImmutable(t, o)

Elsewhere == \E b \in Block : TakeElsewhere(b) \/ GiveBackElsewhere(b)

Next == Elsewhere \/ \E t \in Thread : Call(t) \/ Continue(t)

Spec == Init /\ [][Next]_vars

\* A thread inside a call is running code; nothing in it waits for another
\* thread, since only the holder of mtx_ is past AllocEnter.
FairSpec == Spec /\ \A t \in Thread : WF_vars(Continue(t))

-----------------------------------------------------------------------------
(* Properties                                                              *)

TypeOK ==
  /\ avail \subseteq Block /\ leased \subseteq Block /\ mine \subseteq Block
  /\ heap \in [Bucket -> BucketState \cup {NoBucket}]
  /\ current \in Bucket \cup {NoBucket}
  /\ immutable \in [Block -> Bucket \cup {NoBucket}]
  /\ lock \in Thread \cup {NoThread}
  /\ slice \in [Object -> Slice \cup {NoSlice}]
  /\ pc \in [Thread -> Label]
  /\ obj \in [Thread -> Object \cup {NoObject}]
  /\ size \in [Thread -> Size \cup {0}]
  /\ arg \in [Thread -> Slice \cup {NoSlice}]
  /\ bkt \in [Thread -> Bucket \cup {NoBucket}]

Bytes(s) == s.off .. s.off + s.size - 1

Live == {o \in Object : slice[o] # NoSlice}

\* Two objects never share a byte, a slice ends inside its block, and the
\* block is one the allocator has leased to this pool: no interleaving of
\* alloc, free and the reuse of a block gives an object's bytes away.
SlicesDisjoint ==
  \A o \in Live :
    /\ slice[o].bid \in mine
    /\ slice[o].off + slice[o].size <= Capacity
    /\ \A p \in Live \ {o} :
         slice[o].bid = slice[p].bid => Bytes(slice[o]) \cap Bytes(slice[p]) = {}

\* A block is given back by one thread, once, while this pool has it: the
\* bucket's block is never somebody else's when it is released.
ReleasedByOwner ==
  \A t \in Thread : pc[t] = "release" =>
    /\ heap[bkt[t]].bid \in mine
    /\ \A u \in Thread \ {t} : pc[u] = "release" => heap[bkt[u]].bid # heap[bkt[t]].bid

\* To the blob store the calls are single steps: an object is handed bytes no
\* other has, and gives them back; a block that goes back is nobody's.
Space == INSTANCE SliceSpace WITH space <- mine
ImplementsSpace == Space!Spec

\* While no call is running, a pool whose objects are all gone keeps at most
\* the block of its current bucket: "Deallocate a slice" (slice_pool.h:25).
AllReturned ==
  (Live = {} /\ \A t \in Thread : pc[t] = "idle") =>
    mine \subseteq {heap[a].bid : a \in {current} \ {NoBucket}}

\* The mutex is released on every path, exceptions included, so that every
\* call returns or throws.
EveryCallReturns == \A t \in Thread : pc[t] # "idle" ~> pc[t] = "idle"
MutexReleased == []<>(lock = NoThread)
=============================================================================

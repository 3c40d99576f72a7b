-------------------------- MODULE SlicePoolProofs --------------------------
(***************************************************************************)
(* Proofs about SlicePool: type correctness, that slices never overlap,    *)
(* that blocks are released by their owner, and that the pool implements   *)
(* SliceSpace, however alloc and free interleave, for any number of        *)
(* threads, objects and blocks; and that with one thread every block comes *)
(* back.                                                                   *)
(*                                                                         *)
(* A block of the pool has bytes in use, and at most one bucket that still *)
(* counts: the others that name it were released or have lost a slice, and *)
(* can never again look empty.  A bucket that counts has freed no more     *)
(* than what was cut off it and is not in use any more.                    *)
(***************************************************************************)
EXTENDS SlicePool, FiniteSetTheorems, TLAPS

\* A slice given to free that has not yet been added to a bucket's count.
Freeing == {t \in Thread : pc[t] \in {"find", "put"}}

\* The bytes of a block that an object has or a thread is freeing.
Used(b) ==
  {i \in 0 .. Capacity :
     \/ \E o \in Live : slice[o].bid = b /\ i \in Bytes(slice[o])
     \/ \E t \in Freeing : arg[t].bid = b /\ i \in Bytes(arg[t])}

Apart(r, s) == r.bid = s.bid => r.off + r.size <= s.off \/ s.off + s.size <= r.off

Inside(s) == s.bid \in mine /\ s.size >= 1 /\ s.off + s.size <= Capacity

SlicesOK ==
  /\ \A o \in Live : Inside(slice[o])
  /\ \A t \in Freeing : Inside(arg[t])
  /\ \A o, p \in Live : o # p => Apart(slice[o], slice[p])
  /\ \A o \in Live, t \in Freeing : Apart(slice[o], arg[t])
  /\ \A t, u \in Freeing : t # u => Apart(arg[t], arg[u])

PoolOK == mine \subseteq leased /\ leased \cap avail = {}

Reached(a) ==
  \/ a = current
  \/ \E b \in Block : immutable[b] = a
  \/ \E t \in Thread : bkt[t] = a

HeapOK ==
  /\ current # NoBucket => heap[current] # NoBucket
  /\ current = NoBucket => Live = {}
  /\ \A b \in Block : immutable[b] # NoBucket =>
       heap[immutable[b]] # NoBucket /\ heap[immutable[b]].bid = b
  /\ \A a \in Bucket : heap[a] # NoBucket => Reached(a)

Allocates(t) ==
  /\ lock = t
  /\ obj[t] \in Object /\ slice[obj[t]] = NoSlice
  /\ size[t] \in Size
  /\ arg[t] = NoSlice /\ bkt[t] = NoBucket

HoldsBucket(t) ==
  /\ bkt[t] # NoBucket /\ heap[bkt[t]] # NoBucket
  /\ heap[bkt[t]].bid = arg[t].bid

\* What a thread frees is not in the current bucket's block.
Retired(t) ==
  /\ arg[t].bid \in mine
  /\ current # NoBucket
  /\ heap[current].bid # arg[t].bid

CallOK(t) ==
  /\ pc[t] = "idle" => arg[t] = NoSlice /\ bkt[t] = NoBucket
  /\ pc[t] \in {"get", "refill"} => Allocates(t)
  /\ pc[t] = "get" => current # NoBucket
  /\ pc[t] \in {"find", "put", "release", "erase"} => arg[t] # NoSlice
  /\ pc[t] = "find" => bkt[t] = NoBucket
  /\ pc[t] \in {"find", "put", "release"} => Retired(t)
  /\ pc[t] \in {"put", "release", "erase"} => HoldsBucket(t)

TypeInv ==
  /\ TypeOK /\ PoolOK /\ HeapOK
  /\ \A t \in Thread : CallOK(t)

Releases(t, a) == pc[t] = "release" /\ bkt[t] = a

\* A bucket whose count may still make its block go back.
Counts(a) ==
  /\ heap[a] # NoBucket
  /\ \/ a = current
     \/ heap[a].freed < heap[a].cur
     \/ \E t \in Thread : Releases(t, a)

Room(a) ==
  /\ heap[a].bid \in mine
  /\ heap[a].cur <= Capacity
  /\ Used(heap[a].bid) \subseteq 0 .. heap[a].cur - 1
  /\ heap[a].freed + Cardinality(Used(heap[a].bid)) <= heap[a].cur

CountOK ==
  /\ \A a \in Bucket : Counts(a) => Room(a)
  /\ \A a, c \in Bucket : Counts(a) /\ Counts(c) /\ heap[a].bid = heap[c].bid => a = c
  /\ \A t \in Thread : pc[t] = "release" => heap[bkt[t]].freed = heap[bkt[t]].cur
  /\ \A t, u \in Thread : pc[t] = "release" /\ pc[u] = "release" /\ bkt[t] = bkt[u] => t = u

SliceInv == TypeInv /\ SlicesOK /\ CountOK

-----------------------------------------------------------------------------
(* Addresses of buckets                                                    *)

LEMMA Collected ==
  ASSUME NEW h, NEW c, NEW imm \in [Block -> Bucket \cup {NoBucket}],
         NEW bk \in [Thread -> Bucket \cup {NoBucket}], NEW a \in Bucket
  PROVE  Collect(h, c, imm, bk)[a] =
           IF a = c \/ (\E b \in Block : imm[b] = a) \/ (\E t \in Thread : bk[t] = a)
             THEN h[a] ELSE NoBucket
  BY DEF Collect, Range

LEMMA ImageSize ==
  ASSUME NEW S, NEW T, NEW f \in [S -> T], IsFiniteSet(S)
  PROVE  IsFiniteSet(Range(f)) /\ Cardinality(Range(f)) <= Cardinality(S)
<1>1. f \in Surjection(S, Range(f))
  BY DEF Surjection, Range
<1> QED
  BY <1>1, FS_Surjection

\* There are fewer addresses in use than addresses.
LEMMA NewAddressIsFree ==
  ASSUME TypeOK, HeapOK
  PROVE  NewAddress \in Bucket /\ heap[NewAddress] = NoBucket
<1> DEFINE I == Range(immutable)
           K == Range(bkt)
           R == (I \cup K) \cup {current}
<1>1. /\ IsFiniteSet(I) /\ Cardinality(I) <= Cardinality(Block)
      /\ IsFiniteSet(K) /\ Cardinality(K) <= Cardinality(Thread)
  BY ImageSize, AddressAssumption DEF TypeOK
<1>2. /\ IsFiniteSet(I \cup K)
      /\ Cardinality(I \cup K) = Cardinality(I) + Cardinality(K) - Cardinality(I \cap K)
  BY <1>1, FS_Union
<1>3. IsFiniteSet(R) /\ Cardinality(R) <= Cardinality(I \cup K) + 1
  <2>1. Cardinality(I \cup K) \in Nat
    BY <1>2, FS_CardinalityType
  <2> QED
    BY <1>2, <2>1, FS_AddElement
<1>4. Cardinality(R) < Cardinality(Bucket)
  <2>1. /\ Cardinality(I) \in Nat /\ Cardinality(K) \in Nat
        /\ Cardinality(Block) \in Nat /\ Cardinality(Thread) \in Nat
        /\ Cardinality(Bucket) \in Nat /\ Cardinality(R) \in Nat
    BY <1>1, <1>3, AddressAssumption, FS_CardinalityType
  <2>2. Cardinality(I \cap K) \in Nat
    BY <1>1, FS_Intersection, FS_CardinalityType
  <2> HIDE DEF I, K, R
  <2> QED
    BY <1>1, <1>2, <1>3, <2>1, <2>2, AddressAssumption
<1>5. ~(Bucket \subseteq R)
  <2> SUFFICES ASSUME Bucket \subseteq R PROVE FALSE
    OBVIOUS
  <2>1. Cardinality(Bucket) <= Cardinality(R)
    BY <1>3, FS_Subset
  <2>2. Cardinality(Bucket) \in Nat /\ Cardinality(R) \in Nat
    BY <1>3, AddressAssumption, FS_CardinalityType
  <2> HIDE DEF R
  <2> QED
    BY <1>4, <2>1, <2>2
<1>6. PICK a \in Bucket : a \notin R
  BY <1>5
<1>7. heap[a] = NoBucket
  BY <1>6 DEF HeapOK, Reached, Range, TypeOK
<1> QED
  BY <1>7 DEF NewAddress

-----------------------------------------------------------------------------
(* Types                                                                   *)

LEMMA SizeType == \A n \in Size : n \in Nat /\ n >= 1 /\ n < Capacity
  BY SizeAssumption

LEMMA BucketType ==
  ASSUME NEW b \in BucketState, NEW n \in Nat
  PROVE  /\ Get(b, n) = [bid |-> b.bid, cur |-> b.cur + n, freed |-> b.freed]
         /\ Put(b, n) = [bid |-> b.bid, cur |-> b.cur, freed |-> b.freed + n]
         /\ Reset(b) = [bid |-> b.bid, cur |-> 0, freed |-> 0]
         /\ Get(b, n).bid = b.bid /\ Put(b, n).bid = b.bid /\ Reset(b).bid = b.bid
         /\ Put(b, n).cur = b.cur /\ Put(b, n).freed = b.freed + n
         /\ Reset(b).cur = 0 /\ Reset(b).freed = 0
         /\ Get(b, n) \in BucketState /\ Put(b, n) \in BucketState /\ Reset(b) \in BucketState
<1>1. PICK p \in Block, c \in Nat, f \in Nat : b = [bid |-> p, cur |-> c, freed |-> f]
  BY DEF BucketState
<1>2. Get(b, n) = [bid |-> b.bid, cur |-> b.cur + n, freed |-> b.freed]
  BY <1>1 DEF Get
<1>3. Put(b, n) = [bid |-> b.bid, cur |-> b.cur, freed |-> b.freed + n]
  BY <1>1 DEF Put
<1>4. Reset(b) = [bid |-> b.bid, cur |-> 0, freed |-> 0]
  BY <1>1 DEF Reset, NewBucket
<1>5. /\ Get(b, n).bid = b.bid /\ Put(b, n).bid = b.bid /\ Reset(b).bid = b.bid
      /\ Put(b, n).cur = b.cur /\ Put(b, n).freed = b.freed + n
      /\ Reset(b).cur = 0 /\ Reset(b).freed = 0
  BY <1>2, <1>3, <1>4
<1>6. b.bid \in Block /\ b.cur + n \in Nat /\ b.freed + n \in Nat
  BY <1>1
<1> QED
  BY <1>2, <1>3, <1>4, <1>5, <1>6 DEF BucketState

LEMMA TypeStep ==
  ASSUME TypeInv, [Next]_vars
  PROVE  TypeOK'
<1> USE NoneAssumption, SizeAssumption DEF TypeInv, TypeOK, Label
<1>1. ASSUME NEW t \in Thread, NEW o \in Object, NEW n \in Size, AllocEnter(t, o, n)
      PROVE  TypeOK'
  BY <1>1 DEF AllocEnter, poolVars
<1>2. ASSUME NEW t \in Thread, GetSlice(t) PROVE TypeOK'
  <2>1. /\ obj[t] \in Object /\ size[t] \in Size /\ current \in Bucket
        /\ heap[current] \in BucketState
    BY <1>2 DEF GetSlice, CallOK, Allocates, HeapOK
  <2>. size[t] \in Nat
    BY <2>1, SizeType
  <2>2. [bid |-> heap[current].bid, off |-> heap[current].cur, size |-> size[t]] \in Slice
    BY <2>1 DEF BucketState, Slice
  <2>3. Get(heap[current], size[t]) \in BucketState
    BY <2>1, BucketType
  <2> QED
    BY <1>2, <2>1, <2>2, <2>3 DEF GetSlice, ReturnAlloc, poolVars
<1>3. ASSUME NEW t \in Thread, Retire(t) PROVE TypeOK'
  BY <1>3 DEF Retire, poolVars
<1>4. ASSUME NEW t \in Thread, Refill(t) PROVE TypeOK'
  <2>1. NewAddress \in Bucket
    BY NewAddressIsFree
  <2>2. PICK b \in avail : /\ Take({b}) /\ mine' = mine \cup {b} /\ current' = NewAddress
             /\ heap' = Collect([heap EXCEPT ![NewAddress] = NewBucket(b)],
                                NewAddress, immutable, bkt)
    BY <1>4 DEF Refill
  <2>3. NewBucket(b) \in BucketState
    BY <2>2 DEF NewBucket, BucketState
  <2>4. heap' \in [Bucket -> BucketState \cup {NoBucket}]
    BY <2>1, <2>2, <2>3 DEF Collect
  <2> QED
    BY <1>4, <2>1, <2>2, <2>4 DEF Refill, Take
<1>5. ASSUME NEW t \in Thread, RefillThrows(t) PROVE TypeOK'
  BY <1>5 DEF RefillThrows, ReturnAlloc, poolVars
<1>6. ASSUME NEW t \in Thread, NEW o \in Object, FreeFromCurrent(t, o) PROVE TypeOK'
  <2>1. current \in Bucket /\ heap[current] \in BucketState /\ slice[o] \in Slice
    BY <1>6 DEF FreeFromCurrent, HeapOK, Live
  <2>2. slice[o].size \in Nat
    BY <2>1 DEF Slice
  <2>3. PutCurrent(heap[current], slice[o].size) \in BucketState
    BY <2>1, <2>2, BucketType DEF PutCurrent
  <2> QED
    BY <1>6, <2>1, <2>3 DEF FreeFromCurrent, poolVars
<1>7. ASSUME NEW t \in Thread, NEW o \in Object, FreeFromImmutable(t, o) PROVE TypeOK'
  BY <1>7 DEF FreeFromImmutable, poolVars, poolState
<1>8. ASSUME NEW t \in Thread, Find(t) PROVE TypeOK'
  <2>1. arg[t].bid \in Block
    BY <1>8 DEF Find, CallOK, Slice
  <2> QED
    BY <1>8, <2>1 DEF Find, poolVars, poolState
<1>9. ASSUME NEW t \in Thread, FindThrows(t) PROVE TypeOK'
  BY <1>9 DEF FindThrows, poolVars, poolState
<1>10. ASSUME NEW t \in Thread, PutSlice(t) \/ PutLastSlice(t) PROVE TypeOK'
  <2>1. /\ bkt[t] \in Bucket /\ heap[bkt[t]] \in BucketState /\ arg[t] \in Slice
    BY <1>10 DEF PutSlice, PutLastSlice, CallOK, HoldsBucket
  <2>2. Put(heap[bkt[t]], arg[t].size) \in BucketState
    BY <2>1 DEF BucketState, Slice, Put
  <2>3. CASE PutSlice(t)
    BY <2>1, <2>2, <2>3 DEF PutSlice, Collect, poolVars
  <2>4. CASE PutLastSlice(t)
    BY <2>1, <2>2, <2>4 DEF PutLastSlice, poolVars
  <2> QED
    BY <1>10, <2>3, <2>4
<1>11. ASSUME NEW t \in Thread, Release(t) PROVE TypeOK'
  BY <1>11 DEF Release, GiveBack
<1>12. ASSUME NEW t \in Thread, Erase(t) PROVE TypeOK'
  BY <1>12 DEF Erase, Collect, poolVars
<1>13. CASE Elsewhere
  BY <1>13 DEF Elsewhere, TakeElsewhere, GiveBackElsewhere, Take, GiveBack, poolState
<1>14. CASE UNCHANGED vars
  BY <1>14 DEF vars
<1> QED
  BY <1>1, <1>2, <1>3, <1>4, <1>5, <1>6, <1>7, <1>8, <1>9, <1>10, <1>11, <1>12, <1>13, <1>14
  DEF Next, Call, Continue

LEMMA TypeInit == Init => TypeInv
  BY NoneAssumption DEF Init, TypeInv, TypeOK, PoolOK, HeapOK, CallOK, Live, Label, Reached

-----------------------------------------------------------------------------
(* Buckets stay where they are as long as somebody points to them          *)

Kept ==
  \A a \in Bucket :
    /\ heap[a] # NoBucket /\ Reached(a)' => heap'[a] # NoBucket /\ heap'[a].bid = heap[a].bid
    /\ heap'[a] # NoBucket => Reached(a)'

LEMMA SameHeap ==
  ASSUME TypeInv, heap' = heap, \A a \in Bucket : Reached(a) => Reached(a)'
  PROVE  Kept
  BY DEF Kept, TypeInv, HeapOK

LEMMA OneBucketChanges ==
  ASSUME TypeInv, TypeOK', NEW a \in Bucket, NEW b \in BucketState, b.bid = heap[a].bid,
         heap' = [heap EXCEPT ![a] = b],
         current' = current, immutable' = immutable, bkt' = bkt, heap[a] # NoBucket
  PROVE  Kept
<1>1. \A c \in Bucket : Reached(c)' = Reached(c)
  BY DEF Reached
<1>2. b # NoBucket
  BY RecordAssumption
<1> QED
  BY <1>1, <1>2 DEF Kept, TypeInv, TypeOK, HeapOK

LEMMA HeapCollected ==
  ASSUME TypeInv, TypeOK', NEW h,
         heap' = Collect(h, current', immutable', bkt'),
         \A a \in Bucket : heap[a] # NoBucket => h[a] # NoBucket /\ h[a].bid = heap[a].bid
  PROVE  Kept
<1>1. ASSUME NEW a \in Bucket
      PROVE  heap'[a] = IF Reached(a)' THEN h[a] ELSE NoBucket
  BY Collected DEF TypeOK, Reached
<1> QED
  BY <1>1 DEF Kept

LEMMA PutType ==
  ASSUME TypeInv, NEW t \in Thread, pc[t] = "put"
  PROVE  /\ bkt[t] \in Bucket /\ heap[bkt[t]] \in BucketState /\ arg[t] \in Slice
         /\ arg[t].size \in Nat
         /\ Put(heap[bkt[t]], arg[t].size) =
              [bid |-> heap[bkt[t]].bid, cur |-> heap[bkt[t]].cur,
               freed |-> heap[bkt[t]].freed + arg[t].size]
         /\ Put(heap[bkt[t]], arg[t].size) \in BucketState
         /\ Put(heap[bkt[t]], arg[t].size).bid = heap[bkt[t]].bid
<1>1. /\ bkt[t] \in Bucket /\ heap[bkt[t]] \in BucketState /\ arg[t] \in Slice
  BY DEF TypeInv, TypeOK, CallOK, HoldsBucket
<1>2. arg[t].size \in Nat
  BY <1>1 DEF Slice
<1> QED
  BY <1>1, <1>2, BucketType

LEMMA GetType ==
  ASSUME TypeInv, NEW t \in Thread, pc[t] = "get"
  PROVE  /\ current \in Bucket /\ heap[current] \in BucketState
         /\ obj[t] \in Object /\ slice[obj[t]] = NoSlice
         /\ size[t] \in Nat /\ size[t] >= 1 /\ size[t] < Capacity
         /\ Get(heap[current], size[t]) =
              [bid |-> heap[current].bid, cur |-> heap[current].cur + size[t],
               freed |-> heap[current].freed]
         /\ Get(heap[current], size[t]) \in BucketState
<1>1. /\ current \in Bucket /\ heap[current] \in BucketState
      /\ obj[t] \in Object /\ slice[obj[t]] = NoSlice /\ size[t] \in Size
  BY DEF TypeInv, TypeOK, HeapOK, CallOK, Allocates
<1>2. size[t] \in Nat /\ size[t] >= 1 /\ size[t] < Capacity
  BY <1>1, SizeType
<1> QED
  BY <1>1, <1>2, BucketType

LEMMA FreeType ==
  ASSUME TypeInv, NEW o \in Object, slice[o] # NoSlice
  PROVE  /\ current \in Bucket /\ heap[current] \in BucketState
         /\ slice[o] \in Slice /\ slice[o].size \in Nat
         /\ PutCurrent(heap[current], slice[o].size) \in BucketState
         /\ PutCurrent(heap[current], slice[o].size).bid = heap[current].bid
         /\ PutCurrent(heap[current], slice[o].size) =
              IF heap[current].freed + slice[o].size = heap[current].cur
                THEN [bid |-> heap[current].bid, cur |-> 0, freed |-> 0]
                ELSE [bid |-> heap[current].bid, cur |-> heap[current].cur,
                      freed |-> heap[current].freed + slice[o].size]
<1>1. current \in Bucket /\ heap[current] \in BucketState /\ slice[o] \in Slice
  BY DEF TypeInv, TypeOK, HeapOK, Live
<1>2. slice[o].size \in Nat
  BY <1>1 DEF Slice
<1>3. /\ Put(heap[current], slice[o].size) =
           [bid |-> heap[current].bid, cur |-> heap[current].cur,
            freed |-> heap[current].freed + slice[o].size]
      /\ Reset(heap[current]) = [bid |-> heap[current].bid, cur |-> 0, freed |-> 0]
      /\ Put(heap[current], slice[o].size) \in BucketState
      /\ Reset(heap[current]) \in BucketState
  BY <1>1, <1>2, BucketType
<1> QED
  BY <1>1, <1>2, <1>3 DEF PutCurrent, AllFreed

LEMMA KeptStep ==
  ASSUME TypeInv, [Next]_vars
  PROVE  Kept
<1>0. TypeOK'
  BY TypeStep
<1>1. ASSUME NEW t \in Thread, NEW o \in Object, NEW n \in Size, AllocEnter(t, o, n)
      PROVE  Kept
  BY <1>1, SameHeap DEF AllocEnter, Reached
<1>2. ASSUME NEW t \in Thread, GetSlice(t) PROVE Kept
  BY <1>0, <1>2, GetType, OneBucketChanges, NoneAssumption, RecordAssumption DEF GetSlice
<1>3. ASSUME NEW t \in Thread, Retire(t) PROVE Kept
  <2>1. heap[current].bid \in Block
    BY <1>3, GetType DEF Retire, BucketState
  <2>2. \A a \in Bucket : Reached(a) => Reached(a)'
    BY <1>3, <2>1, NoneAssumption DEF Retire, Reached, TypeInv, TypeOK
  <2> QED
    BY <1>3, <2>2, SameHeap DEF Retire
<1>4. ASSUME NEW t \in Thread, Refill(t) PROVE Kept
  <2>1. NewAddress \in Bucket /\ heap[NewAddress] = NoBucket
    BY NewAddressIsFree DEF TypeInv
  <2>2. PICK b \in avail :
          /\ current' = NewAddress
          /\ heap' = Collect([heap EXCEPT ![NewAddress] = NewBucket(b)],
                             NewAddress, immutable, bkt)
    BY <1>4 DEF Refill
  <2> DEFINE h == [heap EXCEPT ![NewAddress] = NewBucket(b)]
  <2>3. \A a \in Bucket : heap[a] # NoBucket => h[a] = heap[a]
    BY <2>1 DEF TypeInv, TypeOK
  <2>4. heap' = Collect(h, current', immutable', bkt')
    BY <1>4, <2>2 DEF Refill
  <2> HIDE DEF h
  <2> QED
    BY <1>0, <2>3, <2>4, HeapCollected
<1>5. ASSUME NEW t \in Thread, RefillThrows(t) PROVE Kept
  BY <1>5, SameHeap DEF RefillThrows, Reached
<1>6. ASSUME NEW t \in Thread, NEW o \in Object, FreeFromCurrent(t, o) PROVE Kept
  BY <1>0, <1>6, FreeType, OneBucketChanges, RecordAssumption DEF FreeFromCurrent
<1>7. ASSUME NEW t \in Thread, NEW o \in Object, FreeFromImmutable(t, o) PROVE Kept
  BY <1>7, SameHeap DEF FreeFromImmutable, poolState, Reached
<1>8. ASSUME NEW t \in Thread, Find(t) PROVE Kept
  <2>1. bkt[t] = NoBucket
    BY <1>8 DEF Find, TypeInv, CallOK
  <2>2. \A a \in Bucket : Reached(a) => Reached(a)'
    BY <1>8, <2>1, NoneAssumption DEF Find, poolState, Reached, TypeInv, TypeOK
  <2> QED
    BY <1>8, <2>2, SameHeap DEF Find, poolState
<1>9. ASSUME NEW t \in Thread, FindThrows(t) PROVE Kept
  BY <1>9, SameHeap DEF FindThrows, poolState, Reached
<1>10. ASSUME NEW t \in Thread, PutSlice(t) PROVE Kept
  <2> DEFINE b == Put(heap[bkt[t]], arg[t].size)
             h == [heap EXCEPT ![bkt[t]] = b]
  <2>1. /\ bkt[t] \in Bucket /\ b.bid = heap[bkt[t]].bid /\ b # NoBucket
    BY <1>10, PutType, RecordAssumption DEF PutSlice
  <2>2. heap' = Collect(h, current', immutable', bkt')
    BY <1>10 DEF PutSlice
  <2>3. \A a \in Bucket : heap[a] # NoBucket => h[a] # NoBucket /\ h[a].bid = heap[a].bid
    BY <2>1 DEF TypeInv, TypeOK
  <2> HIDE DEF h
  <2> QED
    BY <1>0, <2>2, <2>3, HeapCollected
<1>11. ASSUME NEW t \in Thread, PutLastSlice(t) PROVE Kept
  BY <1>0, <1>11, PutType, OneBucketChanges, RecordAssumption DEF PutLastSlice
<1>12. ASSUME NEW t \in Thread, Release(t) PROVE Kept
  BY <1>12, SameHeap DEF Release, Reached
<1>13. ASSUME NEW t \in Thread, Erase(t) PROVE Kept
  BY <1>0, <1>13, HeapCollected DEF Erase
<1>14. CASE Elsewhere
  BY <1>14, SameHeap DEF Elsewhere, TakeElsewhere, GiveBackElsewhere, poolState, Reached
<1>15. CASE UNCHANGED vars
  BY <1>15, SameHeap DEF vars, Reached
<1> QED
  BY <1>1, <1>2, <1>3, <1>4, <1>5, <1>6, <1>7, <1>8, <1>9, <1>10, <1>11, <1>12, <1>13, <1>14, <1>15
  DEF Next, Call, Continue

-----------------------------------------------------------------------------
(* The pool, its map of buckets and the locals of calls                    *)

\* The bucket of a block the pool was just given.
LEMMA Refilled ==
  ASSUME TypeInv, TypeOK', NEW t \in Thread, Refill(t)
  PROVE  \E b \in avail :
           /\ avail' = avail \ {b} /\ leased' = leased \cup {b} /\ mine' = mine \cup {b}
           /\ current' \in Bucket /\ heap[current'] = NoBucket
           /\ heap'[current'] = NewBucket(b)
           /\ \A a \in Bucket : a # current' => heap'[a] \in {heap[a], NoBucket}
<1>1. NewAddress \in Bucket /\ heap[NewAddress] = NoBucket
  BY NewAddressIsFree DEF TypeInv
<1>2. PICK b \in avail :
        /\ Take({b}) /\ mine' = mine \cup {b}
        /\ current' = NewAddress
        /\ heap' = Collect([heap EXCEPT ![NewAddress] = NewBucket(b)],
                           NewAddress, immutable, bkt)
  BY DEF Refill
<1> DEFINE h == [heap EXCEPT ![NewAddress] = NewBucket(b)]
<1>3. h[NewAddress] = NewBucket(b) /\ \A a \in Bucket : a # NewAddress => h[a] = heap[a]
  BY <1>1 DEF TypeInv, TypeOK
<1>4. heap' = Collect(h, NewAddress, immutable, bkt)
  BY <1>2
<1> HIDE DEF h
<1>5. heap'[NewAddress] = h[NewAddress]
  BY <1>1, <1>4, Collected DEF TypeInv, TypeOK
<1>6. \A a \in Bucket : heap'[a] \in {h[a], NoBucket}
  BY <1>4, Collected DEF TypeInv, TypeOK
<1> QED
  BY <1>1, <1>2, <1>3, <1>5, <1>6 DEF Take

LEMMA PoolStep ==
  ASSUME TypeInv, [Next]_vars
  PROVE  PoolOK'
<1> USE DEF TypeInv, PoolOK
<1>1. ASSUME NEW t \in Thread, Refill(t) PROVE PoolOK'
  BY <1>1, Refilled, TypeStep
<1>2. ASSUME NEW t \in Thread, Release(t) PROVE PoolOK'
  BY <1>2 DEF Release, GiveBack
<1>3. CASE Elsewhere
  BY <1>3 DEF Elsewhere, TakeElsewhere, GiveBackElsewhere, Take, GiveBack, poolState
<1>4. ASSUME NEW t \in Thread, Call(t) PROVE PoolOK'
  BY <1>4 DEF Call, AllocEnter, FreeFromCurrent, FreeFromImmutable, poolVars, poolState
<1>5. ASSUME NEW t \in Thread, GetSlice(t) \/ Retire(t) \/ RefillThrows(t) PROVE PoolOK'
  BY <1>5 DEF GetSlice, Retire, RefillThrows, poolVars
<1>6. ASSUME NEW t \in Thread,
             Find(t) \/ FindThrows(t) \/ PutSlice(t) \/ PutLastSlice(t) \/ Erase(t)
      PROVE  PoolOK'
  BY <1>6 DEF Find, FindThrows, PutSlice, PutLastSlice, Erase, poolVars, poolState
<1> QED
  BY <1>1, <1>2, <1>3, <1>4, <1>5, <1>6 DEF Next, Continue, vars

\* Only a refill changes current.
LEMMA CurrentStep ==
  ASSUME [Next]_vars
  PROVE  current' = current \/ \E t \in Thread : Refill(t)
<1>1. ASSUME NEW t \in Thread, Call(t) PROVE current' = current
  BY <1>1 DEF Call, AllocEnter, FreeFromCurrent, FreeFromImmutable, poolState
<1>2. CASE Elsewhere
  BY <1>2 DEF Elsewhere, TakeElsewhere, GiveBackElsewhere, poolState
<1>3. ASSUME NEW t \in Thread, Continue(t), ~Refill(t) PROVE current' = current
  BY <1>3 DEF Continue, GetSlice, Retire, RefillThrows, Find, FindThrows, PutSlice,
     PutLastSlice, Release, Erase, poolState
<1> QED
  BY <1>1, <1>2, <1>3 DEF Next, vars

\* An object gets a slice while the pool has a current bucket.
LEMMA LiveStep ==
  ASSUME TypeInv, [Next]_vars
  PROVE  Live' \subseteq Live \/ current # NoBucket
<1> USE DEF Live, TypeInv, TypeOK
<1>1. ASSUME NEW t \in Thread, Call(t) PROVE Live' \subseteq Live
  BY <1>1 DEF Call, AllocEnter, FreeFromCurrent, FreeFromImmutable
<1>2. ASSUME NEW t \in Thread, GetSlice(t) PROVE current # NoBucket
  BY <1>2 DEF GetSlice, CallOK
<1>3. ASSUME NEW t \in Thread, Continue(t), ~GetSlice(t) PROVE Live' \subseteq Live
  BY <1>3 DEF Continue, Refill, Retire, RefillThrows, Find, FindThrows, PutSlice,
     PutLastSlice, Release, Erase
<1>4. CASE Elsewhere
  BY <1>4 DEF Elsewhere, TakeElsewhere, GiveBackElsewhere
<1> QED
  BY <1>1, <1>2, <1>3, <1>4 DEF Next, vars

LEMMA MapStep ==
  ASSUME TypeInv, [Next]_vars, NEW b \in Block
  PROVE  \/ immutable'[b] \in {immutable[b], NoBucket}
         \/ immutable'[b] = current /\ current # NoBucket /\ heap[current].bid = b
<1> USE DEF TypeInv, TypeOK
<1>1. ASSUME NEW t \in Thread, Call(t) PROVE immutable' = immutable
  BY <1>1 DEF Call, AllocEnter, FreeFromCurrent, FreeFromImmutable, poolState
<1>2. CASE Elsewhere
  BY <1>2 DEF Elsewhere, TakeElsewhere, GiveBackElsewhere, poolState
<1>3. ASSUME NEW t \in Thread, Retire(t)
      PROVE  \/ immutable'[b] = immutable[b]
             \/ immutable'[b] = current /\ current # NoBucket /\ heap[current].bid = b
  BY <1>3, GetType, NoneAssumption DEF Retire, BucketState
<1>4. ASSUME NEW t \in Thread, Erase(t) PROVE immutable'[b] \in {immutable[b], NoBucket}
  BY <1>4 DEF Erase
<1>5. ASSUME NEW t \in Thread, Continue(t), ~Retire(t), ~Erase(t) PROVE immutable' = immutable
  BY <1>5 DEF Continue, GetSlice, Refill, RefillThrows, Find, FindThrows, PutSlice,
     PutLastSlice, Release, poolState
<1> QED
  BY <1>1, <1>2, <1>3, <1>4, <1>5 DEF Next, vars

LEMMA HeapStep ==
  ASSUME TypeInv, [Next]_vars
  PROVE  HeapOK'
<1>0. TypeOK' /\ Kept
  BY TypeStep, KeptStep
<1>1. current' # NoBucket => heap'[current'] # NoBucket
  <2>1. CASE current' = current
    BY <1>0, <2>1 DEF Kept, Reached, TypeInv, TypeOK, HeapOK
  <2>2. ASSUME NEW t \in Thread, Refill(t) PROVE heap'[current'] # NoBucket
    <3>1. PICK b \in avail : heap'[current'] = NewBucket(b)
      BY <1>0, <2>2, Refilled
    <3>2. NewBucket(b) \in BucketState
      BY DEF NewBucket, BucketState, TypeInv, TypeOK
    <3> QED
      BY <3>1, <3>2, RecordAssumption
  <2> QED
    BY <2>1, <2>2, CurrentStep
<1>2. current' = NoBucket => Live' = {}
  <2>1. current' = NoBucket => current = NoBucket
    BY <1>0, CurrentStep, Refilled, NoneAssumption
  <2> QED
    BY <2>1, LiveStep DEF TypeInv, HeapOK
<1>3. ASSUME NEW b \in Block, immutable'[b] # NoBucket
      PROVE  heap'[immutable'[b]] # NoBucket /\ heap'[immutable'[b]].bid = b
  <2>1. /\ immutable'[b] \in Bucket /\ heap[immutable'[b]] # NoBucket
        /\ heap[immutable'[b]].bid = b
    BY <1>3, MapStep DEF TypeInv, TypeOK, HeapOK
  <2>2. \A a \in Bucket : immutable'[b] = a => Reached(a)'
    BY DEF Reached
  <2> QED
    BY <1>0, <2>1, <2>2 DEF Kept
<1>4. \A a \in Bucket : heap'[a] # NoBucket => Reached(a)'
  BY <1>0 DEF Kept
<1> QED
  BY <1>1, <1>2, <1>3, <1>4 DEF HeapOK

\* Locals, apart from what is said of buckets and blocks.
LocalsOK(t) ==
  /\ pc[t] = "idle" => arg[t] = NoSlice /\ bkt[t] = NoBucket
  /\ pc[t] \in {"get", "refill"} => Allocates(t)
  /\ pc[t] = "get" => current # NoBucket
  /\ pc[t] \in {"find", "put", "release", "erase"} => arg[t] # NoSlice
  /\ pc[t] = "find" => bkt[t] = NoBucket

LEMMA LocalsStep ==
  ASSUME TypeInv, [Next]_vars, NEW u \in Thread
  PROVE  LocalsOK(u)'
<1>0. TypeOK' /\ CallOK(u)
  BY TypeStep DEF TypeInv
<1> USE NoneAssumption DEF TypeOK, TypeInv, CallOK, LocalsOK, Allocates
<1>1. ASSUME NEW t \in Thread, NEW o \in Object, NEW n \in Size, AllocEnter(t, o, n)
      PROVE  LocalsOK(u)'
  BY <1>0, <1>1 DEF AllocEnter
<1>2. ASSUME NEW t \in Thread, GetSlice(t) PROVE LocalsOK(u)'
  BY <1>0, <1>2 DEF GetSlice, ReturnAlloc
<1>3. ASSUME NEW t \in Thread, Retire(t) PROVE LocalsOK(u)'
  BY <1>0, <1>3 DEF Retire
<1>4. ASSUME NEW t \in Thread, Refill(t) PROVE LocalsOK(u)'
  <2>1. current' # NoBucket
    BY <1>0, <1>4, Refilled
  <2> QED
    BY <1>0, <1>4, <2>1 DEF Refill
<1>5. ASSUME NEW t \in Thread, RefillThrows(t) PROVE LocalsOK(u)'
  BY <1>0, <1>5 DEF RefillThrows, ReturnAlloc
<1>6. ASSUME NEW t \in Thread, NEW o \in Object, FreeFromCurrent(t, o) PROVE LocalsOK(u)'
  BY <1>0, <1>6 DEF FreeFromCurrent
<1>7. ASSUME NEW t \in Thread, NEW o \in Object, FreeFromImmutable(t, o) PROVE LocalsOK(u)'
  BY <1>0, <1>7 DEF FreeFromImmutable, poolState
<1>8. ASSUME NEW t \in Thread, Find(t) PROVE LocalsOK(u)'
  BY <1>0, <1>8 DEF Find, poolState
<1>9. ASSUME NEW t \in Thread, FindThrows(t) PROVE LocalsOK(u)'
  BY <1>0, <1>9 DEF FindThrows, poolState
<1>10. ASSUME NEW t \in Thread, PutSlice(t) PROVE LocalsOK(u)'
  BY <1>0, <1>10 DEF PutSlice
<1>11. ASSUME NEW t \in Thread, PutLastSlice(t) PROVE LocalsOK(u)'
  BY <1>0, <1>11 DEF PutLastSlice
<1>12. ASSUME NEW t \in Thread, Release(t) PROVE LocalsOK(u)'
  BY <1>0, <1>12 DEF Release
<1>13. ASSUME NEW t \in Thread, Erase(t) PROVE LocalsOK(u)'
  BY <1>0, <1>13 DEF Erase
<1>14. CASE Elsewhere
  BY <1>0, <1>14 DEF Elsewhere, TakeElsewhere, GiveBackElsewhere, poolState
<1>15. CASE UNCHANGED vars
  BY <1>0, <1>15 DEF vars
<1> QED
  BY <1>1, <1>2, <1>3, <1>4, <1>5, <1>6, <1>7, <1>8, <1>9, <1>10, <1>11, <1>12, <1>13, <1>14, <1>15
  DEF Next, Call, Continue

\* A thread comes to hold a bucket by finding it, and keeps it.
LEMMA HoldingStep ==
  ASSUME TypeInv, [Next]_vars, NEW u \in Thread, pc'[u] \in {"put", "release", "erase"}
  PROVE  arg'[u] = arg[u] /\
         \/ pc[u] \in {"put", "release", "erase"} /\ bkt'[u] = bkt[u]
         \/ Find(u) /\ bkt'[u] = immutable[arg[u].bid]
<1> USE DEF TypeInv, TypeOK
<1>1. ASSUME NEW t \in Thread, Call(t)
      PROVE  pc'[u] = pc[u] /\ arg'[u] = arg[u] /\ bkt' = bkt
  BY <1>1 DEF Call, AllocEnter, FreeFromCurrent, FreeFromImmutable
<1>2. ASSUME NEW t \in Thread, Find(t)
      PROVE  \/ pc'[u] = pc[u] /\ arg' = arg /\ bkt'[u] = bkt[u]
             \/ Find(u) /\ arg' = arg /\ bkt'[u] = immutable[arg[u].bid]
  BY <1>2 DEF Find
<1>3. ASSUME NEW t \in Thread, GetSlice(t) \/ Retire(t) \/ Refill(t) \/ RefillThrows(t)
      PROVE  pc'[u] = pc[u] /\ arg' = arg /\ bkt' = bkt
  BY <1>3 DEF GetSlice, Retire, Refill, RefillThrows, ReturnAlloc
<1>4. ASSUME NEW t \in Thread, FindThrows(t) \/ PutSlice(t) \/ Erase(t)
      PROVE  pc'[u] = pc[u] /\ arg'[u] = arg[u] /\ bkt'[u] = bkt[u]
  BY <1>4 DEF FindThrows, PutSlice, Erase
<1>5. ASSUME NEW t \in Thread, PutLastSlice(t) \/ Release(t)
      PROVE  arg' = arg /\ bkt' = bkt /\ pc[u] \in {"put", "release", "erase"}
  BY <1>5 DEF PutLastSlice, Release
<1>6. CASE Elsewhere
  BY <1>6 DEF Elsewhere, TakeElsewhere, GiveBackElsewhere
<1>7. CASE UNCHANGED vars
  BY <1>7 DEF vars
<1> QED
  BY <1>1, <1>2, <1>3, <1>4, <1>5, <1>6, <1>7 DEF Next, Continue

LEMMA HoldsStep ==
  ASSUME TypeInv, [Next]_vars, NEW u \in Thread, pc'[u] \in {"put", "release", "erase"}
  PROVE  HoldsBucket(u)'
<1>1. TypeOK' /\ Kept
  BY TypeStep, KeptStep
<1>2. /\ arg'[u] = arg[u] /\ bkt'[u] \in Bucket
      /\ heap[bkt'[u]] # NoBucket /\ heap[bkt'[u]].bid = arg[u].bid
  <2>1. CASE pc[u] \in {"put", "release", "erase"} /\ bkt'[u] = bkt[u]
    BY <2>1, HoldingStep DEF TypeInv, TypeOK, CallOK, HoldsBucket
  <2>2. CASE Find(u) /\ bkt'[u] = immutable[arg[u].bid]
    <3>1. arg[u].bid \in Block
      BY <2>2 DEF Find, TypeInv, TypeOK, CallOK, Slice
    <3>2. immutable[arg[u].bid] # NoBucket
      BY <2>2 DEF Find
    <3> QED
      BY <2>2, <3>1, <3>2, HoldingStep DEF TypeInv, TypeOK, HeapOK
  <2> QED
    BY <2>1, <2>2, HoldingStep
<1>3. \A a \in Bucket : bkt'[u] = a => Reached(a)'
  BY DEF Reached
<1> QED
  BY <1>1, <1>2, <1>3, NoneAssumption DEF Kept, HoldsBucket

-----------------------------------------------------------------------------
(* The bytes in use                                                        *)

LEMMA BytesType ==
  ASSUME NEW S \in SUBSET (0 .. Capacity)
  PROVE  IsFiniteSet(S) /\ Cardinality(S) \in Nat
<1>1. IsFiniteSet(0 .. Capacity)
  BY SizeAssumption, FS_Interval
<1> QED
  BY <1>1, FS_Subset, FS_CardinalityType

LEMMA IntervalSize ==
  ASSUME NEW a \in Nat, NEW n \in Nat, n >= 1
  PROVE  IsFiniteSet(a .. a + n - 1) /\ Cardinality(a .. a + n - 1) = n
<1> DEFINE e == a + n - 1
<1>1. e \in Int /\ a <= e /\ e - a + 1 = n
  OBVIOUS
<1> HIDE DEF e
<1>2. IsFiniteSet(a .. e) /\ Cardinality(a .. e) = e - a + 1
  BY <1>1, FS_Interval
<1> QED
  BY <1>1, <1>2 DEF e

LEMMA UsedType ==
  ASSUME NEW b
  PROVE  Used(b) \in SUBSET (0 .. Capacity)
  BY DEF Used

LEMMA SliceType ==
  ASSUME TypeInv
  PROVE  /\ \A o \in Live : slice[o] \in Slice /\ slice[o].bid \in Block
                            /\ slice[o].off \in Nat /\ slice[o].size \in Nat
         /\ \A t \in Freeing : arg[t] \in Slice /\ arg[t].bid \in Block
                            /\ arg[t].off \in Nat /\ arg[t].size \in Nat
<1>1. ASSUME NEW s \in Slice PROVE s.bid \in Block /\ s.off \in Nat /\ s.size \in Nat
  BY DEF Slice
<1> QED
  BY <1>1 DEF TypeInv, TypeOK, CallOK, Live, Freeing

LEMMA BytesOf ==
  ASSUME NEW s \in Slice, Inside(s)
  PROVE  /\ Bytes(s) \subseteq 0 .. Capacity
         /\ s.off \in Bytes(s)
         /\ IsFiniteSet(Bytes(s)) /\ Cardinality(Bytes(s)) = s.size
<1>1. s.off \in Nat /\ s.size \in Nat /\ s.size >= 1 /\ s.off + s.size <= Capacity
  BY DEF Slice, Inside
<1>2. IsFiniteSet(Bytes(s)) /\ Cardinality(Bytes(s)) = s.size
  BY <1>1, IntervalSize DEF Bytes
<1> QED
  BY <1>1, <1>2, SizeAssumption DEF Bytes

\* What is in use takes a byte of its block.
LEMMA InUse ==
  ASSUME TypeInv, SlicesOK
  PROVE  /\ \A o \in Live : Bytes(slice[o]) \subseteq Used(slice[o].bid)
         /\ \A t \in Freeing : Bytes(arg[t]) \subseteq Used(arg[t].bid)
         /\ \A o \in Live : Used(slice[o].bid) # {}
         /\ \A t \in Freeing : Used(arg[t].bid) # {}
  BY SliceType, BytesOf DEF Used, SlicesOK

\* A bucket about to be released has nothing in use.
LEMMA ReleasedIsEmpty ==
  ASSUME SliceInv, NEW t \in Thread, pc[t] = "release"
  PROVE  /\ bkt[t] \in Bucket /\ heap[bkt[t]].bid = arg[t].bid
         /\ heap[bkt[t]].bid \in mine
         /\ Used(heap[bkt[t]].bid) = {}
<1>1. /\ bkt[t] \in Bucket /\ heap[bkt[t]] \in BucketState
      /\ heap[bkt[t]] # NoBucket /\ heap[bkt[t]].bid = arg[t].bid
  BY DEF SliceInv, TypeInv, TypeOK, CallOK, HoldsBucket
<1>2. Counts(bkt[t]) /\ heap[bkt[t]].freed = heap[bkt[t]].cur
  BY <1>1 DEF Counts, Releases, SliceInv, CountOK
<1>3. Room(bkt[t])
  BY <1>1, <1>2 DEF SliceInv, CountOK
<1>4. /\ IsFiniteSet(Used(heap[bkt[t]].bid))
      /\ Cardinality(Used(heap[bkt[t]].bid)) \in Nat
  BY BytesType, UsedType
<1>5. Cardinality(Used(heap[bkt[t]].bid)) = 0
  BY <1>1, <1>2, <1>3, <1>4 DEF Room, BucketState
<1> QED
  BY <1>1, <1>3, <1>4, <1>5, FS_EmptySet DEF Room

LEMMA ReleasedIsNobodys ==
  ASSUME SliceInv, NEW t \in Thread, pc[t] = "release"
  PROVE  /\ \A o \in Live : slice[o].bid # heap[bkt[t]].bid
         /\ \A u \in Freeing : arg[u].bid # heap[bkt[t]].bid
         /\ \A u \in Thread : pc[u] = "release" /\ u # t => arg[u].bid # heap[bkt[t]].bid
<1>1. /\ \A o \in Live : slice[o].bid # heap[bkt[t]].bid
      /\ \A u \in Freeing : arg[u].bid # heap[bkt[t]].bid
  BY ReleasedIsEmpty, InUse DEF SliceInv
<1>2. ASSUME NEW u \in Thread, pc[u] = "release", arg[u].bid = heap[bkt[t]].bid
      PROVE  u = t
  <2>1. /\ bkt[t] \in Bucket /\ Counts(bkt[t])
        /\ bkt[u] \in Bucket /\ Counts(bkt[u]) /\ heap[bkt[u]].bid = arg[u].bid
    BY <1>2, ReleasedIsEmpty
       DEF Counts, Releases, SliceInv, TypeInv, CallOK, HoldsBucket
  <2>2. bkt[t] = bkt[u]
    BY <1>2, <2>1 DEF SliceInv, CountOK
  <2> QED
    BY <1>2, <2>2 DEF SliceInv, CountOK
<1> QED
  BY <1>1, <1>2

\* The block of a slice that is being freed stays with the pool until the thread
\* that releases it has passed, and is never that of the current bucket.
LEMMA MineStep ==
  ASSUME TypeInv, [Next]_vars, NEW b \in mine, b \notin mine'
  PROVE  \E t \in Thread : Release(t) /\ b = heap[bkt[t]].bid
<1>1. ASSUME NEW t \in Thread, Call(t) PROVE mine' = mine
  BY <1>1 DEF Call, AllocEnter, FreeFromCurrent, FreeFromImmutable, poolState
<1>2. CASE Elsewhere
  BY <1>2 DEF Elsewhere, TakeElsewhere, GiveBackElsewhere, poolState
<1>3. ASSUME NEW t \in Thread, Release(t) PROVE mine' = mine \ {heap[bkt[t]].bid}
  BY <1>3 DEF Release
<1>4. ASSUME NEW t \in Thread, Refill(t) PROVE mine \subseteq mine'
  BY <1>4 DEF Refill
<1>5. ASSUME NEW t \in Thread, Continue(t), ~Release(t), ~Refill(t) PROVE mine' = mine
  BY <1>5 DEF Continue, GetSlice, Retire, RefillThrows, Find, FindThrows, PutSlice,
     PutLastSlice, Erase, poolState
<1> QED
  BY <1>1, <1>2, <1>3, <1>4, <1>5 DEF Next, vars

LEMMA FreeingStep ==
  ASSUME TypeInv, [Next]_vars, NEW u \in Thread, pc'[u] \in {"find", "put", "release"}
  PROVE  \/ pc[u] \in {"find", "put", "release"} /\ arg'[u] = arg[u] /\ ~Release(u)
         \/ \E o \in Live : FreeFromImmutable(u, o) /\ arg'[u] = slice[o]
<1> USE DEF TypeInv, TypeOK
<1>1. ASSUME NEW t \in Thread, NEW o \in Object, NEW n \in Size,
             AllocEnter(t, o, n) \/ FreeFromCurrent(t, o)
      PROVE  pc'[u] = pc[u] /\ arg' = arg
  BY <1>1 DEF AllocEnter, FreeFromCurrent
<1>2. ASSUME NEW t \in Thread, NEW o \in Object, FreeFromCurrent(t, o)
      PROVE  pc'[u] = pc[u] /\ arg' = arg
  BY <1>2 DEF FreeFromCurrent
<1>3. ASSUME NEW t \in Thread, NEW o \in Object, FreeFromImmutable(t, o)
      PROVE  \/ pc'[u] = pc[u] /\ arg'[u] = arg[u]
             \/ FreeFromImmutable(u, o) /\ arg'[u] = slice[o] /\ o \in Live
  BY <1>3 DEF FreeFromImmutable, Live
<1>4. ASSUME NEW t \in Thread, GetSlice(t) \/ Retire(t) \/ Refill(t) \/ RefillThrows(t)
      PROVE  pc'[u] = pc[u] /\ arg' = arg
  BY <1>4 DEF GetSlice, Retire, Refill, RefillThrows, ReturnAlloc
<1>5. ASSUME NEW t \in Thread, FindThrows(t) \/ PutSlice(t) \/ Erase(t)
      PROVE  pc'[u] = pc[u] /\ arg'[u] = arg[u]
  BY <1>5 DEF FindThrows, PutSlice, Erase
<1>6. ASSUME NEW t \in Thread, Find(t) \/ PutLastSlice(t)
      PROVE  arg' = arg /\ pc[u] \in {"find", "put", "release"}
  BY <1>6 DEF Find, PutLastSlice
<1>7. ASSUME NEW t \in Thread, Release(t)
      PROVE  arg' = arg /\ pc[u] = pc'[u] /\ u # t
  BY <1>7 DEF Release
<1>8. CASE Elsewhere
  BY <1>8 DEF Elsewhere, TakeElsewhere, GiveBackElsewhere, Release
<1>9. CASE UNCHANGED vars
  BY <1>9 DEF vars, Release
<1>10. Release(u) => pc[u] = "release" /\ pc'[u] = "erase"
  BY DEF Release
<1> QED
  BY <1>1, <1>2, <1>3, <1>4, <1>5, <1>6, <1>7, <1>8, <1>9, <1>10 DEF Next, Call, Continue

LEMMA RetiredStep ==
  ASSUME SliceInv, [Next]_vars, NEW u \in Thread, pc'[u] \in {"find", "put", "release"}
  PROVE  Retired(u)'
<1>0. TypeInv /\ TypeOK' /\ Kept /\ SlicesOK
  BY TypeStep, KeptStep DEF SliceInv, TypeInv
<1>1. /\ arg'[u].bid \in mine
      /\ current # NoBucket /\ heap[current] # NoBucket /\ heap[current].bid # arg'[u].bid
  <2>1. CASE pc[u] \in {"find", "put", "release"} /\ arg'[u] = arg[u]
    BY <1>0, <2>1 DEF TypeInv, CallOK, Retired, HeapOK
  <2>2. ASSUME NEW o \in Live, FreeFromImmutable(u, o), arg'[u] = slice[o]
        PROVE  /\ arg'[u].bid \in mine
               /\ current # NoBucket /\ heap[current].bid # arg'[u].bid
    BY <1>0, <2>2 DEF FreeFromImmutable, SlicesOK, Inside, TypeInv, HeapOK
  <2> QED
    BY <1>0, <2>1, <2>2, FreeingStep DEF TypeInv, HeapOK
<1>2. arg'[u].bid \in mine'
  <2> SUFFICES ASSUME arg'[u].bid \notin mine' PROVE FALSE
    OBVIOUS
  <2>1. PICK t \in Thread : Release(t) /\ arg'[u].bid = heap[bkt[t]].bid
    BY <1>0, <1>1, MineStep
  <2>2. pc[t] = "release" /\ arg' = arg /\ pc'[u] = pc[u] /\ u # t
    BY <1>0, <2>1 DEF Release, TypeInv, TypeOK
  <2>3. u \in Freeing \/ pc[u] = "release"
    BY <2>2 DEF Freeing
  <2> QED
    BY <2>1, <2>2, <2>3, ReleasedIsNobodys
<1>3. current' # NoBucket /\ heap'[current'].bid # arg'[u].bid
  <2>1. CASE current' = current
    <3>1. current \in Bucket /\ Reached(current)'
      BY <1>0, <1>1, <2>1 DEF Reached, TypeInv, TypeOK
    <3> QED
      BY <1>0, <1>1, <2>1, <3>1 DEF Kept
  <2>2. ASSUME NEW t \in Thread, Refill(t)
        PROVE  current' # NoBucket /\ heap'[current'].bid # arg'[u].bid
    <3>1. PICK b \in avail : current' \in Bucket /\ heap'[current'] = NewBucket(b)
      BY <1>0, <2>2, Refilled
    <3>2. b # arg'[u].bid
      BY <1>0, <1>1, <3>1 DEF TypeInv, PoolOK
    <3> QED
      BY <3>1, <3>2, NoneAssumption DEF NewBucket
  <2> QED
    BY <2>1, <2>2, CurrentStep
<1> QED
  BY <1>2, <1>3 DEF Retired

LEMMA CallStep ==
  ASSUME SliceInv, [Next]_vars
  PROVE  \A t \in Thread : CallOK(t)'
  BY LocalsStep, HoldsStep, RetiredStep DEF CallOK, LocalsOK, SliceInv

LEMMA TypeInvStep ==
  ASSUME SliceInv, [Next]_vars
  PROVE  TypeInv'
  BY TypeStep, PoolStep, HeapStep, CallStep DEF TypeInv, SliceInv

-----------------------------------------------------------------------------
(* Slices                                                                  *)

\* A step that takes no new bytes.
LEMMA FewerSlices ==
  ASSUME SlicesOK,
         \A o \in Live' : o \in Live /\ slice'[o] = slice[o] /\ slice[o].bid \in mine',
         \A t \in Freeing' : t \in Freeing /\ arg'[t] = arg[t] /\ arg[t].bid \in mine'
  PROVE  SlicesOK'
  BY DEF SlicesOK, Inside, Apart

\* The bytes GetSlice cuts off follow those in use.
LEMMA CutOff ==
  ASSUME SliceInv, NEW t \in Thread, GetSlice(t)
  PROVE  /\ current \in Bucket /\ heap[current] \in BucketState
         /\ Room(current)
         /\ heap[current].cur + size[t] <= Capacity
         /\ slice' = [slice EXCEPT ![obj[t]] =
              [bid |-> heap[current].bid, off |-> heap[current].cur, size |-> size[t]]]
         /\ \A o \in Live : slice[o].bid = heap[current].bid =>
              slice[o].off + slice[o].size <= heap[current].cur
         /\ \A u \in Freeing : arg[u].bid # heap[current].bid
<1>0. TypeInv /\ SlicesOK /\ CountOK /\ pc[t] = "get"
  BY DEF SliceInv, GetSlice
<1>1. /\ current \in Bucket /\ heap[current] \in BucketState
      /\ heap[current].cur \in Nat /\ size[t] \in Nat
  BY <1>0, GetType DEF BucketState
<1>2. Room(current)
  BY <1>0, <1>1, RecordAssumption DEF CountOK, Counts
<1>3. heap[current].cur + size[t] <= Capacity
  BY <1>1, SizeAssumption DEF GetSlice, Fits, Room
<1>4. slice' = [slice EXCEPT ![obj[t]] =
              [bid |-> heap[current].bid, off |-> heap[current].cur, size |-> size[t]]]
  BY DEF GetSlice
<1>5. ASSUME NEW o \in Live, slice[o].bid = heap[current].bid
      PROVE  slice[o].off + slice[o].size <= heap[current].cur
  <2>1. /\ slice[o].off \in Nat /\ slice[o].size \in Nat /\ slice[o].size >= 1
        /\ Bytes(slice[o]) \subseteq 0 .. heap[current].cur - 1
    BY <1>0, <1>2, <1>5, SliceType, InUse DEF Room, SlicesOK, Inside
  <2>2. slice[o].off + slice[o].size - 1 \in Bytes(slice[o])
    BY <2>1 DEF Bytes
  <2> QED
    BY <1>1, <2>1, <2>2
<1>6. \A u \in Freeing : arg[u].bid # heap[current].bid
  BY <1>0 DEF Freeing, TypeInv, CallOK, Retired
<1> QED
  BY <1>1, <1>2, <1>3, <1>4, <1>5, <1>6

LEMMA SlicesStep ==
  ASSUME SliceInv, [Next]_vars
  PROVE  SlicesOK'
<1>0. TypeInv /\ TypeOK /\ SlicesOK
  BY DEF SliceInv, TypeInv
<1> USE DEF Live, Freeing
<1>1. ASSUME NEW t \in Thread, NEW o \in Object, NEW n \in Size, AllocEnter(t, o, n)
      PROVE  SlicesOK'
  BY <1>0, <1>1, FewerSlices DEF AllocEnter, TypeOK, SlicesOK, Inside
<1>2. ASSUME NEW t \in Thread, GetSlice(t) PROVE SlicesOK'
  <2> DEFINE new == [bid |-> heap[current].bid, off |-> heap[current].cur, size |-> size[t]]
  <2>1. /\ heap[current].cur \in Nat /\ size[t] \in Nat /\ size[t] >= 1
        /\ obj[t] \in Object
    BY <1>0, <1>2, GetType DEF GetSlice, BucketState
  <2>2. /\ \A o \in Object : slice'[o] = IF o = obj[t] THEN new ELSE slice[o]
        /\ Freeing' = Freeing /\ arg' = arg /\ mine' = mine
    BY <1>0, <1>2 DEF GetSlice, ReturnAlloc, TypeOK
  <2>3. Inside(new)
    BY <1>2, <2>1, CutOff DEF Inside, Room
  <2>4. \A o \in Live : Apart(slice[o], new) /\ Apart(new, slice[o])
    BY <1>2, CutOff DEF Apart
  <2>5. \A u \in Freeing : Apart(new, arg[u])
    BY <1>2, CutOff DEF Apart
  <2> HIDE DEF new
  <2> QED
    BY <1>0, <2>2, <2>3, <2>4, <2>5 DEF SlicesOK, Inside, Apart
<1>3. ASSUME NEW t \in Thread, Retire(t) PROVE SlicesOK'
  BY <1>0, <1>3, FewerSlices DEF Retire, TypeOK, SlicesOK, Inside
<1>4. ASSUME NEW t \in Thread, Refill(t) PROVE SlicesOK'
  BY <1>0, <1>4, FewerSlices DEF Refill, TypeOK, SlicesOK, Inside
<1>5. ASSUME NEW t \in Thread, RefillThrows(t) PROVE SlicesOK'
  BY <1>0, <1>5, FewerSlices DEF RefillThrows, ReturnAlloc, TypeOK, SlicesOK, Inside
<1>6. ASSUME NEW t \in Thread, NEW o \in Object, FreeFromCurrent(t, o) PROVE SlicesOK'
  BY <1>0, <1>6, FewerSlices DEF FreeFromCurrent, TypeOK, SlicesOK, Inside
<1>7. ASSUME NEW t \in Thread, NEW o \in Object, FreeFromImmutable(t, o) PROVE SlicesOK'
  <2>1. /\ o \in Live /\ t \notin Freeing /\ mine' = mine
        /\ \A p \in Live' : p \in Live \ {o} /\ slice'[p] = slice[p]
        /\ \A u \in Freeing' : \/ u \in Freeing /\ u # t /\ arg'[u] = arg[u]
                               \/ u = t /\ arg'[u] = slice[o]
    BY <1>0, <1>7 DEF FreeFromImmutable, poolState, TypeOK
  <2>2. \A r, s : Apart(r, s) => Apart(s, r)
    BY DEF Apart
  <2> HIDE DEF Live, Freeing
  <2> QED
    BY <1>0, <2>1, <2>2 DEF SlicesOK, Inside, Apart
<1>8. ASSUME NEW t \in Thread, Find(t) PROVE SlicesOK'
  BY <1>0, <1>8, FewerSlices DEF Find, poolState, TypeOK, SlicesOK, Inside
<1>9. ASSUME NEW t \in Thread, FindThrows(t) PROVE SlicesOK'
  BY <1>0, <1>9, FewerSlices DEF FindThrows, poolState, TypeOK, SlicesOK, Inside
<1>10. ASSUME NEW t \in Thread, PutSlice(t) PROVE SlicesOK'
  BY <1>0, <1>10, FewerSlices DEF PutSlice, TypeOK, SlicesOK, Inside
<1>11. ASSUME NEW t \in Thread, PutLastSlice(t) PROVE SlicesOK'
  BY <1>0, <1>11, FewerSlices DEF PutLastSlice, TypeOK, SlicesOK, Inside
<1>12. ASSUME NEW t \in Thread, Release(t) PROVE SlicesOK'
  <2>1. /\ Live' = Live /\ Freeing' = Freeing /\ slice' = slice /\ arg' = arg
        /\ mine' = mine \ {heap[bkt[t]].bid} /\ pc[t] = "release"
    BY <1>0, <1>12 DEF Release, TypeOK
  <2> HIDE DEF Live, Freeing
  <2> QED
    BY <1>0, <2>1, ReleasedIsNobodys, FewerSlices DEF SlicesOK, Inside
<1>13. ASSUME NEW t \in Thread, Erase(t) PROVE SlicesOK'
  BY <1>0, <1>13, FewerSlices DEF Erase, TypeOK, SlicesOK, Inside
<1>14. CASE Elsewhere
  BY <1>0, <1>14, FewerSlices
  DEF Elsewhere, TakeElsewhere, GiveBackElsewhere, poolState, SlicesOK, Inside
<1>15. CASE UNCHANGED vars
  BY <1>0, <1>15, FewerSlices DEF vars, SlicesOK, Inside
<1> QED
  BY <1>1, <1>2, <1>3, <1>4, <1>5, <1>6, <1>7, <1>8, <1>9, <1>10, <1>11, <1>12, <1>13, <1>14, <1>15
  DEF Next, Call, Continue

-----------------------------------------------------------------------------
(* What is in use after a step                                             *)

LEMMA SameSlices ==
  ASSUME \A o \in Live' : o \in Live /\ slice'[o] = slice[o],
         \A t \in Freeing' : \/ t \in Freeing /\ arg'[t] = arg[t]
                             \/ \E o \in Live : arg'[t] = slice[o],
         NEW b \in Block
  PROVE  Used(b)' \subseteq Used(b)
  BY DEF Used, Bytes

\* Only GetSlice takes bytes into use.
LEMMA UsedShrinks ==
  ASSUME TypeInv, [Next]_vars, \A t \in Thread : ~GetSlice(t), NEW b \in Block
  PROVE  Used(b)' \subseteq Used(b)
<1> USE DEF TypeInv, TypeOK, Live, Freeing
<1>1. ASSUME NEW t \in Thread, NEW o \in Object,
             \/ \E n \in Size : AllocEnter(t, o, n)
             \/ FreeFromCurrent(t, o) \/ FreeFromImmutable(t, o)
      PROVE  Used(b)' \subseteq Used(b)
  BY <1>1, SameSlices DEF AllocEnter, FreeFromCurrent, FreeFromImmutable
<1>2. ASSUME NEW t \in Thread, Retire(t) \/ Refill(t) \/ RefillThrows(t)
      PROVE  Used(b)' \subseteq Used(b)
  BY <1>2, SameSlices DEF Retire, Refill, RefillThrows, ReturnAlloc
<1>3. ASSUME NEW t \in Thread, Find(t) \/ FindThrows(t) \/ PutSlice(t)
      PROVE  Used(b)' \subseteq Used(b)
  BY <1>3, SameSlices DEF Find, FindThrows, PutSlice
<1>4. ASSUME NEW t \in Thread, PutLastSlice(t) \/ Release(t) \/ Erase(t)
      PROVE  Used(b)' \subseteq Used(b)
  BY <1>4, SameSlices DEF PutLastSlice, Release, Erase
<1>5. CASE Elsewhere
  BY <1>5, SameSlices DEF Elsewhere, TakeElsewhere, GiveBackElsewhere
<1>6. CASE UNCHANGED vars
  BY <1>6, SameSlices DEF vars
<1> QED
  BY <1>1, <1>2, <1>3, <1>4, <1>5, <1>6 DEF Next, Call, Continue

LEMMA FewerBytes ==
  ASSUME NEW S \in SUBSET (0 .. Capacity), NEW V \in SUBSET S
  PROVE  /\ IsFiniteSet(V) /\ Cardinality(V) \in Nat /\ Cardinality(S) \in Nat
         /\ Cardinality(V) <= Cardinality(S)
  BY BytesType, FS_Subset

\* A slice that is not in use any more leaves that many bytes less.
LEMMA OneSliceLess ==
  ASSUME NEW s \in Slice, Inside(s), NEW S \in SUBSET (0 .. Capacity),
         Bytes(s) \subseteq S, NEW V \in SUBSET (S \ Bytes(s))
  PROVE  Cardinality(V) + s.size <= Cardinality(S)
<1>1. IsFiniteSet(S) /\ Cardinality(S) \in Nat /\ Cardinality(V) \in Nat
  BY BytesType
<1>2. S \cap Bytes(s) = Bytes(s) /\ Cardinality(Bytes(s)) = s.size /\ s.size \in Nat
  BY BytesOf DEF Slice
<1>3. Cardinality(S \ Bytes(s)) = Cardinality(S) - s.size
  <2>1. Cardinality(S \ Bytes(s)) = Cardinality(S) - Cardinality(S \cap Bytes(s))
    BY <1>1, FS_Difference
  <2> QED
    BY <1>2, <2>1
<1>4. Cardinality(V) <= Cardinality(S \ Bytes(s))
  BY FewerBytes
<1> QED
  BY <1>1, <1>2, <1>3, <1>4

\* A slice cut off adds its size.
LEMMA OneSliceMore ==
  ASSUME NEW S \in SUBSET (0 .. Capacity), NEW c \in Nat, NEW n \in Nat, n >= 1,
         NEW V \in SUBSET (0 .. Capacity), V \subseteq S \cup (c .. c + n - 1)
  PROVE  Cardinality(V) <= Cardinality(S) + n
<1> DEFINE T == c .. c + n - 1
<1>1. IsFiniteSet(T) /\ Cardinality(T) = n
  BY IntervalSize
<1>2. IsFiniteSet(S) /\ Cardinality(S) \in Nat /\ Cardinality(V) \in Nat
  BY BytesType
<1>3. V \subseteq S \cup T
  OBVIOUS
<1> HIDE DEF T
<1>4. /\ IsFiniteSet(S \cup T)
      /\ Cardinality(S \cup T) = Cardinality(S) + n - Cardinality(S \cap T)
  BY <1>1, <1>2, FS_Union
<1>5. Cardinality(S \cap T) \in Nat
  BY <1>2, FS_Intersection, FS_CardinalityType
<1>6. Cardinality(V) <= Cardinality(S \cup T) /\ Cardinality(S \cup T) \in Nat
  BY <1>3, <1>4, FS_Subset, FS_CardinalityType
<1> QED
  BY <1>2, <1>4, <1>5, <1>6

-----------------------------------------------------------------------------
(* Buckets that count                                                      *)

LEMMA RoomNext ==
  ASSUME NEW a \in Bucket, NEW b, heap'[a].bid = b,
         b \in mine', heap'[a].cur <= Capacity, Used(b)' \subseteq 0 .. heap'[a].cur - 1,
         heap'[a].freed + Cardinality(Used(b)') <= heap'[a].cur
  PROVE  Room(a)'
  BY DEF Room, Used

LEMMA RoomKept ==
  ASSUME TypeInv, NEW a \in Bucket, heap[a] # NoBucket, Room(a), heap'[a] = heap[a],
         heap[a].bid \in mine',
         \A b \in Block : b = heap[a].bid => Used(b)' \subseteq Used(b)
  PROVE  Room(a)'
<1>1. heap[a] \in BucketState
  BY DEF TypeInv, TypeOK
<1>2. PICK b \in Block : b = heap[a].bid
  BY <1>1 DEF BucketState
<1>3. heap[a].cur \in Nat /\ heap[a].freed \in Nat
  BY <1>1 DEF BucketState
<1>4. /\ Cardinality(Used(b)') \in Nat /\ Cardinality(Used(b)) \in Nat
      /\ Cardinality(Used(b)') <= Cardinality(Used(b))
  BY <1>2, UsedType, FewerBytes
<1>5. /\ Used(b)' \subseteq 0 .. heap[a].cur - 1
      /\ heap[a].freed + Cardinality(Used(b)') <= heap[a].cur
  BY <1>2, <1>3, <1>4 DEF Room
<1> QED
  BY <1>2, <1>5, RoomNext DEF Room

LEMMA BucketsKept ==
  ASSUME CountOK,
         \A a \in Bucket : Counts(a)' => /\ Counts(a) /\ heap'[a].bid = heap[a].bid
                                         /\ Room(a)'
  PROVE  /\ \A a \in Bucket : Counts(a)' => Room(a)'
         /\ \A a, c \in Bucket :
              Counts(a)' /\ Counts(c)' /\ heap'[a].bid = heap'[c].bid => a = c
  BY DEF CountOK

LEMMA ReleasesKept ==
  ASSUME SliceInv,
         \A u \in Thread : pc'[u] = "release" =>
           pc[u] = "release" /\ bkt'[u] = bkt[u] /\ heap'[bkt[u]] = heap[bkt[u]]
  PROVE  /\ \A t \in Thread : pc'[t] = "release" => heap'[bkt'[t]].freed = heap'[bkt'[t]].cur
         /\ \A t, u \in Thread :
              pc'[t] = "release" /\ pc'[u] = "release" /\ bkt'[t] = bkt'[u] => t = u
  BY DEF SliceInv, CountOK

\* A step that changes no count.
LEMMA QuietCount ==
  ASSUME SliceInv, TypeInv', current' = current, mine' = mine,
         \A a \in Bucket : heap'[a] \in {heap[a], NoBucket},
         \A b \in Block : Used(b)' \subseteq Used(b),
         \A u \in Thread : pc'[u] = "release" => pc[u] = "release" /\ bkt'[u] = bkt[u]
  PROVE  CountOK'
<1>1. ASSUME NEW a \in Bucket, Counts(a)'
      PROVE  Counts(a) /\ heap'[a].bid = heap[a].bid /\ Room(a)'
  <2>1. heap'[a] = heap[a] /\ heap[a] # NoBucket
    BY <1>1 DEF Counts
  <2>2. Counts(a)
    BY <1>1, <2>1 DEF Counts, Releases
  <2>3. Room(a)
    BY <2>2 DEF SliceInv, CountOK
  <2> QED
    BY <2>1, <2>2, <2>3, RoomKept DEF SliceInv, Room
<1>2. \A u \in Thread : pc'[u] = "release" => heap'[bkt[u]] = heap[bkt[u]]
  BY DEF TypeInv, TypeOK, CallOK, HoldsBucket, SliceInv
<1> QED
  BY <1>1, <1>2, BucketsKept, ReleasesKept DEF CountOK, SliceInv

\* A step that changes the count of one bucket.
LEMMA OneCount ==
  ASSUME SliceInv, current' = current, mine' = mine, NEW k \in Bucket,
         heap'[k] # NoBucket => heap'[k].bid = heap[k].bid,
         \A a \in Bucket : a # k => heap'[a] \in {heap[a], NoBucket},
         \A b \in Block : b # heap[k].bid \/ ~Counts(k) => Used(b)' \subseteq Used(b),
         Counts(k)' => Counts(k) /\ Room(k)',
         \A u \in Thread : pc'[u] = "release" =>
           bkt'[u] = bkt[u] /\ (pc[u] = "release" \/ bkt[u] = k)
  PROVE  /\ \A a \in Bucket : Counts(a)' => Room(a)'
         /\ \A a, c \in Bucket :
              Counts(a)' /\ Counts(c)' /\ heap'[a].bid = heap'[c].bid => a = c
<1>1. ASSUME NEW a \in Bucket, a # k, Counts(a)'
      PROVE  Counts(a) /\ heap'[a].bid = heap[a].bid /\ Room(a)'
  <2>1. heap'[a] = heap[a] /\ heap[a] # NoBucket
    BY <1>1 DEF Counts
  <2>2. Counts(a)
    BY <1>1, <2>1 DEF Counts, Releases
  <2>3. Room(a)
    BY <2>2 DEF SliceInv, CountOK
  <2>4. Counts(k) => heap[a].bid # heap[k].bid
    BY <1>1, <2>2 DEF SliceInv, CountOK
  <2>5. Room(a)'
    BY <2>1, <2>3, <2>4, RoomKept DEF SliceInv, Room
  <2> QED
    BY <2>1, <2>2, <2>5
<1>2. Counts(k)' => Counts(k) /\ heap'[k].bid = heap[k].bid /\ Room(k)'
  BY DEF Counts
<1>3. \A a \in Bucket : Counts(a)' => Counts(a) /\ heap'[a].bid = heap[a].bid /\ Room(a)'
  BY <1>1, <1>2
<1> QED
  BY <1>3, BucketsKept DEF SliceInv

\* What alloc does with the current bucket and the slice it cuts off.
LEMMA GetEffect ==
  ASSUME SliceInv, NEW t \in Thread, GetSlice(t)
  PROVE  /\ current \in Bucket /\ heap[current] # NoBucket /\ heap[current].bid \in Block
         /\ heap[current].cur \in Nat /\ heap[current].freed \in Nat
         /\ size[t] \in Nat /\ size[t] >= 1 /\ obj[t] \in Object /\ slice[obj[t]] = NoSlice
         /\ heap'[current].bid = heap[current].bid
         /\ heap'[current].freed = heap[current].freed
         /\ heap'[current].cur = heap[current].cur + size[t]
         /\ \A a \in Bucket : a # current => heap'[a] = heap[a]
         /\ current' = current /\ mine' = mine /\ immutable' = immutable
         /\ bkt' = bkt /\ arg' = arg
         /\ \A u \in Thread : pc'[u] # "idle" => pc'[u] = pc[u]
         /\ Freeing' = Freeing
         /\ \A o \in Object : slice'[o] = IF o = obj[t]
              THEN [bid |-> heap[current].bid, off |-> heap[current].cur, size |-> size[t]]
              ELSE slice[o]
<1>0. TypeInv /\ TypeOK /\ pc[t] = "get"
  BY DEF SliceInv, TypeInv, GetSlice
<1>1. /\ current \in Bucket /\ heap[current] \in BucketState /\ heap[current].bid \in Block
      /\ heap[current].cur \in Nat /\ heap[current].freed \in Nat
      /\ size[t] \in Nat /\ size[t] >= 1 /\ obj[t] \in Object /\ slice[obj[t]] = NoSlice
  BY <1>0, GetType DEF BucketState
<1>2. heap' = [heap EXCEPT ![current] =
                 [bid |-> heap[current].bid, cur |-> heap[current].cur + size[t],
                  freed |-> heap[current].freed]]
  BY <1>0, GetType DEF GetSlice
<1>3. /\ heap'[current].bid = heap[current].bid
      /\ heap'[current].freed = heap[current].freed
      /\ heap'[current].cur = heap[current].cur + size[t]
      /\ \A a \in Bucket : a # current => heap'[a] = heap[a]
  BY <1>0, <1>1, <1>2 DEF TypeOK
<1>4. /\ current' = current /\ mine' = mine /\ immutable' = immutable
      /\ bkt' = bkt /\ arg' = arg
      /\ \A u \in Thread : pc'[u] # "idle" => pc'[u] = pc[u]
      /\ Freeing' = Freeing
  BY <1>0 DEF GetSlice, ReturnAlloc, TypeOK, Freeing
<1>5. \A o \in Object : slice'[o] = IF o = obj[t]
        THEN [bid |-> heap[current].bid, off |-> heap[current].cur, size |-> size[t]]
        ELSE slice[o]
  BY <1>0, <1>1, CutOff DEF TypeOK
<1> QED
  BY <1>1, <1>3, <1>4, <1>5, RecordAssumption

LEMMA GetCount ==
  ASSUME SliceInv, TypeInv', NEW t \in Thread, GetSlice(t)
  PROVE  CountOK'
<1>0. TypeInv /\ TypeOK /\ CountOK /\ SlicesOK /\ pc[t] = "get"
  BY DEF SliceInv, TypeInv, GetSlice
<1>1. /\ current \in Bucket /\ heap[current] # NoBucket
      /\ heap[current].cur \in Nat /\ heap[current].freed \in Nat
      /\ size[t] \in Nat /\ size[t] >= 1 /\ obj[t] \in Object
  BY GetEffect
<1>3. PICK b \in Block : b = heap[current].bid
  BY GetEffect
<1>4. /\ heap'[current].bid = b /\ heap'[current].freed = heap[current].freed
      /\ heap'[current].cur = heap[current].cur + size[t]
      /\ \A a \in Bucket : a # current => heap'[a] = heap[a]
  BY <1>3, GetEffect
<1>5. /\ current' = current /\ mine' = mine /\ bkt' = bkt /\ arg' = arg
      /\ \A u \in Thread : pc'[u] # "idle" => pc'[u] = pc[u]
      /\ Freeing' = Freeing
  BY GetEffect
<1>6. \A o \in Object : slice'[o] = IF o = obj[t]
        THEN [bid |-> b, off |-> heap[current].cur, size |-> size[t]] ELSE slice[o]
  BY <1>3, GetEffect
<1>7. Used(b)' \subseteq Used(b) \cup (heap[current].cur .. heap[current].cur + size[t] - 1)
  BY <1>5, <1>6 DEF Used, Live, Bytes
<1>8. \A c \in Block : c # b => Used(c)' \subseteq Used(c)
  BY <1>5, <1>6 DEF Used, Live, Bytes
<1>9. Room(current) /\ heap[current].cur + size[t] <= Capacity
  BY CutOff
<1>10. Room(current)'
  <2>1. Cardinality(Used(b)') <= Cardinality(Used(b)) + size[t]
    <3>1. Used(b)' \in SUBSET (0 .. Capacity)
      BY DEF Used
    <3> QED
      BY <1>1, <1>7, <3>1, UsedType, OneSliceMore
  <2>2. Cardinality(Used(b)') \in Nat /\ Cardinality(Used(b)) \in Nat
    <3>1. Used(b)' \in SUBSET (0 .. Capacity)
      BY DEF Used
    <3> QED
      BY <3>1, UsedType, BytesType
  <2>3. Used(b)' \subseteq 0 .. heap'[current].cur - 1
    BY <1>1, <1>3, <1>4, <1>7, <1>9 DEF Room
  <2>4. heap'[current].freed + Cardinality(Used(b)') <= heap'[current].cur
    BY <1>1, <1>3, <1>4, <1>9, <2>1, <2>2 DEF Room
  <2>5. \A a \in Bucket : a = current => Room(a)'
    BY <1>3, <1>4, <1>5, <1>9, <2>3, <2>4, RoomNext DEF Room
  <2> QED
    BY <1>1, <1>5, <2>5
<1>11. Counts(current)
  BY <1>1 DEF Counts
<1>12. \A u \in Thread : pc'[u] = "release" =>
         pc[u] = "release" /\ bkt'[u] = bkt[u] /\ heap'[bkt[u]] = heap[bkt[u]]
  <2> SUFFICES ASSUME NEW u \in Thread, pc'[u] = "release"
               PROVE  pc[u] = "release" /\ bkt'[u] = bkt[u] /\ heap'[bkt[u]] = heap[bkt[u]]
    OBVIOUS
  <2>1. pc[u] = "release" /\ bkt'[u] = bkt[u]
    BY <1>5
  <2>2. bkt[u] \in Bucket /\ bkt[u] # current
    BY <1>0, <2>1 DEF TypeInv, TypeOK, CallOK, Retired, HoldsBucket
  <2> QED
    BY <1>4, <2>1, <2>2
<1>13. Counts(current)' => Counts(current) /\ Room(current)'
  BY <1>10, <1>11
<1>14. /\ \A a \in Bucket : Counts(a)' => Room(a)'
       /\ \A a, c \in Bucket :
            Counts(a)' /\ Counts(c)' /\ heap'[a].bid = heap'[c].bid => a = c
  <2>1. PICK k \in Bucket : k = current
    BY <1>1
  <2>2. Counts(k)' => Counts(k) /\ Room(k)'
    BY <1>5, <1>13, <2>1 DEF Counts, Room, Used, Releases
  <2> QED
    BY <1>3, <1>4, <1>5, <1>8, <1>11, <1>12, <2>1, <2>2, OneCount
<1> QED
  BY <1>12, <1>14, ReleasesKept DEF CountOK

\* What free does with the current bucket: it counts, or starts again.
LEMMA FreeEffect ==
  ASSUME SliceInv, NEW t \in Thread, NEW o \in Object, FreeFromCurrent(t, o)
  PROVE  /\ o \in Live /\ slice[o] \in Slice /\ slice[o].size \in Nat
         /\ current \in Bucket /\ heap[current] # NoBucket
         /\ heap[current].bid \in Block /\ heap[current].bid = slice[o].bid
         /\ heap[current].cur \in Nat /\ heap[current].freed \in Nat
         /\ current' = current /\ mine' = mine /\ immutable' = immutable
         /\ bkt' = bkt /\ pc' = pc /\ arg' = arg
         /\ Live' = Live \ {o} /\ Freeing' = Freeing
         /\ \A p \in Live' : slice'[p] = slice[p]
         /\ \A a \in Bucket : a # current => heap'[a] = heap[a]
         /\ heap'[current].bid = heap[current].bid
         /\ IF heap[current].freed + slice[o].size = heap[current].cur
              THEN heap'[current].cur = 0 /\ heap'[current].freed = 0
              ELSE /\ heap'[current].cur = heap[current].cur
                   /\ heap'[current].freed = heap[current].freed + slice[o].size
<1>0. TypeInv /\ TypeOK /\ o \in Live
  BY DEF SliceInv, TypeInv, FreeFromCurrent, Live
<1>1. /\ current \in Bucket /\ heap[current] \in BucketState
      /\ heap[current].cur \in Nat /\ heap[current].freed \in Nat /\ heap[current].bid \in Block
      /\ slice[o] \in Slice /\ slice[o].size \in Nat
  BY <1>0, FreeType DEF FreeFromCurrent, BucketState
<1>2. PICK k \in Bucket : k = current
  BY <1>1
<1>3. PICK b \in Block : b = heap[k].bid /\ b = slice[o].bid
  BY <1>1, <1>2 DEF BucketState, FreeFromCurrent
<1>4. /\ \A a \in Bucket : a # k => heap'[a] = heap[a]
      /\ heap'[k].bid = b
      /\ IF heap[k].freed + slice[o].size = heap[k].cur
           THEN heap'[k].cur = 0 /\ heap'[k].freed = 0
           ELSE heap'[k].cur = heap[k].cur /\ heap'[k].freed = heap[k].freed + slice[o].size
  <2> DEFINE v == PutCurrent(heap[k], slice[o].size)
  <2>1. v = IF Put(heap[k], slice[o].size).freed = Put(heap[k], slice[o].size).cur
              THEN Reset(heap[k]) ELSE Put(heap[k], slice[o].size)
    BY DEF PutCurrent, AllFreed
  <2>5. /\ Put(heap[k], slice[o].size).bid = b /\ Reset(heap[k]).bid = b
        /\ Put(heap[k], slice[o].size).cur = heap[k].cur
        /\ Put(heap[k], slice[o].size).freed = heap[k].freed + slice[o].size
        /\ Reset(heap[k]).cur = 0 /\ Reset(heap[k]).freed = 0
    BY <1>1, <1>2, <1>3, BucketType
  <2>2. /\ v.bid = b
        /\ IF heap[k].freed + slice[o].size = heap[k].cur
             THEN v.cur = 0 /\ v.freed = 0
             ELSE v.cur = heap[k].cur /\ v.freed = heap[k].freed + slice[o].size
    BY <2>1, <2>5
  <2>3. heap' = [heap EXCEPT ![k] = v]
    BY <1>2 DEF FreeFromCurrent
  <2> HIDE DEF v
  <2>4. heap'[k] = v /\ \A a \in Bucket : a # k => heap'[a] = heap[a]
    BY <1>0, <2>3 DEF TypeOK
  <2> QED
    BY <2>2, <2>4
<1>5. /\ current' = current /\ mine' = mine /\ immutable' = immutable
      /\ bkt' = bkt /\ pc' = pc /\ arg' = arg
      /\ Live' = Live \ {o} /\ Freeing' = Freeing
      /\ \A p \in Live' : slice'[p] = slice[p]
  BY <1>0 DEF FreeFromCurrent, Live, Freeing, TypeOK
<1> QED
  BY <1>0, <1>1, <1>2, <1>3, <1>4, <1>5, RecordAssumption

LEMMA FreeCount ==
  ASSUME SliceInv, TypeInv', NEW t \in Thread, NEW o \in Object, FreeFromCurrent(t, o)
  PROVE  CountOK'
<1>0. TypeInv /\ TypeOK /\ CountOK /\ SlicesOK /\ o \in Live
  BY FreeEffect DEF SliceInv, TypeInv
<1>1. /\ current \in Bucket /\ heap[current] # NoBucket
      /\ heap[current].cur \in Nat /\ heap[current].freed \in Nat
      /\ slice[o] \in Slice /\ slice[o].size \in Nat
  BY FreeEffect
<1>2. PICK k \in Bucket : k = current
  BY <1>1
<1>3. PICK b \in Block : b = heap[k].bid /\ b = slice[o].bid
  BY <1>2, FreeEffect
<1>4. /\ current' = current /\ mine' = mine /\ bkt' = bkt /\ pc' = pc
      /\ \A a \in Bucket : a # k => heap'[a] = heap[a]
      /\ heap'[k].bid = b
      /\ IF heap[k].freed + slice[o].size = heap[k].cur
           THEN heap'[k].cur = 0 /\ heap'[k].freed = 0
           ELSE heap'[k].cur = heap[k].cur /\ heap'[k].freed = heap[k].freed + slice[o].size
  BY <1>2, <1>3, FreeEffect
<1>5. \A c \in Block : Used(c)' \subseteq Used(c)
  BY <1>0, SameSlices DEF FreeFromCurrent, Live, Freeing, TypeOK
<1>6. Used(b)' \subseteq Used(b) \ Bytes(slice[o])
  <2>1. /\ Live' = Live \ {o} /\ Freeing' = Freeing /\ arg' = arg
        /\ \A p \in Live' : slice'[p] = slice[p]
    BY FreeEffect
  <2>2. ASSUME NEW p \in Live, p # o, slice[p].bid = b, NEW i \in Bytes(slice[p])
        PROVE  i \notin Bytes(slice[o])
    BY <1>0, <1>3, <2>2, SliceType DEF SlicesOK, Apart, Bytes
  <2>3. ASSUME NEW u \in Freeing, arg[u].bid = b, NEW i \in Bytes(arg[u])
        PROVE  i \notin Bytes(slice[o])
    BY <1>0, <1>3, <2>3, SliceType DEF SlicesOK, Apart, Bytes
  <2> QED
    BY <2>1, <2>2, <2>3 DEF Used, Bytes
<1>7. Counts(k) /\ Room(k)
  BY <1>0, <1>1, <1>2 DEF Counts, CountOK
<1>8. Room(k)'
  <2>1. Cardinality(Used(b)') + slice[o].size <= Cardinality(Used(b))
    BY <1>0, <1>1, <1>3, <1>6, InUse, UsedType, OneSliceLess DEF SlicesOK
  <2>2. /\ Cardinality(Used(b)') \in Nat /\ Cardinality(Used(b)) \in Nat
        /\ IsFiniteSet(Used(b)')
    BY <1>5, UsedType, FewerBytes
  <2>3. CASE heap[k].freed + slice[o].size = heap[k].cur
    <3>1. Cardinality(Used(b)') = 0
      BY <1>1, <1>2, <1>3, <1>7, <2>1, <2>2, <2>3 DEF Room
    <3>2. Used(b)' = {}
      BY <2>2, <3>1, FS_EmptySet
    <3> QED
      BY <1>3, <1>4, <1>7, <2>3, <3>1, <3>2, RoomNext, SizeAssumption DEF Room
  <2>4. CASE heap[k].freed + slice[o].size # heap[k].cur
    <3>1. heap[k].freed + slice[o].size + Cardinality(Used(b)') <= heap[k].cur
      BY <1>1, <1>2, <1>3, <1>7, <2>1, <2>2 DEF Room
    <3>2. Used(b)' \subseteq 0 .. heap[k].cur - 1
      BY <1>3, <1>5, <1>7 DEF Room
    <3> QED
      BY <1>3, <1>4, <1>7, <2>4, <3>1, <3>2, RoomNext DEF Room
  <2> QED
    BY <2>3, <2>4
<1>9. \A u \in Thread : pc'[u] = "release" =>
        pc[u] = "release" /\ bkt'[u] = bkt[u] /\ heap'[bkt[u]] = heap[bkt[u]]
  <2> SUFFICES ASSUME NEW u \in Thread, pc'[u] = "release"
               PROVE  pc[u] = "release" /\ bkt'[u] = bkt[u] /\ heap'[bkt[u]] = heap[bkt[u]]
    OBVIOUS
  <2>1. bkt[u] \in Bucket /\ bkt[u] # k
    BY <1>0, <1>2, <1>4 DEF TypeInv, TypeOK, CallOK, Retired, HoldsBucket
  <2> QED
    BY <1>4, <2>1
<1>10. /\ \A a \in Bucket : Counts(a)' => Room(a)'
       /\ \A a, c \in Bucket :
            Counts(a)' /\ Counts(c)' /\ heap'[a].bid = heap'[c].bid => a = c
  BY <1>3, <1>4, <1>5, <1>7, <1>8, <1>9, OneCount
<1> QED
  BY <1>9, <1>10, ReleasesKept DEF CountOK

\* What free does with a retired bucket.
LEMMA PutEffect ==
  ASSUME SliceInv, TypeInv', NEW t \in Thread, PutSlice(t) \/ PutLastSlice(t)
  PROVE  /\ pc[t] = "put" /\ t \in Freeing
         /\ bkt[t] \in Bucket /\ heap[bkt[t]] # NoBucket /\ bkt[t] # current
         /\ heap[bkt[t]].bid \in Block /\ heap[bkt[t]].bid = arg[t].bid
         /\ heap[bkt[t]].cur \in Nat /\ heap[bkt[t]].freed \in Nat
         /\ arg[t] \in Slice /\ arg[t].size \in Nat /\ arg[t].size >= 1
         /\ current' = current /\ mine' = mine /\ immutable' = immutable /\ slice' = slice
         /\ \A u \in Thread : u # t => pc'[u] = pc[u] /\ bkt'[u] = bkt[u] /\ arg'[u] = arg[u]
         /\ Live' = Live /\ Freeing' = Freeing \ {t}
         /\ IF heap[bkt[t]].freed + arg[t].size = heap[bkt[t]].cur
              THEN pc'[t] = "release" /\ bkt'[t] = bkt[t] /\ arg'[t] = arg[t]
              ELSE pc'[t] = "idle"
         /\ \A a \in Bucket : a # bkt[t] => heap'[a] \in {heap[a], NoBucket}
         /\ heap'[bkt[t]] # NoBucket =>
              /\ heap'[bkt[t]].bid = heap[bkt[t]].bid
              /\ heap'[bkt[t]].cur = heap[bkt[t]].cur
              /\ heap'[bkt[t]].freed = heap[bkt[t]].freed + arg[t].size
<1>0. TypeInv /\ TypeOK /\ TypeOK' /\ SlicesOK /\ pc[t] = "put" /\ t \in Freeing
  BY DEF SliceInv, TypeInv, PutSlice, PutLastSlice, Freeing
<1>1. PICK k \in Bucket : k = bkt[t]
  BY <1>0, PutType
<1>2. /\ heap[k] \in BucketState /\ heap[k] # NoBucket
      /\ heap[k].cur \in Nat /\ heap[k].freed \in Nat
      /\ arg[t] \in Slice /\ arg[t].size \in Nat /\ arg[t].size >= 1
  BY <1>0, <1>1, PutType DEF BucketState, SlicesOK, Inside, TypeInv, CallOK, HoldsBucket
<1>3. PICK b \in Block : b = heap[k].bid /\ b = arg[t].bid
  BY <1>0, <1>1, <1>2 DEF BucketState, TypeInv, CallOK, HoldsBucket
<1>4. k # current
  BY <1>0, <1>3 DEF TypeInv, CallOK, Retired
<1>5. /\ current' = current /\ mine' = mine /\ immutable' = immutable /\ slice' = slice
      /\ \A u \in Thread : u # t => pc'[u] = pc[u] /\ bkt'[u] = bkt[u] /\ arg'[u] = arg[u]
  BY <1>0 DEF PutSlice, PutLastSlice, TypeOK
<1>6. IF heap[k].freed + arg[t].size = heap[k].cur
        THEN pc'[t] = "release" /\ bkt'[t] = bkt[t] /\ arg'[t] = arg[t]
        ELSE pc'[t] = "idle"
  <2>1. AllFreed(Put(heap[k], arg[t].size)) <=> heap[k].freed + arg[t].size = heap[k].cur
    BY <1>2, BucketType DEF AllFreed
  <2> QED
    BY <1>0, <1>1, <2>1 DEF PutSlice, PutLastSlice, TypeOK
<1>7. /\ \A a \in Bucket : a # k => heap'[a] \in {heap[a], NoBucket}
      /\ heap'[k] # NoBucket => /\ heap'[k].bid = b /\ heap'[k].cur = heap[k].cur
                                /\ heap'[k].freed = heap[k].freed + arg[t].size
  <2> DEFINE v == Put(heap[k], arg[t].size)
             h == [heap EXCEPT ![k] = v]
  <2>1. /\ v.bid = b /\ v.cur = heap[k].cur /\ v.freed = heap[k].freed + arg[t].size
    BY <1>2, <1>3, BucketType
  <2>2. h[k] = v /\ \A a \in Bucket : a # k => h[a] = heap[a]
    BY <1>0 DEF TypeOK
  <2>3. heap' = h \/ heap' = Collect(h, current', immutable', bkt')
    BY <1>1 DEF PutSlice, PutLastSlice
  <2> HIDE DEF h, v
  <2>4. \A a \in Bucket : heap'[a] \in {h[a], NoBucket}
    BY <1>0, <2>3, Collected DEF TypeOK
  <2> QED
    BY <2>1, <2>2, <2>4
<1>8. Live' = Live /\ Freeing' = Freeing \ {t}
  <2>1. pc'[t] # "find" /\ pc'[t] # "put"
    BY <1>6
  <2> QED
    BY <1>0, <1>5, <2>1 DEF Live, Freeing
<1> QED
  BY <1>0, <1>1, <1>2, <1>3, <1>4, <1>5, <1>6, <1>7, <1>8

\* The thread that frees a slice of a bucket is the only one near its end.
LEMMA PutCount ==
  ASSUME SliceInv, TypeInv', NEW t \in Thread, PutSlice(t) \/ PutLastSlice(t)
  PROVE  CountOK'
<1>0. TypeInv /\ TypeOK /\ TypeOK' /\ CountOK /\ SlicesOK /\ pc[t] = "put" /\ t \in Freeing
  BY PutEffect DEF SliceInv, TypeInv
<1>1. PICK k \in Bucket : k = bkt[t]
  BY PutEffect
<1>2. /\ heap[k] # NoBucket
      /\ heap[k].cur \in Nat /\ heap[k].freed \in Nat
      /\ arg[t] \in Slice /\ arg[t].size \in Nat /\ arg[t].size >= 1
  BY <1>1, PutEffect
<1>3. PICK b \in Block : b = heap[k].bid /\ b = arg[t].bid
  BY <1>1, PutEffect
<1> DEFINE full == heap[k].freed + arg[t].size = heap[k].cur
<1>4. /\ current' = current /\ mine' = mine /\ slice' = slice
      /\ \A u \in Thread : u # t => pc'[u] = pc[u] /\ bkt'[u] = bkt[u] /\ arg'[u] = arg[u]
      /\ pc'[t] # "find" /\ pc'[t] # "put"
      /\ pc'[t] = "release" => full /\ bkt'[t] = bkt[t]
      /\ k # current
  BY <1>1, PutEffect
<1>5. /\ \A a \in Bucket : a # k => heap'[a] \in {heap[a], NoBucket}
      /\ heap'[k] # NoBucket => /\ heap'[k].bid = b /\ heap'[k].cur = heap[k].cur
                                /\ heap'[k].freed = heap[k].freed + arg[t].size
  BY <1>1, <1>3, PutEffect
<1>6. /\ Live' = Live /\ Freeing' = Freeing \ {t}
  BY PutEffect
<1>7. Used(b)' \subseteq Used(b) \ Bytes(arg[t])
  <2>1. ASSUME NEW p \in Live, slice[p].bid = b, NEW i \in Bytes(slice[p])
        PROVE  i \notin Bytes(arg[t])
    BY <1>0, <1>3, <2>1, SliceType DEF SlicesOK, Apart, Bytes
  <2>2. ASSUME NEW u \in Freeing, u # t, arg[u].bid = b, NEW i \in Bytes(arg[u])
        PROVE  i \notin Bytes(arg[t])
    BY <1>0, <1>3, <2>2, SliceType DEF SlicesOK, Apart, Bytes
  <2>3. \A u \in Freeing' : u \in Freeing /\ u # t /\ arg'[u] = arg[u]
    BY <1>4, <1>6 DEF Freeing
  <2> QED
    BY <1>4, <1>6, <2>1, <2>2, <2>3 DEF Used, Bytes
<1>8. \A c \in Block : Used(c)' \subseteq Used(c)
  <2>1. \A u \in Freeing' : u \in Freeing /\ arg'[u] = arg[u]
    BY <1>4, <1>6 DEF Freeing
  <2> QED
    BY <1>4, <1>6, <2>1, SameSlices
<1>9. \A u \in Thread : pc[u] = "release" => bkt[u] # k
  BY <1>0, <1>3, ReleasedIsNobodys
<1>10. Counts(k)' => Counts(k) /\ Room(k)'
  <2> SUFFICES ASSUME Counts(k)' PROVE Counts(k) /\ Room(k)'
    OBVIOUS
  <2>0. heap'[k] # NoBucket
    BY DEF Counts
  <2>1. heap[k].freed < heap[k].cur
    <3>1. CASE heap'[k].freed < heap'[k].cur
      BY <1>2, <1>5, <2>0, <3>1
    <3>2. CASE \E u \in Thread : pc'[u] = "release" /\ bkt'[u] = k
      <4>1. full
        BY <1>4, <1>9, <3>2
      <4> QED
        BY <1>2, <4>1
    <3> QED
      BY <1>4, <3>1, <3>2 DEF Counts, Releases
  <2>2. Counts(k) /\ Room(k)
    BY <1>0, <1>2, <2>1 DEF Counts, CountOK
  <2>3. Cardinality(Used(b)') + arg[t].size <= Cardinality(Used(b))
    BY <1>0, <1>2, <1>3, <1>7, InUse, UsedType, OneSliceLess DEF SlicesOK
  <2>4. Cardinality(Used(b)') \in Nat /\ Cardinality(Used(b)) \in Nat
    BY <1>8, UsedType, FewerBytes
  <2>5. /\ heap'[k].freed + Cardinality(Used(b)') <= heap'[k].cur
        /\ Used(b)' \subseteq 0 .. heap'[k].cur - 1
    BY <1>2, <1>3, <1>5, <1>8, <2>0, <2>2, <2>3, <2>4 DEF Room
  <2>6. Room(k)'
    BY <1>3, <1>4, <1>5, <2>0, <2>2, <2>5, RoomNext DEF Room
  <2> QED
    BY <2>2, <2>6
<1>11. /\ \A a \in Bucket : Counts(a)' => Room(a)'
       /\ \A a, c \in Bucket :
            Counts(a)' /\ Counts(c)' /\ heap'[a].bid = heap'[c].bid => a = c
  <2>1. heap'[k] # NoBucket => heap'[k].bid = heap[k].bid
    BY <1>3, <1>5
  <2>2. \A c \in Block : c # heap[k].bid \/ ~Counts(k) => Used(c)' \subseteq Used(c)
    BY <1>8
  <2>3. Counts(k)' => Counts(k) /\ Room(k)'
    BY <1>10
  <2>4. ASSUME NEW u \in Thread, pc'[u] = "release"
        PROVE  bkt'[u] = bkt[u] /\ (pc[u] = "release" \/ bkt[u] = k)
    BY <1>1, <1>4, <2>4
  <2> QED
    BY <1>0, <1>4, <1>5, <2>1, <2>2, <2>3, <2>4, OneCount
<1>12. ASSUME NEW u \in Thread, pc'[u] = "release"
       PROVE  /\ bkt'[u] \in Bucket /\ heap'[bkt'[u]] # NoBucket
              /\ u # t => pc[u] = "release" /\ heap'[bkt'[u]] = heap[bkt[u]] /\ bkt'[u] # k
              /\ u = t => bkt'[u] = k /\ heap'[k].freed = heap'[k].cur
  <2>1. bkt'[u] \in Bucket /\ heap'[bkt'[u]] # NoBucket
    BY <1>0, <1>12 DEF TypeInv, TypeOK, CallOK, HoldsBucket
  <2>2. CASE u # t
    BY <1>4, <1>5, <1>9, <1>12, <2>1, <2>2
  <2>3. CASE u = t
    BY <1>1, <1>4, <1>5, <1>12, <2>1, <2>3
  <2> QED
    BY <2>1, <2>2, <2>3
<1> QED
  BY <1>4, <1>11, <1>12 DEF CountOK, SliceInv

\* A block that goes back is that of no other bucket that counts.
LEMMA ReleaseCount ==
  ASSUME SliceInv, TypeInv', NEW t \in Thread, Release(t)
  PROVE  CountOK'
<1>0. TypeInv /\ TypeOK /\ CountOK /\ pc[t] = "release"
  BY DEF SliceInv, TypeInv, Release
<1>1. PICK k \in Bucket : k = bkt[t]
  BY <1>0, ReleasedIsEmpty
<1>2. /\ heap[k] # NoBucket /\ Counts(k) /\ heap[k].freed = heap[k].cur
      /\ heap[current].bid # heap[k].bid
  BY <1>0, <1>1 DEF Counts, Releases, CountOK, TypeInv, CallOK, HoldsBucket, Retired
<1>3. /\ heap' = heap /\ current' = current /\ bkt' = bkt
      /\ mine' = mine \ {heap[k].bid}
      /\ pc' = [pc EXCEPT ![t] = "erase"]
  BY <1>1 DEF Release
<1>4. \A c \in Block : Used(c)' \subseteq Used(c)
  BY <1>0, SameSlices DEF Release, Live, Freeing, TypeOK
<1>5. ASSUME NEW a \in Bucket, Counts(a)'
      PROVE  Counts(a) /\ heap'[a].bid = heap[a].bid /\ Room(a)'
  <2>1. Counts(a) /\ heap[a] # NoBucket
    BY <1>0, <1>3, <1>5 DEF Counts, Releases, TypeOK
  <2>2. a # k
    <3> SUFFICES ASSUME a = k PROVE FALSE
      OBVIOUS
    <3>1. PICK u \in Thread : pc'[u] = "release" /\ bkt'[u] = k
      <4>1. k # current /\ heap[k] \in BucketState
        BY <1>0, <1>2 DEF TypeOK
      <4>2. heap[k].freed \in Nat
        BY <4>1 DEF BucketState
      <4> QED
        BY <1>2, <1>3, <1>5, <4>1, <4>2 DEF Counts, Releases
    <3>2. u # t /\ pc[u] = "release" /\ bkt[u] = bkt[t]
      BY <1>0, <1>1, <1>3, <3>1 DEF TypeOK
    <3> QED
      BY <1>0, <3>2 DEF CountOK
  <2>3. heap[a].bid # heap[k].bid
    BY <1>0, <1>2, <2>1, <2>2 DEF CountOK
  <2>4. Room(a)
    BY <1>0, <2>1 DEF CountOK
  <2>5. Room(a)'
    BY <1>0, <1>3, <1>4, <2>1, <2>3, <2>4, RoomKept DEF Room
  <2> QED
    BY <1>3, <2>1, <2>5
<1>6. \A u \in Thread : pc'[u] = "release" =>
        pc[u] = "release" /\ bkt'[u] = bkt[u] /\ heap'[bkt[u]] = heap[bkt[u]]
  BY <1>0, <1>3 DEF TypeOK
<1> QED
  BY <1>0, <1>5, <1>6, BucketsKept, ReleasesKept DEF CountOK

\* No bucket that counts is in a block the allocator had to give.
LEMMA RefillCount ==
  ASSUME SliceInv, TypeInv', NEW t \in Thread, Refill(t)
  PROVE  CountOK'
<1>0. TypeInv /\ TypeOK /\ TypeOK' /\ CountOK /\ SlicesOK
  BY DEF SliceInv, TypeInv
<1>1. PICK b \in avail :
        /\ mine' = mine \cup {b}
        /\ current' \in Bucket /\ heap[current'] = NoBucket
        /\ heap'[current'] = NewBucket(b)
        /\ \A a \in Bucket : a # current' => heap'[a] \in {heap[a], NoBucket}
  BY <1>0, Refilled
<1>2. PICK k \in Bucket : k = current'
  BY <1>1
<1>3. /\ b \in Block /\ b \notin mine
      /\ heap'[k].bid = b /\ heap'[k].cur = 0 /\ heap'[k].freed = 0
  BY <1>0, <1>1, <1>2 DEF TypeOK, TypeInv, PoolOK, NewBucket
<1>4. \A c \in Block : Used(c)' \subseteq Used(c)
  BY <1>0, SameSlices DEF Refill, Live, Freeing, TypeOK
<1>5. bkt' = bkt /\ \A u \in Thread : pc'[u] = "release" => pc[u] = "release"
  BY <1>0 DEF Refill, TypeOK
<1>6. Room(k)'
  <2>1. Used(b) = {}
    BY <1>0, <1>3 DEF Used, SlicesOK, Inside
  <2>2. Used(b)' = {}
    BY <1>3, <1>4, <2>1
  <2>3. Cardinality(Used(b)') = 0
    BY <2>2, FS_EmptySet
  <2>4. /\ b \in mine' /\ heap'[k].cur <= Capacity
        /\ Used(b)' \subseteq 0 .. heap'[k].cur - 1
        /\ heap'[k].freed + Cardinality(Used(b)') <= heap'[k].cur
    BY <1>1, <1>3, <2>2, <2>3, SizeAssumption
  <2> QED
    BY <1>3, <2>4, RoomNext
<1>7. ASSUME NEW a \in Bucket, a # k, Counts(a)'
      PROVE  Counts(a) /\ heap'[a] = heap[a] /\ heap[a].bid \in mine /\ Room(a)'
  <2>1. heap'[a] = heap[a] /\ heap[a] # NoBucket
    BY <1>1, <1>2, <1>7 DEF Counts
  <2>2. Counts(a)
    BY <1>2, <1>5, <1>7, <2>1 DEF Counts, Releases
  <2>3. Room(a)
    BY <1>0, <2>2 DEF CountOK
  <2> QED
    BY <1>0, <1>1, <1>4, <2>1, <2>2, <2>3, RoomKept DEF Room
<1>8. /\ \A a \in Bucket : Counts(a)' => Room(a)'
      /\ \A a, c \in Bucket :
           Counts(a)' /\ Counts(c)' /\ heap'[a].bid = heap'[c].bid => a = c
  <2>1. \A a \in Bucket : Counts(a)' => Room(a)'
    BY <1>6, <1>7
  <2>2. ASSUME NEW a \in Bucket, NEW c \in Bucket, Counts(a)', Counts(c)',
               heap'[a].bid = heap'[c].bid
        PROVE  a = c
    BY <1>0, <1>3, <1>7, <2>2 DEF CountOK
  <2> QED
    BY <2>1, <2>2
<1>9. \A u \in Thread : pc'[u] = "release" =>
        pc[u] = "release" /\ bkt'[u] = bkt[u] /\ heap'[bkt[u]] = heap[bkt[u]]
  <2> SUFFICES ASSUME NEW u \in Thread, pc'[u] = "release"
               PROVE  pc[u] = "release" /\ bkt'[u] = bkt[u] /\ heap'[bkt[u]] = heap[bkt[u]]
    OBVIOUS
  <2>1. /\ pc[u] = "release" /\ bkt'[u] = bkt[u] /\ bkt[u] \in Bucket
        /\ heap[bkt[u]] # NoBucket /\ heap'[bkt'[u]] # NoBucket
    BY <1>0, <1>5 DEF TypeInv, TypeOK, CallOK, HoldsBucket
  <2> QED
    BY <1>1, <2>1
<1> QED
  BY <1>8, <1>9, ReleasesKept DEF CountOK

LEMMA CountStep ==
  ASSUME SliceInv, [Next]_vars
  PROVE  CountOK'
<1>0. TypeInv /\ TypeOK /\ TypeInv' /\ TypeOK'
  BY TypeInvStep DEF SliceInv, TypeInv
<1>1. CASE \E t \in Thread : GetSlice(t)
  BY <1>0, <1>1, GetCount
<1>2. CASE \E t \in Thread : PutSlice(t) \/ PutLastSlice(t)
  BY <1>0, <1>2, PutCount
<1>3. CASE \E t \in Thread : Release(t)
  BY <1>0, <1>3, ReleaseCount
<1>4. CASE \E t \in Thread : Refill(t)
  BY <1>0, <1>4, RefillCount
<1>5. CASE \E t \in Thread, o \in Object : FreeFromCurrent(t, o)
  BY <1>0, <1>5, FreeCount
<1>6. ASSUME NEW t \in Thread, NEW o \in Object,
             FreeFromImmutable(t, o) \/ \E n \in Size : AllocEnter(t, o, n)
      PROVE  CountOK'
  <2>1. \A c \in Block : Used(c)' \subseteq Used(c)
    BY <1>0, <1>6, SameSlices DEF FreeFromImmutable, AllocEnter, Live, Freeing, TypeOK
  <2> QED
    BY <1>0, <1>6, <2>1, QuietCount DEF FreeFromImmutable, AllocEnter, poolState, TypeOK
<1>7. ASSUME NEW t \in Thread, Retire(t) \/ RefillThrows(t)
      PROVE  CountOK'
  <2>1. \A c \in Block : Used(c)' \subseteq Used(c)
    BY <1>0, <1>7, SameSlices DEF Retire, RefillThrows, ReturnAlloc, Live, Freeing, TypeOK
  <2> QED
    BY <1>0, <1>7, <2>1, QuietCount DEF Retire, RefillThrows, ReturnAlloc, TypeOK
<1>8. ASSUME NEW t \in Thread, Find(t) \/ FindThrows(t)
      PROVE  CountOK'
  <2>1. \A c \in Block : Used(c)' \subseteq Used(c)
    BY <1>0, <1>8, SameSlices DEF Find, FindThrows, Live, Freeing, TypeOK
  <2> QED
    BY <1>0, <1>8, <2>1, QuietCount DEF Find, FindThrows, poolState, TypeOK
<1>9. ASSUME NEW t \in Thread, Erase(t)
      PROVE  CountOK'
  <2>1. \A c \in Block : Used(c)' \subseteq Used(c)
    BY <1>0, <1>9, SameSlices DEF Erase, Live, Freeing, TypeOK
  <2>2. \A a \in Bucket : heap'[a] \in {heap[a], NoBucket}
    <3>1. heap' = Collect(heap, current, immutable', bkt')
      BY <1>9 DEF Erase
    <3>2. /\ immutable' \in [Block -> Bucket \cup {NoBucket}]
          /\ bkt' \in [Thread -> Bucket \cup {NoBucket}]
      BY <1>0 DEF TypeOK
    <3> QED
      BY <3>1, <3>2, Collected
  <2> QED
    BY <1>0, <1>9, <2>1, <2>2, QuietCount DEF Erase, TypeOK
<1>10. CASE Elsewhere \/ UNCHANGED vars
  <2>1. \A c \in Block : Used(c)' \subseteq Used(c)
    BY <1>0, <1>10, SameSlices
    DEF Elsewhere, TakeElsewhere, GiveBackElsewhere, vars, Live, Freeing
  <2> QED
    BY <1>0, <1>10, <2>1, QuietCount
    DEF Elsewhere, TakeElsewhere, GiveBackElsewhere, poolState, vars
<1> QED
  BY <1>1, <1>2, <1>3, <1>4, <1>5, <1>6, <1>7, <1>8, <1>9, <1>10 DEF Next, Call, Continue

-----------------------------------------------------------------------------

LEMMA SliceInit == Init => SliceInv
<1> SUFFICES ASSUME Init PROVE SliceInv
  OBVIOUS
<1>1. Live = {} /\ Freeing = {} /\ \A a \in Bucket : heap[a] = NoBucket
  BY DEF Init, Live, Freeing
<1>2. \A t \in Thread : pc[t] = "idle"
  BY DEF Init
<1> QED
  BY <1>1, <1>2, TypeInit DEF SliceInv, SlicesOK, CountOK, Counts

LEMMA SliceStep == SliceInv /\ [Next]_vars => SliceInv'
  BY TypeInvStep, SlicesStep, CountStep DEF SliceInv

\* The locals, the map and the buckets of slice_pool are well formed.
THEOREM SliceTypeCorrect == Spec => []TypeOK
<1>1. SliceInv => TypeOK
  BY DEF SliceInv, TypeInv
<1> QED
  BY <1>1, SliceInit, SliceStep, PTL DEF Spec

\* However alloc, free and the reuse of blocks interleave, two objects never
\* share a byte and their blocks are leased to the pool.
THEOREM SlicesNeverShared == Spec => []SlicesDisjoint
<1>1. SliceInv => SlicesDisjoint
  <2> SUFFICES ASSUME SliceInv PROVE SlicesDisjoint
    OBVIOUS
  <2>1. TypeInv /\ SlicesOK
    BY DEF SliceInv
  <2>2. ASSUME NEW o \in Live, NEW p \in Live \ {o}, slice[o].bid = slice[p].bid
        PROVE  Bytes(slice[o]) \cap Bytes(slice[p]) = {}
    BY <2>1, <2>2, SliceType DEF SlicesOK, Apart, Bytes
  <2> QED
    BY <2>1, <2>2 DEF SlicesDisjoint, SlicesOK, Inside
<1> QED
  BY <1>1, SliceInit, SliceStep, PTL DEF Spec

\* A bucket's block is the pool's when it is released, and one thread only
\* releases it.
THEOREM BlocksReleasedByOwner == Spec => []ReleasedByOwner
<1>1. SliceInv => ReleasedByOwner
  <2> SUFFICES ASSUME SliceInv, NEW t \in Thread, pc[t] = "release"
               PROVE  /\ heap[bkt[t]].bid \in mine
                      /\ \A u \in Thread \ {t} :
                           pc[u] = "release" => heap[bkt[u]].bid # heap[bkt[t]].bid
    BY DEF ReleasedByOwner
  <2> QED
    BY ReleasedIsEmpty, ReleasedIsNobodys
<1> QED
  BY <1>1, SliceInit, SliceStep, PTL DEF Spec
-----------------------------------------------------------------------------
(* The pool implements SliceSpace                                          *)

\* The new slice begins where everything in use in its block ends.
LEMMA GetHands ==
  ASSUME SliceInv, NEW t \in Thread, GetSlice(t)
  PROVE  \E o \in Object : \E s \in Space!Slice : Space!Hand(o, s)
<1> DEFINE o == obj[t]
           s == [bid |-> heap[current].bid, off |-> heap[current].cur, size |-> size[t]]
<1>1. /\ current \in Bucket /\ heap[current] # NoBucket /\ heap[current].bid \in Block
      /\ heap[current].cur \in Nat /\ size[t] \in Nat /\ size[t] >= 1
      /\ o \in Object /\ slice[o] = NoSlice /\ mine' = mine
  BY GetEffect
<1>2. TypeInv /\ TypeOK /\ SlicesOK
  BY DEF SliceInv, TypeInv
<1>3. /\ heap[current].bid \in mine
      /\ Used(heap[current].bid) \subseteq 0 .. heap[current].cur - 1
  BY <1>1 DEF SliceInv, CountOK, Counts, Room
<1>4. Capacity \in Nat /\ heap[current].cur + size[t] <= Capacity
  BY <1>1, SizeAssumption DEF GetSlice, Fits
<1>5. s \in Space!Slice
  BY <1>1, <1>4 DEF Space!Slice
<1>6. slice' = [slice EXCEPT ![o] = s]
  BY DEF GetSlice
<1>7. ASSUME NEW p \in Space!Holding
      PROVE  Space!Bytes(s) \cap Space!Bytes(slice[p]) = {}
  <2>1. p \in Live /\ Bytes(slice[p]) \subseteq Used(slice[p].bid)
    BY <1>2, <1>7, InUse DEF Space!Holding, Live
  <2>2. slice[p].bid = heap[current].bid =>
          \A i \in slice[p].off .. slice[p].off + slice[p].size - 1 : i < heap[current].cur
    BY <1>1, <1>3, <2>1 DEF Bytes
  <2>3. \A i \in heap[current].cur .. heap[current].cur + size[t] - 1 : i >= heap[current].cur
    BY <1>1
  <2>4. slice[p].bid = heap[current].bid =>
          (slice[p].off .. slice[p].off + slice[p].size - 1)
            \cap (heap[current].cur .. heap[current].cur + size[t] - 1) = {}
    <3>1. slice[p].off \in Nat /\ slice[p].size \in Nat
      BY <1>2, <2>1, SliceType
    <3> QED
      BY <1>1, <2>2, <2>3, <3>1
  <2>5. s.bid = heap[current].bid /\ s.off = heap[current].cur /\ s.size = size[t]
    OBVIOUS
  <2> HIDE DEF s
  <2> QED
    BY <2>4, <2>5 DEF Space!Bytes
<1>8. s.bid \in mine /\ s.off + s.size <= Capacity /\ o \notin Space!Holding
  BY <1>1, <1>3, <1>4 DEF Space!Holding
<1> HIDE DEF s, o
<1>9. Space!Hand(o, s)
  BY <1>1, <1>6, <1>7, <1>8 DEF Space!Hand
<1> QED
  BY <1>1, <1>5, <1>9 DEF o

LEMMA SpaceStep == SliceInv /\ [Next]_vars => [Space!Next]_<<mine, slice>>
<1> SUFFICES ASSUME SliceInv, [Next]_vars,
                    mine' # mine \/ slice' # slice
             PROVE  Space!Next
  OBVIOUS
<1>0. TypeInv /\ TypeOK /\ PoolOK
  BY DEF SliceInv, TypeInv
<1>1. ASSUME NEW t \in Thread, Call(t) PROVE Space!Next
  <2>1. PICK o \in Object : FreeFromCurrent(t, o) \/ FreeFromImmutable(t, o)
    BY <1>1 DEF Call, AllocEnter
  <2>2. Space!TakeBack(o)
    BY <2>1 DEF FreeFromCurrent, FreeFromImmutable, poolState, Space!TakeBack, Space!Holding
  <2> QED
    BY <2>2 DEF Space!Next
<1>2. ASSUME NEW t \in Thread, Continue(t) PROVE Space!Next
  <2>1. GetSlice(t) \/ Refill(t) \/ Release(t)
    BY <1>2 DEF Continue, Retire, RefillThrows, Find, FindThrows, PutSlice, PutLastSlice,
       Erase, poolState
  <2>2. CASE GetSlice(t)
    BY <2>2, GetHands DEF Space!Next
  <2>3. CASE Refill(t)
    <3>1. PICK b \in avail : mine' = mine \cup {b} /\ slice' = slice
      BY <2>3 DEF Refill
    <3>2. b \in Block /\ b \notin mine
      BY <1>0, <3>1 DEF TypeOK, PoolOK
    <3> QED
      BY <3>1, <3>2 DEF Space!Lease, Space!Next
  <2>4. CASE Release(t)
    <3> DEFINE b == heap[bkt[t]].bid
    <3>1. pc[t] = "release" /\ mine' = mine \ {b} /\ slice' = slice
      BY <2>4 DEF Release
    <3>2. b \in mine /\ \A o \in Live : slice[o].bid # b
      BY <3>1, ReleasedIsEmpty, ReleasedIsNobodys
    <3>3. b \in Block
      BY <1>0, <3>2 DEF TypeOK
    <3> HIDE DEF b
    <3>4. Space!GiveUp(b)
      BY <3>1, <3>2 DEF Space!GiveUp, Space!Holding, Live
    <3> QED
      BY <3>3, <3>4 DEF Space!Next
  <2> QED
    BY <2>1, <2>2, <2>3, <2>4
<1>3. CASE Elsewhere
  BY <1>3 DEF Elsewhere, TakeElsewhere, GiveBackElsewhere, poolState
<1>4. CASE UNCHANGED vars
  BY <1>4 DEF vars
<1> QED
  BY <1>1, <1>2, <1>3, <1>4 DEF Next

\* What slice_pool promises blob_store::put and remove (blob_store.cpp:25 and 79):
\* alloc hands an object bytes that no other has, free takes them back, and a
\* block that goes back to the allocator holds nothing of any object.
THEOREM SlicePoolImplementsSpace == Spec => ImplementsSpace
<1>1. Init => Space!Init
  BY DEF Init, Space!Init
<1> QED
  BY <1>1, SliceInit, SliceStep, SpaceStep, PTL DEF Spec, ImplementsSpace, Space!Spec

-----------------------------------------------------------------------------
(* One thread at a time: every block comes back.                           *)
(*                                                                         *)
(* A block of the pool then has a bucket that counts, no byte cut off such *)
(* a bucket is forgotten, and the map names every such bucket but the      *)
(* current one, so that free finds it.                                     *)

OneThread == \A t, u \in Thread : t = u

\* What was cut off a bucket is in use or was counted as freed.
Accounted(a) == heap[a].cur <= heap[a].freed + Cardinality(Used(heap[a].bid))

Erasing(b) == \E t \in Thread : pc[t] = "erase" /\ arg[t].bid = b

MineOK == \A b \in mine : \E a \in Bucket : Counts(a) /\ heap[a].bid = b

AccountOK == \A a \in Bucket : Counts(a) => Accounted(a)

FiledOK ==
  /\ \A a \in Bucket : Counts(a) /\ a # current => immutable[heap[a].bid] = a
  /\ \A b \in Block : immutable[b] # NoBucket => Counts(immutable[b]) \/ Erasing(b)

\* A bucket that stops being current still waits for a slice.
CurrentOK == current # NoBucket => heap[current].freed < heap[current].cur \/ heap[current].cur = 0

FoundOK(t) ==
  /\ pc[t] = "refill" /\ current # NoBucket =>
       immutable[heap[current].bid] = current /\ heap[current].cur # 0
  /\ pc[t] \in {"put", "release", "erase"} => immutable[arg[t].bid] = bkt[t]
  /\ pc[t] = "erase" => arg[t].bid \notin mine

ReturnInv ==
  /\ MineOK /\ AccountOK /\ FiledOK /\ CurrentOK
  /\ \A t \in Thread : FoundOK(t)

\* A step that forgets no slice.
LEMMA NoFewerBytes ==
  ASSUME \A o \in Live : \/ o \in Live' /\ slice'[o] = slice[o]
                         \/ \E t \in Freeing' : arg'[t] = slice[o],
         \A t \in Freeing : t \in Freeing' /\ arg'[t] = arg[t],
         NEW b \in Block
  PROVE  Used(b) \subseteq Used(b)'
  BY DEF Used, Bytes

\* A slice that is forgotten takes its own bytes only.
LEMMA BytesLeft ==
  ASSUME NEW s \in Slice, Inside(s), NEW S \in SUBSET (0 .. Capacity),
         NEW V \in SUBSET (0 .. Capacity), S \ Bytes(s) \subseteq V
  PROVE  Cardinality(S) <= Cardinality(V) + s.size
<1>1. /\ IsFiniteSet(S) /\ Cardinality(S) \in Nat
      /\ IsFiniteSet(V) /\ Cardinality(V) \in Nat
  BY BytesType
<1>2. Bytes(s) \subseteq 0 .. Capacity /\ Cardinality(Bytes(s)) = s.size /\ s.size \in Nat
  BY BytesOf DEF Slice
<1>3. S \cap Bytes(s) \in SUBSET (0 .. Capacity) /\ Cardinality(S \cap Bytes(s)) <= s.size
  BY <1>2, FewerBytes
<1>4. Cardinality(S \ Bytes(s)) = Cardinality(S) - Cardinality(S \cap Bytes(s))
  BY <1>1, FS_Difference
<1>5. Cardinality(S \cap Bytes(s)) \in Nat
  BY <1>3, BytesType
<1>6. Cardinality(S \ Bytes(s)) <= Cardinality(V) /\ Cardinality(S \ Bytes(s)) \in Nat
  BY FewerBytes
<1> QED
  BY <1>1, <1>2, <1>3, <1>4, <1>5, <1>6

\* Bytes cut off after those in use are new ones.
LEMMA BytesAdded ==
  ASSUME NEW S \in SUBSET (0 .. Capacity), NEW c \in Nat, NEW n \in Nat, n >= 1,
         S \subseteq 0 .. c - 1,
         NEW V \in SUBSET (0 .. Capacity), S \cup (c .. c + n - 1) \subseteq V
  PROVE  Cardinality(S) + n <= Cardinality(V)
<1> DEFINE T == c .. c + n - 1
<1>1. IsFiniteSet(T) /\ Cardinality(T) = n
  BY IntervalSize
<1>2. /\ IsFiniteSet(S) /\ Cardinality(S) \in Nat
      /\ IsFiniteSet(V) /\ Cardinality(V) \in Nat
  BY BytesType
<1>3. S \cup T \subseteq V
  OBVIOUS
<1>4. S \cap T = {}
  OBVIOUS
<1> HIDE DEF T
<1>5. Cardinality(S \cup T) = Cardinality(S) + n
  <2>1. Cardinality(S \cup T) = Cardinality(S) + n - Cardinality(S \cap T)
    BY <1>1, <1>2, FS_Union
  <2>2. Cardinality(S \cap T) = 0
    BY <1>4, FS_EmptySet
  <2> QED
    BY <1>1, <1>2, <2>1, <2>2
<1>6. Cardinality(S \cup T) <= Cardinality(V)
  BY <1>2, <1>3, FS_Subset
<1> QED
  BY <1>5, <1>6

LEMMA AccountNext ==
  ASSUME NEW a \in Bucket, NEW b, heap'[a].bid = b,
         heap'[a].cur <= heap'[a].freed + Cardinality(Used(b)')
  PROVE  Accounted(a)'
  BY DEF Accounted, Used

LEMMA AccountKept ==
  ASSUME TypeInv, NEW a \in Bucket, heap[a] # NoBucket, Accounted(a), heap'[a] = heap[a],
         \A b \in Block : b = heap[a].bid => Used(b) \subseteq Used(b)'
  PROVE  Accounted(a)'
<1>1. heap[a] \in BucketState
  BY DEF TypeInv, TypeOK
<1>2. PICK b \in Block : b = heap[a].bid
  BY <1>1 DEF BucketState
<1>3. heap[a].cur \in Nat /\ heap[a].freed \in Nat
  BY <1>1 DEF BucketState
<1>4. Used(b)' \in SUBSET (0 .. Capacity)
  BY DEF Used
<1>5. /\ Cardinality(Used(b)') \in Nat /\ Cardinality(Used(b)) \in Nat
      /\ Cardinality(Used(b)) <= Cardinality(Used(b)')
  BY <1>2, <1>4, FewerBytes
<1>6. heap[a].cur <= heap[a].freed + Cardinality(Used(b)')
  BY <1>2, <1>3, <1>5 DEF Accounted
<1> QED
  BY <1>2, <1>6, AccountNext
\* A step that changes no bucket, no block and no entry of the map.
LEMMA QuietReturn ==
  ASSUME SliceInv, ReturnInv, UNCHANGED <<heap, current, mine, immutable>>,
         \A b \in Block : Used(b) \subseteq Used(b)',
         \A u \in Thread : pc'[u] = "release" <=> pc[u] = "release",
         \A u \in Thread : pc[u] = "release" => bkt'[u] = bkt[u],
         \A u \in Thread : pc[u] = "erase" => pc'[u] = "erase" /\ arg'[u] = arg[u]
  PROVE  MineOK' /\ AccountOK' /\ FiledOK' /\ CurrentOK'
<1>1. ASSUME NEW a \in Bucket PROVE Counts(a)' <=> Counts(a)
  BY DEF Counts, Releases
<1>2. MineOK'
  BY <1>1 DEF ReturnInv, MineOK
<1>3. AccountOK'
  <2> SUFFICES ASSUME NEW a \in Bucket, Counts(a)' PROVE Accounted(a)'
    BY DEF AccountOK
  <2>1. Counts(a) /\ heap[a] # NoBucket /\ Accounted(a)
    BY <1>1 DEF Counts, ReturnInv, AccountOK
  <2> QED
    BY <2>1, AccountKept DEF SliceInv
<1>4. \A b \in Block : Erasing(b) => Erasing(b)'
  BY DEF Erasing
<1>5. FiledOK'
  <2>1. \A b \in Block : immutable[b] # NoBucket => immutable[b] \in Bucket
    BY DEF SliceInv, TypeInv, TypeOK
  <2> QED
    BY <1>1, <1>4, <2>1 DEF ReturnInv, FiledOK
<1>6. CurrentOK'
  BY DEF ReturnInv, CurrentOK
<1> QED
  BY <1>2, <1>3, <1>5, <1>6

LEMMA EnterReturn ==
  ASSUME OneThread, SliceInv, ReturnInv, NEW t \in Thread, NEW o \in Object,
         FreeFromImmutable(t, o) \/ \E n \in Size : AllocEnter(t, o, n)
  PROVE  ReturnInv'
<1>0. TypeInv /\ TypeOK /\ pc[t] = "idle" /\ \A u \in Thread : u = t
  BY DEF SliceInv, TypeInv, OneThread, FreeFromImmutable, AllocEnter
<1>1. \A b \in Block : Used(b) \subseteq Used(b)'
  BY <1>0, NoFewerBytes DEF FreeFromImmutable, AllocEnter, Live, Freeing, TypeOK
<1>2. UNCHANGED <<heap, current, mine, immutable, bkt>>
  BY DEF FreeFromImmutable, AllocEnter, poolState
<1>3. /\ pc'[t] \in {"find", "get", "refill"}
      /\ pc'[t] = "refill" => current = NoBucket
  BY <1>0 DEF FreeFromImmutable, AllocEnter, TypeOK
<1>4. FoundOK(t)'
  BY <1>2, <1>3 DEF FoundOK
<1>5. MineOK' /\ AccountOK' /\ FiledOK' /\ CurrentOK'
  BY <1>0, <1>1, <1>2, <1>3, QuietReturn
<1> QED
  BY <1>0, <1>4, <1>5 DEF ReturnInv

\* The bucket of a slice being freed counts and is in the map.
LEMMA EntryFound ==
  ASSUME OneThread, SliceInv, ReturnInv, NEW t \in Thread, pc[t] \in {"find", "put"}
  PROVE  /\ arg[t].bid \in Block /\ immutable[arg[t].bid] \in Bucket
         /\ Counts(immutable[arg[t].bid])
<1>0. TypeInv /\ TypeOK /\ t \in Freeing /\ \A u \in Thread : u = t
  BY DEF SliceInv, TypeInv, OneThread, Freeing
<1>1. /\ arg[t].bid \in Block /\ arg[t].bid \in mine
      /\ current # NoBucket /\ heap[current].bid # arg[t].bid
  BY <1>0, SliceType DEF TypeInv, CallOK, Retired
<1>2. PICK a \in Bucket : Counts(a) /\ heap[a].bid = arg[t].bid
  BY <1>1 DEF ReturnInv, MineOK
<1>3. immutable[arg[t].bid] = a
  BY <1>1, <1>2 DEF ReturnInv, FiledOK
<1> QED
  BY <1>1, <1>2, <1>3

LEMMA FindReturn ==
  ASSUME OneThread, SliceInv, ReturnInv, NEW t \in Thread, Find(t) \/ FindThrows(t)
  PROVE  ReturnInv'
<1>0. TypeInv /\ TypeOK /\ pc[t] = "find" /\ \A u \in Thread : u = t
  BY DEF SliceInv, TypeInv, OneThread, Find, FindThrows
<1>1. Find(t)
  BY <1>0, EntryFound, NoneAssumption DEF FindThrows
<1>2. \A b \in Block : Used(b) \subseteq Used(b)'
  BY <1>0, <1>1, NoFewerBytes DEF Find, Live, Freeing, TypeOK
<1>3. UNCHANGED <<heap, current, mine, immutable, arg>>
  BY <1>1 DEF Find, poolState
<1>4. pc'[t] = "put" /\ bkt'[t] = immutable[arg[t].bid]
  BY <1>0, <1>1 DEF Find, TypeOK
<1>5. FoundOK(t)'
  BY <1>3, <1>4 DEF FoundOK
<1>6. MineOK' /\ AccountOK' /\ FiledOK' /\ CurrentOK'
  BY <1>0, <1>2, <1>3, <1>4, QuietReturn
<1> QED
  BY <1>0, <1>5, <1>6 DEF ReturnInv

LEMMA IdleReturn ==
  ASSUME OneThread, SliceInv, ReturnInv,
         Elsewhere \/ UNCHANGED vars \/ \E t \in Thread : RefillThrows(t)
  PROVE  ReturnInv'
<1>0. TypeInv /\ TypeOK
  BY DEF SliceInv, TypeInv
<1>1. UNCHANGED <<heap, current, mine, immutable, slice, arg, bkt>>
  BY DEF Elsewhere, TakeElsewhere, GiveBackElsewhere, RefillThrows, vars, poolState
<1>2. \A u \in Thread : \/ pc'[u] = pc[u]
                        \/ pc'[u] = "idle" /\ pc[u] = "refill"
  BY <1>0 DEF Elsewhere, TakeElsewhere, GiveBackElsewhere, RefillThrows, ReturnAlloc, vars,
     TypeOK
<1>3. \A b \in Block : Used(b) \subseteq Used(b)'
  BY <1>1, <1>2, NoFewerBytes DEF Live, Freeing
<1>4. \A u \in Thread : FoundOK(u)'
  BY <1>1, <1>2 DEF ReturnInv, FoundOK
<1>5. MineOK' /\ AccountOK' /\ FiledOK' /\ CurrentOK'
  BY <1>1, <1>2, <1>3, QuietReturn
<1> QED
  BY <1>4, <1>5 DEF ReturnInv

\* The bucket without room is entered in the map, where its block had no other.
LEMMA RetireReturn ==
  ASSUME OneThread, SliceInv, ReturnInv, NEW t \in Thread, Retire(t)
  PROVE  ReturnInv'
<1>0. /\ TypeInv /\ TypeOK /\ CountOK /\ pc[t] = "get" /\ \A u \in Thread : u = t
      /\ MineOK /\ AccountOK /\ FiledOK /\ CurrentOK
  BY DEF SliceInv, TypeInv, OneThread, Retire, ReturnInv
<1>1. PICK k \in Bucket : k = current
  BY <1>0, GetType
<1>2. /\ heap[k] \in BucketState /\ heap[k] # NoBucket
      /\ size[t] \in Nat /\ size[t] < Capacity
  BY <1>0, <1>1, GetType, RecordAssumption
<1>3. PICK b \in Block : b = heap[k].bid
  BY <1>2 DEF BucketState
<1>4. heap[k].cur # 0
  BY <1>1, <1>2, SizeAssumption DEF Retire, Fits
<1>5. Counts(k)
  BY <1>1, <1>2 DEF Counts
<1>6. /\ UNCHANGED <<heap, current, mine, bkt, slice, arg>>
      /\ pc'[t] = "refill"
      /\ \A c \in Block : c # b => immutable'[c] = immutable[c]
      /\ immutable'[b] = IF immutable[b] = NoBucket THEN k ELSE immutable[b]
  BY <1>0, <1>1, <1>3 DEF Retire, TypeOK
<1>7. immutable'[b] = k
  <2> SUFFICES ASSUME immutable[b] # NoBucket PROVE immutable[b] = k
    BY <1>6
  <2>1. immutable[b] \in Bucket /\ heap[immutable[b]].bid = b
    BY <1>0 DEF TypeInv, TypeOK, HeapOK
  <2>2. Counts(immutable[b])
    BY <1>0 DEF FiledOK, Erasing
  <2> QED
    BY <1>0, <1>3, <1>5, <2>1, <2>2 DEF CountOK
<1>8. \A a \in Bucket : Counts(a)' <=> Counts(a)
  BY <1>0, <1>6 DEF Counts, Releases
<1>9. MineOK'
  BY <1>0, <1>6, <1>8 DEF MineOK
<1>10. AccountOK'
  <2>1. \A c \in Block : Used(c) \subseteq Used(c)'
    BY <1>0, <1>6, NoFewerBytes DEF Live, Freeing
  <2> SUFFICES ASSUME NEW a \in Bucket, Counts(a)' PROVE Accounted(a)'
    BY DEF AccountOK
  <2>2. heap[a] # NoBucket /\ Accounted(a)
    BY <1>0, <1>8 DEF Counts, AccountOK
  <2> QED
    BY <1>0, <1>6, <2>1, <2>2, AccountKept
<1>11. FiledOK'
  <2>1. ASSUME NEW a \in Bucket, Counts(a)', a # current'
        PROVE  immutable'[heap'[a].bid] = a
    <3>1. Counts(a) /\ a # k /\ heap'[a].bid = heap[a].bid
      BY <1>1, <1>6, <1>8, <2>1
    <3>2. heap[a].bid # b /\ heap[a].bid \in Block
      BY <1>0, <1>3, <1>5, <3>1 DEF CountOK, Counts, TypeOK, BucketState
    <3>3. immutable[heap[a].bid] = a
      BY <1>0, <1>1, <3>1 DEF FiledOK
    <3> QED
      BY <1>6, <3>1, <3>2, <3>3
  <2>2. ASSUME NEW c \in Block, immutable'[c] # NoBucket
        PROVE  Counts(immutable[c])'
    <3>1. CASE c = b
      <4>1. Counts(k)'
        BY <1>5, <1>8
      <4>2. immutable'[c] = k
        BY <1>7, <3>1
      <4> QED
        BY <4>1, <4>2 DEF Counts, Releases
    <3>2. CASE c # b
      <4>1. immutable'[c] = immutable[c] /\ immutable[c] \in Bucket
        BY <1>0, <1>6, <2>2, <3>2 DEF TypeOK
      <4>2. Counts(immutable[c])
        BY <1>0, <2>2, <4>1 DEF FiledOK, Erasing
      <4>3. PICK a \in Bucket : a = immutable'[c]
        BY <4>1
      <4>4. Counts(a)'
        BY <1>8, <4>1, <4>2, <4>3
      <4> QED
        BY <4>3, <4>4 DEF Counts, Releases
    <3> QED
      BY <3>1, <3>2
  <2> QED
    BY <2>1, <2>2 DEF FiledOK
<1>12. CurrentOK'
  BY <1>0, <1>6 DEF CurrentOK
<1>13. FoundOK(t)'
  BY <1>1, <1>3, <1>4, <1>6, <1>7 DEF FoundOK
<1> QED
  BY <1>0, <1>9, <1>10, <1>11, <1>12, <1>13 DEF ReturnInv
\* A step that changes one bucket's counts and takes bytes of its block only.
LEMMA OneReturn ==
  ASSUME SliceInv, TypeInv', ReturnInv, UNCHANGED <<current, mine, immutable>>,
         NEW k \in Bucket, Counts(k), Counts(k)', Accounted(k)',
         heap'[k].bid = heap[k].bid,
         \A a \in Bucket : a # k => heap'[a] \in {heap[a], NoBucket},
         \A b \in Block : b # heap[k].bid => Used(b) \subseteq Used(b)',
         \A u \in Thread : pc[u] \notin {"release", "erase"},
         \A u \in Thread : pc'[u] = "release" => bkt'[u] = k
  PROVE  MineOK' /\ AccountOK' /\ FiledOK'
<1>0. TypeInv /\ TypeOK /\ CountOK /\ MineOK /\ AccountOK /\ FiledOK /\ HeapOK'
  BY DEF SliceInv, TypeInv, ReturnInv
<1>1. ASSUME NEW a \in Bucket, Counts(a), a # k
      PROVE  heap'[a] = heap[a] /\ heap[a] # NoBucket /\ heap[a] \in BucketState /\ Counts(a)'
  <2>1. heap[a] # NoBucket /\ heap[a] \in BucketState
    BY <1>0, <1>1 DEF Counts, TypeOK
  <2>2. CASE a = current
    <3>1. heap'[a] # NoBucket
      BY <1>0, <2>2, NoneAssumption DEF HeapOK
    <3>2. heap'[a] = heap[a]
      BY <1>1, <3>1
    <3> QED
      BY <2>1, <2>2, <3>2 DEF Counts
  <2>3. CASE a # current
    <3>1. immutable[heap[a].bid] = a /\ heap[a].bid \in Block
      BY <1>0, <1>1, <2>1, <2>3 DEF FiledOK, BucketState
    <3>2. heap'[a] # NoBucket
      BY <1>0, <3>1, NoneAssumption DEF HeapOK
    <3>3. heap'[a] = heap[a] /\ heap[a].freed < heap[a].cur
      BY <1>1, <2>3, <3>2 DEF Counts, Releases
    <3> QED
      BY <2>1, <3>3 DEF Counts
  <2> QED
    BY <2>2, <2>3
<1>2. ASSUME NEW a \in Bucket, Counts(a)', a # k PROVE Counts(a) /\ heap'[a] = heap[a]
  BY <1>2 DEF Counts, Releases
<1>3. MineOK'
  <2> SUFFICES ASSUME NEW b \in mine PROVE \E a \in Bucket : Counts(a)' /\ heap'[a].bid = b
    BY DEF MineOK
  <2>1. PICK a \in Bucket : Counts(a) /\ heap[a].bid = b
    BY <1>0 DEF MineOK
  <2> QED
    BY <1>1, <2>1
<1>4. AccountOK'
  <2> SUFFICES ASSUME NEW a \in Bucket, Counts(a)' PROVE Accounted(a)'
    BY DEF AccountOK
  <2>1. CASE a = k
    BY <2>1
  <2>2. CASE a # k
    <3>1. Counts(a) /\ heap'[a] = heap[a] /\ heap[a] # NoBucket /\ Accounted(a)
      BY <1>0, <1>1, <1>2, <2>2 DEF AccountOK
    <3>2. heap[a].bid # heap[k].bid
      BY <1>0, <2>2, <3>1 DEF CountOK
    <3> QED
      BY <1>0, <3>1, <3>2, AccountKept
  <2> QED
    BY <2>1, <2>2
<1>5. FiledOK'
  <2>1. ASSUME NEW a \in Bucket, Counts(a)', a # current PROVE immutable[heap'[a].bid] = a
    <3>1. Counts(a) /\ heap'[a].bid = heap[a].bid
      BY <1>2, <2>1
    <3> QED
      BY <1>0, <2>1, <3>1 DEF FiledOK
  <2>2. ASSUME NEW b \in Block, NEW a \in Bucket, a = immutable[b] PROVE Counts(a)'
    <3>1. Counts(a)
      BY <1>0, <2>2, NoneAssumption DEF FiledOK, Erasing
    <3> QED
      BY <1>1, <3>1
  <2>3. \A b \in Block : immutable[b] # NoBucket => immutable[b] \in Bucket
    BY <1>0 DEF TypeOK
  <2> QED
    BY <2>1, <2>2, <2>3 DEF FiledOK
<1> QED
  BY <1>3, <1>4, <1>5

LEMMA GetReturn ==
  ASSUME OneThread, SliceInv, TypeInv', ReturnInv, NEW t \in Thread, GetSlice(t)
  PROVE  ReturnInv'
<1>0. /\ TypeInv /\ TypeOK /\ CountOK /\ SlicesOK /\ pc[t] = "get" /\ \A u \in Thread : u = t
      /\ AccountOK
  BY DEF SliceInv, TypeInv, OneThread, GetSlice, ReturnInv
<1>1. PICK k \in Bucket : k = current
  BY GetEffect
<1>2. PICK b \in Block : b = heap[k].bid
  BY <1>1, GetEffect
<1>3. /\ heap[k] # NoBucket /\ heap[k].cur \in Nat /\ heap[k].freed \in Nat
      /\ size[t] \in Nat /\ size[t] >= 1
      /\ heap'[k].bid = b /\ heap'[k].freed = heap[k].freed
      /\ heap'[k].cur = heap[k].cur + size[t]
      /\ \A a \in Bucket : a # k => heap'[a] = heap[a]
  BY <1>1, <1>2, GetEffect
<1>4. /\ UNCHANGED <<current, mine, immutable>> /\ pc'[t] = "idle"
      /\ bkt' = bkt /\ arg' = arg /\ Freeing' = Freeing
  BY <1>0, GetEffect DEF GetSlice, ReturnAlloc, TypeOK
<1>5. /\ obj[t] \in Object /\ slice[obj[t]] = NoSlice
      /\ slice'[obj[t]] = [bid |-> b, off |-> heap[k].cur, size |-> size[t]]
      /\ \A o \in Live : o \in Live' /\ slice'[o] = slice[o]
  BY <1>1, <1>2, GetEffect DEF Live
<1>6. slice'[obj[t]] # NoSlice
  <2>1. slice'[obj[t]] \in Slice
    BY <1>2, <1>3, <1>5 DEF Slice
  <2> QED
    BY <2>1, RecordAssumption
<1>7. Counts(k) /\ Counts(k)' /\ Room(k) /\ Accounted(k)
  <2>1. Counts(k)
    BY <1>1, <1>3 DEF Counts
  <2>2. heap'[k] # NoBucket
    BY <1>0, <1>1, <1>4, NoneAssumption DEF TypeInv, HeapOK
  <2>3. Counts(k)'
    BY <1>1, <1>4, <2>2 DEF Counts
  <2> QED
    BY <1>0, <2>1, <2>3 DEF CountOK, AccountOK
<1>8. \A c \in Block : Used(c) \subseteq Used(c)'
  BY <1>4, <1>5, NoFewerBytes
<1>9. heap[k].cur .. heap[k].cur + size[t] - 1 \subseteq Used(b)'
  <2>1. heap[k].cur + size[t] <= Capacity
    BY <1>1, CutOff
  <2>2. obj[t] \in Live'
    BY <1>5, <1>6 DEF Live
  <2>3. /\ slice'[obj[t]].bid = b /\ slice'[obj[t]].off = heap[k].cur
        /\ slice'[obj[t]].size = size[t]
    BY <1>5
  <2>4. \A i \in heap[k].cur .. heap[k].cur + size[t] - 1 : i \in 0 .. Capacity
    BY <1>3, <2>1, SizeAssumption
  <2>5. PICK p \in Live' : p = obj[t]
    BY <2>2
  <2>6. /\ slice'[p].bid = b
        /\ Bytes(slice[p])' = heap[k].cur .. heap[k].cur + size[t] - 1
    BY <2>3, <2>5 DEF Bytes
  <2> QED
    BY <2>4, <2>6 DEF Used
<1>10. Accounted(k)'
  <2>1. Used(b) \subseteq 0 .. heap[k].cur - 1
    BY <1>2, <1>7 DEF Room
  <2>2. Used(b)' \in SUBSET (0 .. Capacity)
    BY DEF Used
  <2>3. Cardinality(Used(b)) + size[t] <= Cardinality(Used(b)')
    BY <1>3, <1>8, <1>9, <2>1, <2>2, UsedType, BytesAdded
  <2>4. Cardinality(Used(b)) \in Nat /\ Cardinality(Used(b)') \in Nat
    BY <2>2, UsedType, BytesType
  <2>5. heap[k].cur <= heap[k].freed + Cardinality(Used(b))
    BY <1>2, <1>7 DEF Accounted
  <2>6. heap'[k].cur <= heap'[k].freed + Cardinality(Used(b)')
    BY <1>3, <2>3, <2>4, <2>5
  <2> QED
    BY <1>3, <2>6, AccountNext
<1>11. MineOK' /\ AccountOK' /\ FiledOK'
  BY <1>0, <1>2, <1>3, <1>4, <1>7, <1>8, <1>10, OneReturn
<1>12. CurrentOK'
  <2>1. heap[k].freed <= heap[k].cur
    <3>1. Cardinality(Used(b)) \in Nat
      BY UsedType, BytesType
    <3> QED
      BY <1>2, <1>3, <1>7, <3>1 DEF Room
  <2>2. heap'[k].freed < heap'[k].cur
    BY <1>3, <2>1
  <2> QED
    BY <1>1, <1>4, <2>2 DEF CurrentOK
<1>13. FoundOK(t)'
  BY <1>4 DEF FoundOK
<1> QED
  BY <1>0, <1>11, <1>12, <1>13 DEF ReturnInv

LEMMA FreeReturn ==
  ASSUME OneThread, SliceInv, TypeInv', ReturnInv,
         NEW t \in Thread, NEW o \in Object, FreeFromCurrent(t, o)
  PROVE  ReturnInv'
<1>0. /\ TypeInv /\ TypeOK /\ CountOK /\ SlicesOK /\ pc[t] = "idle" /\ \A u \in Thread : u = t
      /\ AccountOK /\ CurrentOK
  BY DEF SliceInv, TypeInv, OneThread, FreeFromCurrent, ReturnInv
<1>1. PICK k \in Bucket : k = current
  BY FreeEffect
<1>2. PICK b \in Block : b = heap[k].bid /\ b = slice[o].bid
  BY <1>1, FreeEffect
<1>3. /\ heap[k] # NoBucket /\ heap[k].cur \in Nat /\ heap[k].freed \in Nat
      /\ o \in Live /\ slice[o] \in Slice /\ slice[o].size \in Nat
      /\ heap'[k].bid = b
      /\ IF heap[k].freed + slice[o].size = heap[k].cur
           THEN heap'[k].cur = 0 /\ heap'[k].freed = 0
           ELSE heap'[k].cur = heap[k].cur /\ heap'[k].freed = heap[k].freed + slice[o].size
      /\ \A a \in Bucket : a # k => heap'[a] = heap[a]
  BY <1>1, <1>2, FreeEffect
<1>4. /\ UNCHANGED <<current, mine, immutable>> /\ pc' = pc
      /\ bkt' = bkt /\ arg' = arg /\ Freeing' = Freeing /\ Live' = Live \ {o}
      /\ \A p \in Live' : slice'[p] = slice[p]
  BY FreeEffect
<1>5. Counts(k) /\ Counts(k)' /\ Room(k) /\ Accounted(k)
  <2>1. Counts(k)
    BY <1>1, <1>3 DEF Counts
  <2>2. heap'[k] # NoBucket
    BY <1>0, <1>1, <1>4, NoneAssumption DEF TypeInv, HeapOK
  <2>3. Counts(k)'
    BY <1>1, <1>4, <2>2 DEF Counts
  <2> QED
    BY <1>0, <2>1, <2>3 DEF CountOK, AccountOK
<1>6. /\ \A c \in Block : c # b => Used(c) \subseteq Used(c)'
      /\ Used(b) \ Bytes(slice[o]) \subseteq Used(b)'
  BY <1>2, <1>4 DEF Used, Bytes
<1>7. Used(b)' \in SUBSET (0 .. Capacity) /\ Used(b) \in SUBSET (0 .. Capacity)
  BY DEF Used
<1>8. Cardinality(Used(b)) \in Nat /\ Cardinality(Used(b)') \in Nat
  BY <1>7, BytesType
<1>9. Accounted(k)'
  <2>1. Inside(slice[o])
    BY <1>0, <1>3 DEF SlicesOK
  <2>2. Cardinality(Used(b)) <= Cardinality(Used(b)') + slice[o].size
    BY <1>3, <1>6, <1>7, <2>1, BytesLeft
  <2>3. heap[k].cur <= heap[k].freed + Cardinality(Used(b))
    BY <1>2, <1>5 DEF Accounted
  <2>4. heap'[k].cur <= heap'[k].freed + Cardinality(Used(b)')
    BY <1>3, <1>8, <2>2, <2>3
  <2> QED
    BY <1>3, <2>4, AccountNext
<1>10. MineOK' /\ AccountOK' /\ FiledOK'
  BY <1>0, <1>2, <1>3, <1>4, <1>5, <1>6, <1>9, OneReturn
<1>11. CurrentOK'
  <2>1. heap[k].freed + slice[o].size <= heap[k].cur
    <3>1. Inside(slice[o]) /\ Bytes(slice[o]) \subseteq Used(b)
      BY <1>0, <1>2, <1>3, InUse DEF SlicesOK
    <3>2. Cardinality({}) + slice[o].size <= Cardinality(Used(b)) /\ Cardinality({}) = 0
      BY <1>3, <1>7, <3>1, OneSliceLess, FS_EmptySet
    <3> QED
      BY <1>2, <1>3, <1>5, <1>8, <3>2 DEF Room
  <2>2. heap'[k].freed < heap'[k].cur \/ heap'[k].cur = 0
    BY <1>3, <2>1
  <2> QED
    BY <1>1, <1>4, <2>2 DEF CurrentOK
<1>12. FoundOK(t)'
  BY <1>0, <1>4 DEF FoundOK
<1> QED
  BY <1>0, <1>10, <1>11, <1>12 DEF ReturnInv

LEMMA PutReturn ==
  ASSUME OneThread, SliceInv, TypeInv', ReturnInv,
         NEW t \in Thread, PutSlice(t) \/ PutLastSlice(t)
  PROVE  ReturnInv'
<1>0. /\ TypeInv /\ TypeOK /\ TypeOK' /\ CountOK /\ SlicesOK /\ \A u \in Thread : u = t
      /\ AccountOK /\ CurrentOK /\ FoundOK(t)
  BY DEF SliceInv, TypeInv, OneThread, ReturnInv
<1>1. PICK k \in Bucket : k = bkt[t]
  BY PutEffect
<1>2. PICK b \in Block : b = heap[k].bid /\ b = arg[t].bid
  BY <1>1, PutEffect
<1>3. /\ pc[t] = "put" /\ t \in Freeing /\ k # current
      /\ heap[k] # NoBucket /\ heap[k].cur \in Nat /\ heap[k].freed \in Nat
      /\ arg[t] \in Slice /\ arg[t].size \in Nat
      /\ \A a \in Bucket : a # k => heap'[a] \in {heap[a], NoBucket}
      /\ heap'[k] # NoBucket => /\ heap'[k].bid = b /\ heap'[k].cur = heap[k].cur
                                /\ heap'[k].freed = heap[k].freed + arg[t].size
  BY <1>1, <1>2, PutEffect
<1>4. /\ UNCHANGED <<current, mine, immutable, slice>>
      /\ Live' = Live /\ Freeing' = Freeing \ {t}
      /\ IF heap[k].freed + arg[t].size = heap[k].cur
           THEN pc'[t] = "release" /\ bkt'[t] = k /\ arg'[t] = arg[t]
           ELSE pc'[t] = "idle"
  BY <1>1, PutEffect
<1>5. immutable[b] = k /\ Counts(k) /\ Room(k) /\ Accounted(k)
  <2>1. immutable[b] = k
    BY <1>0, <1>1, <1>2, <1>3 DEF FoundOK
  <2>2. Counts(k)
    BY <1>2, <1>3, <2>1, EntryFound
  <2> QED
    BY <1>0, <2>1, <2>2 DEF CountOK, AccountOK
<1>6. heap'[k] # NoBucket
  BY <1>4, <1>5, NoneAssumption DEF TypeInv, HeapOK
<1>7. /\ \A c \in Block : c # b => Used(c) \subseteq Used(c)'
      /\ Used(b) \ Bytes(arg[t]) \subseteq Used(b)'
  <2>1. \A u \in Freeing : u = t
    BY <1>0 DEF Freeing
  <2> QED
    BY <1>2, <1>4, <2>1 DEF Used, Bytes
<1>8. Used(b)' \in SUBSET (0 .. Capacity) /\ Used(b) \in SUBSET (0 .. Capacity)
  BY DEF Used
<1>9. Cardinality(Used(b)) \in Nat /\ Cardinality(Used(b)') \in Nat
  BY <1>8, BytesType
<1>10. Inside(arg[t]) /\ Bytes(arg[t]) \subseteq Used(b)
  BY <1>0, <1>2, <1>3, InUse DEF SlicesOK
<1>11. Counts(k)'
  <2>1. CASE heap[k].freed + arg[t].size = heap[k].cur
    BY <1>4, <1>6, <2>1 DEF Counts, Releases
  <2>2. CASE heap[k].freed + arg[t].size # heap[k].cur
    <3>1. Cardinality({}) + arg[t].size <= Cardinality(Used(b)) /\ Cardinality({}) = 0
      BY <1>3, <1>8, <1>10, OneSliceLess, FS_EmptySet
    <3>2. heap[k].freed + Cardinality(Used(b)) <= heap[k].cur
      BY <1>2, <1>5 DEF Room
    <3>3. heap'[k].freed < heap'[k].cur
      BY <1>3, <1>6, <1>9, <2>2, <3>1, <3>2
    <3> QED
      BY <1>6, <3>3 DEF Counts
  <2> QED
    BY <2>1, <2>2
<1>12. Accounted(k)'
  <2>1. Cardinality(Used(b)) <= Cardinality(Used(b)') + arg[t].size
    BY <1>3, <1>7, <1>8, <1>10, BytesLeft
  <2>2. heap[k].cur <= heap[k].freed + Cardinality(Used(b))
    BY <1>2, <1>5 DEF Accounted
  <2>3. heap'[k].cur <= heap'[k].freed + Cardinality(Used(b)')
    BY <1>3, <1>6, <1>9, <2>1, <2>2
  <2> QED
    BY <1>3, <1>6, <2>3, AccountNext
<1>13. MineOK' /\ AccountOK' /\ FiledOK'
  <2>1. heap'[k].bid = heap[k].bid
    BY <1>2, <1>3, <1>6
  <2>2. \A u \in Thread : pc'[u] = "release" => bkt'[u] = k
    BY <1>0, <1>4
  <2>3. \A c \in Block : c # heap[k].bid => Used(c) \subseteq Used(c)'
    BY <1>2, <1>7
  <2>4. \A u \in Thread : pc[u] \notin {"release", "erase"}
    BY <1>0, <1>3
  <2> QED
    BY <1>3, <1>4, <1>5, <1>11, <1>12, <2>1, <2>2, <2>3, <2>4, OneReturn
<1>14. CurrentOK'
  <2> SUFFICES ASSUME current # NoBucket
               PROVE  heap'[current].freed < heap'[current].cur \/ heap'[current].cur = 0
    BY <1>4 DEF CurrentOK
  <2>1. PICK c \in Bucket : c = current
    BY <1>0 DEF TypeOK
  <2>2. heap'[c] # NoBucket
    BY <1>4, <2>1 DEF TypeInv, HeapOK
  <2> QED
    BY <1>0, <1>3, <2>1, <2>2 DEF CurrentOK
<1>15. FoundOK(t)'
  BY <1>2, <1>4, <1>5 DEF FoundOK
<1> QED
  BY <1>0, <1>13, <1>14, <1>15 DEF ReturnInv
\* The block leaves the pool and its bucket stops counting.
LEMMA ReleaseReturn ==
  ASSUME OneThread, SliceInv, ReturnInv, NEW t \in Thread, Release(t)
  PROVE  ReturnInv'
<1>0. /\ TypeInv /\ TypeOK /\ CountOK /\ pc[t] = "release" /\ \A u \in Thread : u = t
      /\ MineOK /\ AccountOK /\ FiledOK /\ CurrentOK /\ FoundOK(t)
  BY DEF SliceInv, TypeInv, OneThread, Release, ReturnInv
<1>1. PICK k \in Bucket : k = bkt[t]
  BY <1>0, ReleasedIsEmpty
<1>2. arg[t].bid = heap[k].bid
  BY <1>0, <1>1, ReleasedIsEmpty
<1>3. /\ UNCHANGED <<heap, current, immutable, slice, arg, bkt>>
      /\ mine' = mine \ {arg[t].bid} /\ pc'[t] = "erase"
  BY <1>0, <1>1, <1>2 DEF Release, TypeOK
<1>4. \A a \in Bucket : Counts(a)' => Counts(a)
  BY <1>0, <1>3 DEF Counts, Releases
<1>5. \A a \in Bucket : Counts(a) /\ a # k => Counts(a)'
  BY <1>0, <1>1, <1>3 DEF Counts, Releases
<1>6. MineOK'
  <2> SUFFICES ASSUME NEW b \in mine, b # heap[k].bid
               PROVE  \E a \in Bucket : Counts(a)' /\ heap[a].bid = b
    BY <1>2, <1>3 DEF MineOK
  <2>1. PICK a \in Bucket : Counts(a) /\ heap[a].bid = b
    BY <1>0 DEF MineOK
  <2> QED
    BY <1>5, <2>1
<1>7. AccountOK'
  <2>1. \A c \in Block : Used(c) \subseteq Used(c)'
    BY <1>0, <1>3, NoFewerBytes DEF Live, Freeing
  <2> SUFFICES ASSUME NEW a \in Bucket, Counts(a)' PROVE Accounted(a)'
    BY DEF AccountOK
  <2>2. heap[a] # NoBucket /\ Accounted(a)
    BY <1>0, <1>4 DEF Counts, AccountOK
  <2> QED
    BY <1>0, <1>3, <2>1, <2>2, AccountKept
<1>8. FiledOK'
  <2>1. \A a \in Bucket : Counts(a)' /\ a # current => immutable[heap[a].bid] = a
    BY <1>0, <1>4 DEF FiledOK
  <2>2. ASSUME NEW b \in Block, NEW a \in Bucket, a = immutable[b]
        PROVE  Counts(a)' \/ Erasing(b)'
    <3>1. Counts(a)
      BY <1>0, <2>2, NoneAssumption DEF FiledOK, Erasing
    <3>2. CASE a = k
      <4>1. b = arg[t].bid
        BY <1>0, <1>2, <2>2, <3>2, NoneAssumption DEF TypeInv, HeapOK
      <4> QED
        BY <1>3, <4>1 DEF Erasing
    <3> QED
      BY <1>5, <3>1, <3>2
  <2>3. \A b \in Block : immutable[b] # NoBucket => immutable[b] \in Bucket
    BY <1>0 DEF TypeOK
  <2> QED
    BY <1>3, <2>1, <2>2, <2>3 DEF FiledOK
<1>9. CurrentOK'
  BY <1>0, <1>3 DEF CurrentOK
<1>10. FoundOK(t)'
  BY <1>0, <1>3 DEF FoundOK
<1> QED
  BY <1>0, <1>6, <1>7, <1>8, <1>9, <1>10 DEF ReturnInv

\* The map forgets a block the pool does not have any more.
LEMMA EraseReturn ==
  ASSUME OneThread, SliceInv, TypeInv', ReturnInv, NEW t \in Thread, Erase(t)
  PROVE  ReturnInv'
<1>0. /\ TypeInv /\ TypeOK /\ TypeOK' /\ CountOK /\ pc[t] = "erase" /\ \A u \in Thread : u = t
      /\ MineOK /\ AccountOK /\ FiledOK /\ CurrentOK /\ FoundOK(t) /\ HeapOK'
  BY DEF SliceInv, TypeInv, OneThread, Erase, ReturnInv
<1>1. PICK b \in Block : b = arg[t].bid
  BY <1>0 DEF TypeInv, CallOK, TypeOK, Slice
<1>2. /\ UNCHANGED <<current, mine, slice>>
      /\ \A c \in Block : immutable'[c] = IF c = b THEN NoBucket ELSE immutable[c]
      /\ pc'[t] = "idle" /\ b \notin mine
  BY <1>0, <1>1 DEF Erase, TypeOK, FoundOK
<1>3. \A a \in Bucket : heap'[a] \in {heap[a], NoBucket}
  <2>1. heap' = Collect(heap, current, immutable', bkt')
    BY DEF Erase
  <2> QED
    BY <1>0, <2>1, Collected DEF TypeOK
<1>4. ASSUME NEW a \in Bucket, Counts(a)
      PROVE  /\ heap'[a] = heap[a] /\ heap[a] # NoBucket /\ Counts(a)'
             /\ a # current => immutable'[heap[a].bid] = a
  <2>1. heap[a] # NoBucket /\ heap[a].bid \in Block /\ heap[a].bid # b
    BY <1>0, <1>2, <1>4 DEF Counts, TypeOK, BucketState, CountOK, Room
  <2>2. a # current => immutable'[heap[a].bid] = a
    BY <1>0, <1>2, <1>4, <2>1 DEF FiledOK
  <2>3. heap'[a] # NoBucket
    BY <1>0, <1>2, <2>1, <2>2, NoneAssumption DEF HeapOK
  <2>4. heap'[a] = heap[a]
    BY <1>3, <2>3
  <2>5. Counts(a)'
    BY <1>0, <1>2, <1>4, <2>3, <2>4 DEF Counts, Releases
  <2> QED
    BY <2>1, <2>2, <2>4, <2>5
<1>5. ASSUME NEW a \in Bucket, Counts(a)' PROVE Counts(a)
  BY <1>0, <1>2, <1>3, <1>5 DEF Counts, Releases
<1>6. MineOK'
  <2> SUFFICES ASSUME NEW c \in mine PROVE \E a \in Bucket : Counts(a)' /\ heap'[a].bid = c
    BY <1>2 DEF MineOK
  <2>1. PICK a \in Bucket : Counts(a) /\ heap[a].bid = c
    BY <1>0 DEF MineOK
  <2> QED
    BY <1>4, <2>1
<1>7. AccountOK'
  <2>1. \A c \in Block : Used(c) \subseteq Used(c)'
    <3>1. /\ Live' = Live /\ \A u \in Freeing : u \in Freeing' /\ arg'[u] = arg[u]
      BY <1>0, <1>2 DEF Live, Freeing
    <3> QED
      BY <1>2, <3>1, NoFewerBytes
  <2> SUFFICES ASSUME NEW a \in Bucket, Counts(a)' PROVE Accounted(a)'
    BY DEF AccountOK
  <2>2. heap'[a] = heap[a] /\ heap[a] # NoBucket /\ Accounted(a)
    BY <1>0, <1>4, <1>5 DEF AccountOK
  <2> QED
    BY <1>0, <2>1, <2>2, AccountKept
<1>8. FiledOK'
  <2>1. \A a \in Bucket : Counts(a)' /\ a # current => immutable'[heap'[a].bid] = a
    BY <1>4, <1>5
  <2>2. ASSUME NEW c \in Block, NEW a \in Bucket, a = immutable'[c] PROVE Counts(a)'
    <3>1. c # b /\ immutable[c] = a
      BY <1>2, <2>2, NoneAssumption
    <3>2. Counts(a)
      BY <1>0, <1>1, <3>1, NoneAssumption DEF FiledOK, Erasing
    <3> QED
      BY <1>4, <3>2
  <2>3. \A c \in Block : immutable'[c] # NoBucket => immutable'[c] \in Bucket
    BY <1>0 DEF TypeOK
  <2> QED
    BY <1>2, <2>1, <2>2, <2>3 DEF FiledOK
<1>9. CurrentOK'
  <2> SUFFICES ASSUME current # NoBucket
               PROVE  heap'[current].freed < heap'[current].cur \/ heap'[current].cur = 0
    BY <1>2 DEF CurrentOK
  <2>1. PICK c \in Bucket : c = current
    BY <1>0 DEF TypeOK
  <2>2. Counts(c)
    BY <1>0, <2>1 DEF Counts, TypeInv, HeapOK
  <2> QED
    BY <1>0, <1>4, <2>1, <2>2 DEF CurrentOK
<1>10. FoundOK(t)'
  BY <1>2 DEF FoundOK
<1> QED
  BY <1>0, <1>6, <1>7, <1>8, <1>9, <1>10 DEF ReturnInv

\* The retired bucket stays in the map when another becomes current.
LEMMA RefillReturn ==
  ASSUME OneThread, SliceInv, TypeInv', ReturnInv, NEW t \in Thread, Refill(t)
  PROVE  ReturnInv'
<1>0. /\ TypeInv /\ TypeOK /\ TypeOK' /\ CountOK /\ pc[t] = "refill" /\ \A u \in Thread : u = t
      /\ MineOK /\ AccountOK /\ FiledOK /\ CurrentOK /\ FoundOK(t) /\ HeapOK'
  BY DEF SliceInv, TypeInv, OneThread, Refill, ReturnInv
<1>1. PICK b \in avail :
        /\ mine' = mine \cup {b}
        /\ current' \in Bucket /\ heap[current'] = NoBucket
        /\ heap'[current'] = NewBucket(b)
        /\ \A a \in Bucket : a # current' => heap'[a] \in {heap[a], NoBucket}
  BY <1>0, Refilled
<1>2. PICK k \in Bucket : k = current'
  BY <1>1
<1>3. heap'[k].bid = b /\ heap'[k].cur = 0 /\ heap'[k].freed = 0 /\ heap[k] = NoBucket
  BY <1>1, <1>2 DEF NewBucket
<1>4. UNCHANGED <<immutable, slice, arg, bkt>> /\ pc'[t] = "get"
  BY <1>0 DEF Refill, TypeOK
<1>5. Counts(k)'
  <2>1. heap'[k] # NoBucket
    BY <1>0, <1>2, NoneAssumption DEF HeapOK
  <2> QED
    BY <1>2, <2>1 DEF Counts
<1>6. ASSUME NEW a \in Bucket, Counts(a)
      PROVE  /\ heap'[a] = heap[a] /\ heap[a] # NoBucket /\ Counts(a)'
             /\ immutable[heap[a].bid] = a
  <2>1. heap[a] # NoBucket /\ a # k /\ heap[a].bid \in Block
    BY <1>0, <1>3, <1>6 DEF Counts, TypeOK, BucketState
  <2>2. immutable[heap[a].bid] = a
    BY <1>0, <1>6, NoneAssumption DEF FiledOK, FoundOK
  <2>3. heap'[a] = heap[a]
    <3>1. heap'[a] # NoBucket
      BY <1>0, <1>4, <2>1, <2>2, NoneAssumption DEF HeapOK
    <3> QED
      BY <1>1, <1>2, <2>1, <3>1
  <2>4. heap[a].freed < heap[a].cur
    BY <1>0, <1>6, NoneAssumption DEF Counts, Releases, CurrentOK, FoundOK
  <2> QED
    BY <2>1, <2>2, <2>3, <2>4 DEF Counts
<1>7. ASSUME NEW a \in Bucket, Counts(a)', a # k PROVE Counts(a)
  BY <1>0, <1>1, <1>2, <1>4, <1>7 DEF Counts, Releases
<1>8. MineOK'
  <2> SUFFICES ASSUME NEW c \in mine \cup {b}
               PROVE  \E a \in Bucket : Counts(a)' /\ heap'[a].bid = c
    BY <1>1 DEF MineOK
  <2>1. CASE c = b
    BY <1>3, <1>5, <2>1
  <2>2. CASE c \in mine
    <3>1. PICK a \in Bucket : Counts(a) /\ heap[a].bid = c
      BY <1>0, <2>2 DEF MineOK
    <3> QED
      BY <1>6, <3>1
  <2> QED
    BY <2>1, <2>2
<1>9. AccountOK'
  <2>1. \A c \in Block : Used(c) \subseteq Used(c)'
    BY <1>0, <1>4, NoFewerBytes DEF Live, Freeing
  <2> SUFFICES ASSUME NEW a \in Bucket, Counts(a)' PROVE Accounted(a)'
    BY DEF AccountOK
  <2>2. CASE a = k
    <3>1. Used(b)' \in SUBSET (0 .. Capacity)
      BY DEF Used
    <3>2. Cardinality(Used(b)') \in Nat
      BY <3>1, BytesType
    <3>3. heap'[k].cur <= heap'[k].freed + Cardinality(Used(b)')
      BY <1>3, <3>2
    <3> QED
      BY <1>3, <2>2, <3>3, AccountNext
  <2>3. CASE a # k
    <3>1. heap'[a] = heap[a] /\ heap[a] # NoBucket /\ Accounted(a)
      BY <1>0, <1>6, <1>7, <2>3 DEF AccountOK
    <3> QED
      BY <1>0, <2>1, <3>1, AccountKept
  <2> QED
    BY <2>2, <2>3
<1>10. FiledOK'
  <2>1. \A a \in Bucket : Counts(a)' /\ a # k => immutable[heap'[a].bid] = a
    BY <1>6, <1>7
  <2>2. ASSUME NEW c \in Block, NEW a \in Bucket, a = immutable[c] PROVE Counts(a)'
    <3>1. Counts(a)
      BY <1>0, <2>2, NoneAssumption DEF FiledOK, Erasing
    <3> QED
      BY <1>6, <3>1
  <2>3. \A c \in Block : immutable[c] # NoBucket => immutable[c] \in Bucket
    BY <1>0 DEF TypeOK
  <2> QED
    BY <1>2, <1>4, <2>1, <2>2, <2>3 DEF FiledOK
<1>11. CurrentOK'
  BY <1>2, <1>3 DEF CurrentOK
<1>12. FoundOK(t)'
  BY <1>4 DEF FoundOK
<1> QED
  BY <1>0, <1>8, <1>9, <1>10, <1>11, <1>12 DEF ReturnInv

LEMMA ReturnInit == Init => ReturnInv
<1> SUFFICES ASSUME Init PROVE ReturnInv
  OBVIOUS
<1>1. \A a \in Bucket : ~Counts(a)
  BY DEF Init, Counts
<1> QED
  BY <1>1 DEF Init, ReturnInv, MineOK, AccountOK, FiledOK, CurrentOK, FoundOK

LEMMA ReturnStep == OneThread /\ SliceInv /\ ReturnInv /\ [Next]_vars => ReturnInv'
<1> SUFFICES ASSUME OneThread, SliceInv, ReturnInv, [Next]_vars PROVE ReturnInv'
  OBVIOUS
<1>1. TypeInv'
  BY TypeInvStep
<1>2. ASSUME NEW t \in Thread, Continue(t) PROVE ReturnInv'
  BY <1>1, <1>2, GetReturn, RetireReturn, RefillReturn, IdleReturn, FindReturn, PutReturn,
     ReleaseReturn, EraseReturn DEF Continue
<1>3. ASSUME NEW t \in Thread, Call(t) PROVE ReturnInv'
  BY <1>1, <1>3, EnterReturn, FreeReturn DEF Call
<1> QED
  BY <1>2, <1>3, IdleReturn DEF Next

\* One thread at a time: when all objects of the pool have been freed, it keeps
\* at most the block of its current bucket, for any number of objects, blocks
\* and sizes, whatever else uses the allocator.
THEOREM BlocksComeBack == ASSUME OneThread PROVE Spec => []AllReturned
<1>1. SliceInv /\ ReturnInv => AllReturned
  <2> SUFFICES ASSUME SliceInv, ReturnInv, Live = {}, \A t \in Thread : pc[t] = "idle",
                      NEW b \in mine
               PROVE  current # NoBucket /\ heap[current].bid = b
    BY DEF AllReturned
  <2>1. PICK a \in Bucket : Counts(a) /\ heap[a].bid = b
    BY DEF ReturnInv, MineOK
  <2>2. a = current
    <3>1. Used(b) = {}
      BY DEF Used, Freeing
    <3>2. heap[a].cur <= heap[a].freed + 0
      BY <2>1, <3>1, FS_EmptySet DEF ReturnInv, AccountOK, Accounted
    <3>3. heap[a].cur \in Nat /\ heap[a].freed \in Nat
      BY <2>1 DEF Counts, SliceInv, TypeInv, TypeOK, BucketState
    <3> QED
      BY <2>1, <3>2, <3>3 DEF Counts, Releases
  <2> QED
    BY <2>1, <2>2, NoneAssumption
<1>2. Init => SliceInv /\ ReturnInv
  BY SliceInit, ReturnInit
<1>3. SliceInv /\ ReturnInv /\ [Next]_vars => (SliceInv /\ ReturnInv)'
  BY SliceStep, ReturnStep
<1> QED
  BY <1>1, <1>2, <1>3, PTL DEF Spec
=============================================================================

----------------------------- MODULE SliceSpace -----------------------------
(***************************************************************************)
(* What a slice pool promises the blob store: an object is handed bytes of *)
(* the pool's blocks that no other object has, and a block leaves the pool *)
(* only when no object has any of it.  BlobStore takes a slice for a place *)
(* of its own on the strength of this.                                     *)
(***************************************************************************)
EXTENDS Naturals

CONSTANTS Object, Block, Capacity, NoSlice

VARIABLES
  space,     \* the blocks the pool cuts its slices from
  slice      \* the slice an object has, or NoSlice

Slice == [bid : Block, off : 0 .. Capacity - 1, size : 1 .. Capacity]

Bytes(s) == {s.bid} \X (s.off .. s.off + s.size - 1)

Holding == {o \in Object : slice[o] # NoSlice}

Init ==
  /\ space = {}
  /\ slice = [o \in Object |-> NoSlice]

Lease(b) ==
  /\ b \notin space
  /\ space' = space \cup {b}
  /\ UNCHANGED slice

Hand(o, s) ==
  /\ o \notin Holding
  /\ s.bid \in space /\ s.off + s.size <= Capacity
  /\ \A p \in Holding : Bytes(s) \cap Bytes(slice[p]) = {}
  /\ slice' = [slice EXCEPT ![o] = s]
  /\ UNCHANGED space

TakeBack(o) ==
  /\ o \in Holding
  /\ slice' = [slice EXCEPT ![o] = NoSlice]
  /\ UNCHANGED space

GiveUp(b) ==
  /\ b \in space
  /\ \A o \in Holding : slice[o].bid # b
  /\ space' = space \ {b}
  /\ UNCHANGED slice

Next ==
  \/ \E b \in Block : Lease(b) \/ GiveUp(b)
  \/ \E o \in Object : TakeBack(o) \/ \E s \in Slice : Hand(o, s)

Spec == Init /\ [][Next]_<<space, slice>>
=============================================================================

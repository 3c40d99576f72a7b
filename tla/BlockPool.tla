----------------------------- MODULE BlockPool -----------------------------
(***************************************************************************)
(* What the block allocator promises its callers: a pool of named blocks   *)
(* from which a request takes several at once or none, and to which it     *)
(* gives all of them back at once.  A block is available or leased, never  *)
(* both.  BlockAllocator implements this with one queue operation at a     *)
(* time and no lock (metadata/block/random_block_allocator.cpp); SlicePool *)
(* uses it as the allocator its buckets come from.                         *)
(***************************************************************************)
EXTENDS FiniteSets

CONSTANT Block

VARIABLES
  avail,    \* blocks a request may be given
  leased    \* blocks handed out and not yet given back

poolVars == <<avail, leased>>

PoolInit == avail = {} /\ leased = {}

\* A storage server advertises blocks the pool has never seen.
Register(S) ==
  /\ S \subseteq Block \ (avail \cup leased)
  /\ avail' = avail \cup S
  /\ UNCHANGED leased

\* A request takes all the blocks it asked for.
Take(S) ==
  /\ S \subseteq avail
  /\ avail' = avail \ S
  /\ leased' = leased \cup S

\* A holder gives all of its blocks back.
GiveBack(S) ==
  /\ S \subseteq leased
  /\ leased' = leased \ S
  /\ avail' = avail \cup S

PoolNext == \E S \in SUBSET Block : Register(S) \/ Take(S) \/ GiveBack(S)

PoolSpec == PoolInit /\ [][PoolNext]_poolVars
=============================================================================

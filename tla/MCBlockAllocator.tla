-------------------------- MODULE MCBlockAllocator --------------------------
(***************************************************************************)
(* Instances of BlockAllocator for TLC.                                    *)
(***************************************************************************)
EXTENDS BlockAllocator, TLC

CONSTANTS s1, s2, b1, b2, b3, t1, t2, t3, o1, o2

\* One server with two blocks and one with a single block.
TwoServers == s1 :> <<b1, b2>> @@ s2 :> <<b3>>

\* A single server with two blocks.
OneServer == s1 :> <<b1, b2>>

Interchangeable == Permutations(Thread) \cup Permutations(Owner)
=============================================================================

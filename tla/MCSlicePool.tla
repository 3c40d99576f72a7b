---------------------------- MODULE MCSlicePool ----------------------------
(***************************************************************************)
(* Instances of SlicePool for TLC.                                         *)
(***************************************************************************)
EXTENDS SlicePool, TLC

Interchangeable == Permutations(Thread) \cup Permutations(Object)
                     \cup Permutations(Block)
=============================================================================

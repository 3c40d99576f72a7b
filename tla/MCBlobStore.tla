---------------------------- MODULE MCBlobStore ----------------------------
(***************************************************************************)
(* Instances of BlobStore for TLC.                                         *)
(***************************************************************************)
EXTENDS BlobStore, TLC

Interchangeable == Permutations(Client) \cup Permutations(Name)
                     \cup Permutations(Block)
=============================================================================

------------------------------ MODULE MCClient ------------------------------
(***************************************************************************)
(* Vectors of names for TLC.                                               *)
(***************************************************************************)
EXTENDS Client

CONSTANTS a, b, c

Vectors == {<<a>>, <<a, b>>, <<c, b, a>>}
PairAndOne == {<<a, b>>, <<c>>}
=============================================================================

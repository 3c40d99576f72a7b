----------------------------- MODULE MCMonitor -----------------------------
(***************************************************************************)
(* A workflow for TLC: B and C follow A and read x; D follows B and C and  *)
(* reads w, which lives for less than a unit.  B also reads cfg, which no  *)
(* function puts, and puts twice, what nobody reads.                       *)
(***************************************************************************)
EXTENDS Monitor, TLC

CONSTANTS A, B, C, D, x, y, z, w, cfg

Functions == {A, B, C, D}
Objects == {x, y, z, w, cfg}
Inputs == A :> {} @@ B :> {x, cfg} @@ C :> {x} @@ D :> {w}
Outputs == A :> {x} @@ B :> {y, z} @@ C :> {w} @@ D :> {}
Successors == A :> {B, C} @@ B :> {D} @@ C :> {D} @@ D :> {}
Starts == {A}
Lifetimes == x :> 3 @@ y :> 3 @@ z :> 1 @@ w :> 0 @@ cfg :> 1
=============================================================================

----------------------------- MODULE Collector -----------------------------
(***************************************************************************)
(* What the workflow monitor promises: an object is collected only when no *)
(* function it was counted for is still to read it.                        *)
(***************************************************************************)
CONSTANTS Object, Function

VARIABLES
  waiting,   \* the functions an object is kept for
  kept       \* the objects that exist

Init ==
  /\ waiting \in [Object -> SUBSET Function]
  /\ kept \subseteq Object

Keep(o) ==
  /\ kept' = kept \cup {o}
  /\ UNCHANGED waiting

Pass(f, o) ==
  /\ f \in waiting[o]
  /\ waiting' = [waiting EXCEPT ![o] = @ \ {f}]
  /\ UNCHANGED kept

Collect(o) ==
  /\ waiting[o] = {}
  /\ kept' = kept \ {o}
  /\ UNCHANGED waiting

Next == \E o \in Object :
          Keep(o) \/ Collect(o) \/ \E f \in Function : Pass(f, o)

Spec == Init /\ [][Next]_<<waiting, kept>>
=============================================================================

------------------------------ MODULE MCCursor ------------------------------
(***************************************************************************)
(* Small instances of Cursor for TLC.                                      *)
(***************************************************************************)
EXTENDS CursorForest

CONSTANTS GreenBound

MCGreens == 1 .. GreenBound
MCKinds == {"R", "A", "B"}
MCTokenKinds == {"t"}
Symmetry == Permutations(Handles)
MCMatchers == {MCKinds, MCKinds \cup MCTokenKinds, {"A"}}

(* R[t, A[t]]: one interned token at two depths. *)
Nested ==
  [g \in MCGreens |->
     CASE g = 1 -> [kind |-> "R", kids |-> <<3, 2>>, len |-> 2, cnt |-> 1]
       [] g = 2 -> [kind |-> "A", kids |-> <<3>>, len |-> 1, cnt |-> 1]
       [] g = 3 -> [kind |-> "t", kids |-> <<>>, len |-> 1, cnt |-> 2]
       [] OTHER -> [kind |-> Vacant, kids |-> <<>>, len |-> 0, cnt |-> 0]]

(* R[t, A[t], t]: siblings of both sorts around a node. *)
Around ==
  [g \in MCGreens |->
     CASE g = 1 -> [kind |-> "R", kids |-> <<3, 2, 3>>, len |-> 3, cnt |-> 1]
       [] g = 2 -> [kind |-> "A", kids |-> <<3>>, len |-> 1, cnt |-> 1]
       [] g = 3 -> [kind |-> "t", kids |-> <<>>, len |-> 1, cnt |-> 3]
       [] OTHER -> [kind |-> Vacant, kids |-> <<>>, len |-> 0, cnt |-> 0]]
=============================================================================

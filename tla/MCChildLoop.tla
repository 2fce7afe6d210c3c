---------------------------- MODULE MCChildLoop ----------------------------
(***************************************************************************)
(* Small instances of ChildLoop and TreeWalk for TLC.                      *)
(***************************************************************************)
EXTENDS TreeWalk

MCGreens == 1 .. 14
MCKinds == {"R", "A", "B"}
MCTokenKinds == {"t"}
MCElements == MCKinds \cup MCTokenKinds
MCMatchers == {MCElements, {"B"}}
MCHandles == {"node", "parent", "next", "item", "own"}

Plain(K) == [byKind |-> FALSE, kinds |-> K, casts |-> K, bodies |-> {"keep", "drop"}]
Ast(K) == [byKind |-> FALSE, kinds |-> MCKinds, casts |-> K, bodies |-> {"keep", "drop"}]
Matching(K) == [byKind |-> TRUE, kinds |-> K, casts |-> K, bodies |-> {"keep", "drop", "detach"}]

MCLoops == {Plain(MCKinds), Plain(MCElements), Ast({"A"}), Ast({"R"})}
             \cup {Matching(K) : K \in {MCElements, {"A"}, {"B"}, {"t"}, {"R"}}}
DetachLoop == {[Plain(MCKinds) EXCEPT !.bodies = {"detach"}]}

(* R[t, A[], B[A[], t], A[]]: the empty nodes share their green. *)
Four ==
  [g \in MCGreens |->
     CASE g = 1 -> [kind |-> "R", kids |-> <<2, 3, 4, 3>>, len |-> 2, cnt |-> 1]
       [] g = 2 -> [kind |-> "t", kids |-> <<>>, len |-> 1, cnt |-> 2]
       [] g = 3 -> [kind |-> "A", kids |-> <<>>, len |-> 0, cnt |-> 3]
       [] g = 4 -> [kind |-> "B", kids |-> <<3, 2>>, len |-> 1, cnt |-> 1]
       [] OTHER -> [kind |-> Vacant, kids |-> <<>>, len |-> 0, cnt |-> 0]]
=============================================================================

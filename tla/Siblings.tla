------------------------------ MODULE Siblings ------------------------------
(***************************************************************************)
(* What sll.rs promises to the cursors: the live children of a mutable     *)
(* node are a set, no two of them for one slot of its green node, and an   *)
(* edit shifts the slots of the children behind it.                        *)
(***************************************************************************)
EXTENDS Integers

CONSTANTS
  Elems,  \* the reds that may become children
  Lists   \* the parents

VARIABLES
  slotted,  \* of each parent, its live children with their slots: [elem, slot]
  slots     \* how many children the green node of each parent has

vars == <<slotted, slots>>

Linked(p) == {s.elem : s \in slotted[p]}
Loose == Elems \ UNION {Linked(p) : p \in Lists}
Taken(p) == {s.slot : s \in slotted[p]}

Shifted(S, from, by) == {IF s.slot >= from THEN [s EXCEPT !.slot = @ + by] ELSE s : s \in S}

Init == slotted = [p \in Lists |-> {}] /\ slots \in [Lists -> Nat]

(* A child is looked at that no red stands for yet. *)
Add(p, e, i) ==
  /\ e \in Loose
  /\ i \in 0 .. slots[p] - 1
  /\ i \notin Taken(p)
  /\ slotted' = [slotted EXCEPT ![p] = @ \cup {[elem |-> e, slot |-> i]}]
  /\ UNCHANGED slots

(* The red of a child is freed; the child stays. *)
Remove(p, s) ==
  /\ s \in slotted[p]
  /\ slotted' = [slotted EXCEPT ![p] = @ \ {s}]
  /\ UNCHANGED slots

Detach(p, s) ==
  /\ s \in slotted[p]
  /\ slotted' = [slotted EXCEPT ![p] = Shifted(@ \ {s}, s.slot + 1, -1)]
  /\ slots' = [slots EXCEPT ![p] = @ - 1]

Attach(p, e, i) ==
  /\ e \in Loose
  /\ i \in 0 .. slots[p]
  /\ slotted' = [slotted EXCEPT ![p] = Shifted(@, i, 1) \cup {[elem |-> e, slot |-> i]}]
  /\ slots' = [slots EXCEPT ![p] = @ + 1]

Next ==
  \E p \in Lists :
    \/ \E e \in Elems : \E i \in 0 .. slots[p] : Add(p, e, i) \/ Attach(p, e, i)
    \/ \E s \in slotted[p] : Remove(p, s) \/ Detach(p, s)

Spec == Init /\ [][Next]_vars
=============================================================================

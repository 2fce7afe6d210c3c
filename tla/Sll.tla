-------------------------------- MODULE Sll --------------------------------
(***************************************************************************)
(* The sorted linked list of sll.rs, as the cursors use it: the live       *)
(* children of a mutable node form a circle of pointers, in the order of   *)
(* their indices; `first` of the node points to the one with the least.    *)
(*                                                                         *)
(* A call of NodeData::new, detach, attach_child or free starts in an      *)
(* action and goes on for one step per turn of the loops of sll::link and  *)
(* sll::adjust.  It runs to the end before the next one: the reds of a     *)
(* tree are confined to one thread.                                        *)
(***************************************************************************)
EXTENDS Integers

CONSTANTS
  Elems,     \* addresses of the reds that may become children
  Lists,     \* the parents
  NULL,      \* the absent pointer
  MaxSlots   \* bound: how many children a green node has at most

ASSUME ElemsAssumption == NULL \notin Elems /\ NULL \notin Lists
ASSUME SlotsAssumption == MaxSlots \in Nat

VARIABLES
  head,      \* NodeData::first of the parents
  next,      \* the cells of the children: NodeData::next,
  prev,      \*   prev,
  key,       \*   index
  parent,    \*   and parent
  slots,     \* how many children the green node of a parent has
  call       \* the call in progress

vars == <<head, next, prev, key, parent, slots, call>>

(***************************************************************************)
(* pc: where the call is.  from, by, start: the arguments of adjust, and   *)
(* the element its loop ends at.  curr: the variable of the loops.         *)
(***************************************************************************)
NoCall == [op |-> "none", pc |-> "idle", list |-> NULL, elem |-> NULL, index |-> 0,
           from |-> 0, by |-> 0, start |-> NULL, curr |-> NULL]

Idle == call = NoCall

Init ==
  /\ head = [p \in Lists |-> NULL]
  /\ next = [e \in Elems |-> NULL]
  /\ prev = [e \in Elems |-> NULL]
  /\ key = [e \in Elems |-> 0]
  /\ parent = [e \in Elems |-> NULL]
  /\ slots \in [Lists -> 0 .. MaxSlots]
  /\ call = NoCall

-----------------------------------------------------------------------------
(***************************************************************************)
(* The calls.                                                              *)
(***************************************************************************)
(* NodeData::new: sll::init looks for the slot before the red is boxed at e. *)
NewData(p, e, i) ==
  /\ Idle
  /\ parent[e] = NULL
  /\ i < slots[p]
  /\ call' = [NoCall EXCEPT !.op = "new", !.pc = "link", !.list = p, !.elem = e, !.index = i]
  /\ UNCHANGED <<head, next, prev, key, parent, slots>>

(* free: the last reference to the red is gone. *)
Free(e) ==
  /\ Idle
  /\ parent[e] # NULL
  /\ call' = [NoCall EXCEPT !.op = "free", !.pc = "unlink", !.list = parent[e], !.elem = e]
  /\ parent' = [parent EXCEPT ![e] = NULL]
  /\ UNCHANGED <<head, next, prev, key, slots>>

(* Mutant: the siblings before the element are shifted as well. *)
ShiftAll(e) == 0

Behind(e) == key[e] + 1

(* NodeData::detach: the element is still in the circle while adjust runs. *)
Detach(e) ==
  /\ Idle
  /\ parent[e] # NULL
  /\ call' = [NoCall EXCEPT !.op = "detach", !.pc = "adjust", !.list = parent[e], !.elem = e,
                            !.from = Behind(e), !.by = -1, !.start = e, !.curr = e]
  /\ parent' = [parent EXCEPT ![e] = NULL]
  /\ UNCHANGED <<head, next, prev, key, slots>>

(* NodeData::attach_child: the siblings are shifted, unless there are none. *)
Attach(p, e, i) ==
  /\ Idle
  /\ parent[e] = NULL
  /\ i <= slots[p]
  /\ slots[p] < MaxSlots
  /\ key' = [key EXCEPT ![e] = i]
  /\ parent' = [parent EXCEPT ![e] = p]
  /\ call' = [NoCall EXCEPT !.op = "attach", !.pc = IF head[p] = NULL THEN "link" ELSE "adjust",
                            !.list = p, !.elem = e, !.index = i, !.from = i, !.by = 1,
                            !.start = head[p], !.curr = head[p]]
  /\ UNCHANGED <<head, next, prev, slots>>

-----------------------------------------------------------------------------
(***************************************************************************)
(* sll::adjust, one turn of the loop.                                      *)
(***************************************************************************)
AroundAt(c) == next[c] = call.start

AdjustStep ==
  LET c == call.curr
  IN  /\ call.pc = "adjust"
      /\ key' = IF key[c] >= call.from THEN [key EXCEPT ![c] = @ + call.by] ELSE key
      /\ call' = IF AroundAt(c)
                 THEN [call EXCEPT !.pc = IF call.op = "detach" THEN "unlink" ELSE "link"]
                 ELSE [call EXCEPT !.curr = next[c]]
      /\ UNCHANGED <<head, next, prev, parent, slots>>

(***************************************************************************)
(* sll::unlink.                                                            *)
(***************************************************************************)
(* Mutant: the head stays although its element leaves. *)
HeadKept(e, n) == head[call.list]

HeadWithout(e, n) ==
  IF head[call.list] # e THEN head[call.list] ELSE IF n = e THEN NULL ELSE n

Unlink ==
  LET e == call.elem
      n == next[e]
      p == prev[e]
  IN  /\ call.pc = "unlink"
      /\ next' = [next EXCEPT ![e] = e, ![p] = n]
      /\ prev' = [prev EXCEPT ![e] = e, ![n] = p]
      /\ head' = [head EXCEPT ![call.list] = HeadWithout(e, n)]
      /\ slots' = IF call.op = "detach" THEN [slots EXCEPT ![call.list] = @ - 1] ELSE slots
      /\ call' = NoCall
      /\ UNCHANGED <<key, parent>>

(***************************************************************************)
(* AddToSllResult::add_to_sll: the element gets its place in the circle,   *)
(* between two neighbours, itself if it is alone.                          *)
(***************************************************************************)
Between(before, after) ==
  /\ next' = [next EXCEPT ![before] = call.elem, ![call.elem] = after]
  /\ prev' = [prev EXCEPT ![after] = call.elem, ![call.elem] = before]

Added ==
  /\ key' = [key EXCEPT ![call.elem] = call.index]
  /\ parent' = [parent EXCEPT ![call.elem] = call.list]
  /\ slots' = IF call.op = "attach" THEN [slots EXCEPT ![call.list] = @ + 1] ELSE slots
  /\ call' = NoCall

(***************************************************************************)
(* sll::link with what its result makes of the list.                       *)
(***************************************************************************)
LinkEmpty ==
  /\ call.pc = "link"
  /\ head[call.list] = NULL
  /\ Between(call.elem, call.elem)
  /\ head' = [head EXCEPT ![call.list] = call.elem]
  /\ Added

(* Mutant: Case 2 is missing. *)
NeverSmaller(h) == FALSE

SmallerThanHead(h) == call.index < key[h]

LinkBeforeHead ==
  LET old == head[call.list]
  IN  /\ call.pc = "link"
      /\ old # NULL
      /\ SmallerThanHead(old)
      /\ Between(prev[old], old)
      /\ head' = [head EXCEPT ![call.list] = call.elem]
      /\ Added

LinkSearch ==
  /\ call.pc = "link"
  /\ head[call.list] # NULL
  /\ ~SmallerThanHead(head[call.list])
  /\ call' = [call EXCEPT !.pc = "search", !.curr = prev[head[call.list]]]
  /\ UNCHANGED <<head, next, prev, key, parent, slots>>

SearchStep ==
  /\ call.pc = "search"
  /\ key[call.curr] > call.index
  /\ call' = [call EXCEPT !.curr = prev[call.curr]]
  /\ UNCHANGED <<head, next, prev, key, parent, slots>>

SearchEnd ==
  /\ call.pc = "search"
  /\ key[call.curr] < call.index
  /\ Between(call.curr, next[call.curr])
  /\ UNCHANGED head
  /\ Added

(* NodeData::new takes the red found; attach_child panics. *)
SearchFound ==
  /\ call.pc = "search"
  /\ key[call.curr] = call.index
  /\ call' = IF call.op = "new" THEN NoCall ELSE [call EXCEPT !.pc = "panicked"]
  /\ UNCHANGED <<head, next, prev, key, parent, slots>>

Step == \/ AdjustStep \/ Unlink
        \/ LinkEmpty \/ LinkBeforeHead \/ LinkSearch
        \/ SearchStep \/ SearchEnd \/ SearchFound

Next ==
  \/ \E e \in Elems :
       \/ Free(e)
       \/ Detach(e)
       \/ \E p \in Lists : \E i \in 0 .. MaxSlots : NewData(p, e, i) \/ Attach(p, e, i)
  \/ Step

Spec == Init /\ [][Next]_vars
FairSpec == Spec /\ WF_vars(Step)

-----------------------------------------------------------------------------
(***************************************************************************)
(* Properties.                                                             *)
(***************************************************************************)
Entering == IF call.op = "attach" THEN {call.elem} ELSE {}
Leaving(p) == IF call.op \in {"detach", "free"} /\ call.list = p THEN {call.elem} ELSE {}
Members(p) == ({e \in Elems : parent[e] = p} \ Entering) \cup Leaving(p)

(***************************************************************************)
(* The children of a node form one circle, in both directions and also     *)
(* while a call shifts it, so that the assertions of sll::unlink hold;     *)
(* between calls it ascends strictly from the head.  No attached child     *)
(* ever meets a sibling in its slot, where attach_child panics.            *)
(***************************************************************************)
Circle ==
  /\ call.pc # "panicked"
  /\ \A p \in Lists :
       LET L == Members(p)
       IN  /\ head[p] \in IF L = {} THEN {NULL} ELSE L
           /\ \A e \in L :
                /\ next[e] \in L /\ prev[next[e]] = e
                /\ prev[e] \in L /\ next[prev[e]] = e
                /\ next[e] # head[p] => /\ key[e] <= key[next[e]]
                                        /\ Idle => key[e] < key[next[e]]

(* "Because of Case 2, we can't loop beyond the head" (sll::link). *)
StopsAtHead ==
  [][call.pc = "search" /\ call'.pc = "search" => call.curr # head[call.list]]_vars

(* The loops of sll::link and sll::adjust end, whatever the list went through. *)
CallsEnd == ~Idle ~> Idle

(***************************************************************************)
(* The list implements the set of siblings, each call taking its whole     *)
(* effect at once: what the loop of adjust has not come to yet counts as   *)
(* shifted, the element that leaves as gone, the one attached as there.    *)
(***************************************************************************)
(* Where adjust still comes by: in front of curr, unless it is past the last. *)
ToCome(e) == /\ parent[e] = call.list
             /\ key[call.curr] >= key[call.start]
             /\ e = call.curr \/ key[e] > key[call.curr]

Settled(e) ==
  IF call.pc = "adjust" /\ ToCome(e) /\ key[e] >= call.from THEN key[e] + call.by ELSE key[e]

Calls(op, p) == call.op = op /\ call.list = p

Settle(p) ==
  {[elem |-> e, slot |-> Settled(e)] : e \in Members(p) \ Leaving(p)}
    \cup IF Calls("attach", p) THEN {[elem |-> call.elem, slot |-> call.index]} ELSE {}

SlotsAfter(p) ==
  IF Calls("attach", p) THEN slots[p] + 1 ELSE IF Calls("detach", p) THEN slots[p] - 1 ELSE slots[p]

Set == INSTANCE Siblings WITH slotted <- [p \in Lists |-> Settle(p)],
                              slots <- [p \in Lists |-> SlotsAfter(p)]

ImplementsSet == Set!Spec
=============================================================================

----------------------------- MODULE ChildLoop -----------------------------
(***************************************************************************)
(* A loop `for c in iterator { body }` over the children of a node, where  *)
(* the body may keep the child, drop it or detach it.  The iterators are   *)
(* those of cursor.rs: SyntaxNodeChildren and SyntaxElementChildren, which *)
(* step from the child yielded last when the next one is asked for, the    *)
(* two ByKind iterators, which look ahead before they yield, and the       *)
(* AstChildren of ast.rs, which pass over what they cannot cast.  Every    *)
(* reference the loop owns is one of the user's handles in Cursor.         *)
(***************************************************************************)
EXTENDS Cursor

CONSTANTS
  Loops,       \* the loops: [byKind, kinds, casts, bodies], by_kind or not, the kinds
               \* a loop runs over, those its body sees, what it may do with a child
  NodeVar,     \* the user's reference to the node
  ParentVar,   \* the iterator's `parent`
  NextVar,     \* the iterator's `next`
  ItemVar      \* the child in the body

ASSUME VariablesAssumption ==
  /\ {NodeVar, ParentVar, NextVar, ItemVar} \subseteq Handles
  /\ ParentVar # NodeVar /\ NextVar \notin {NodeVar, ParentVar}
  /\ ItemVar \notin {NodeVar, ParentVar, NextVar}
(* The ByKind iterators do not cast, and a cast never widens what is yielded. *)
ASSUME LoopsAssumption ==
  \A l \in Loops : /\ DOMAIN l = {"byKind", "kinds", "casts", "bodies"}
                   /\ l.byKind \in BOOLEAN
                   /\ l.casts \subseteq l.kinds
                   /\ l.byKind => l.casts = l.kinds

VARIABLES
  pc,          \* where the loop stands
  loop,        \* which loop it is
  expected,    \* the green children there were before the loop
  visited      \* those the body has seen

loopVars == <<pc, loop, expected, visited>>

(* Variables of the user that outlive the body. *)
KeptVars == Handles \ {NodeVar, ParentVar, NextVar, ItemVar}

(* The elements of a sequence whose kind is in K. *)
Those(greens, K) ==
  FlattenSeq([i \in DOMAIN greens |-> IF heap[greens[i]].kind \in K THEN <<greens[i]>> ELSE <<>>])
GreenKids(n, K) == Those(heap[red[n].green].kids, K)

NoLoop == [byKind |-> FALSE, kinds |-> {}, casts |-> {}, bodies |-> {}]

LoopInit ==
  /\ Init
  /\ pc = "tree" /\ loop = NoLoop /\ expected = <<>> /\ visited = <<>>

Goto(from, to) == pc = from /\ pc' = to

MakeTree ==
  /\ Goto("tree", "iterator")
  /\ \E mut \in BOOLEAN : NewRoot(NodeVar, mut)
  /\ UNCHANGED <<loop, expected, visited>>

(* The user may look at elements of its own before the loop starts. *)
Look(h) ==
  /\ Goto("iterator", "iterator")
  /\ \E g \in KeptVars \cup {NodeVar}, J \in Matchers : FirstChild(g, J, h) \/ LastChild(g, J, h)
  /\ UNCHANGED <<loop, expected, visited>>

(* node.children(): the iterator clones the node. *)
Children ==
  /\ Goto("iterator", "first")
  /\ Clone(NodeVar, ParentVar)
  /\ loop' \in Loops
  /\ expected' = GreenKids(handle[NodeVar], loop'.casts)
  /\ UNCHANGED visited

(* The first call of next, or by_kind itself: parent.first_child(). *)
First ==
  /\ Goto("first", IF loop.byKind THEN "by_kind" ELSE "yield")
  /\ \/ FirstChild(ParentVar, loop.kinds, NextVar)
     \/ User /\ Wanted(handle[ParentVar], loop.kinds) = {} /\ UNCHANGED vars
  /\ UNCHANGED <<loop, expected, visited>>

(***************************************************************************)
(* by_kind on an iterator that has yielded: it starts from the child       *)
(* yielded last, which is yielded again if its kind is asked for.          *)
(***************************************************************************)
StartsFrom(n, K) == IF heap[red[n].green].kind \in K THEN {red[n].index} ELSE After(n, K)

ByKind ==
  LET n == handle[NextVar]
      p == red[n].parent
  IN  /\ ~ loop.byKind
      /\ Goto("advance", "by_kind")
      /\ User
      /\ loop' \in {l \in Loops : l.byKind /\ l.kinds \subseteq loop.kinds}
      /\ \/ /\ StartsFrom(n, loop'.kinds) = {red[n].index}
            /\ UNCHANGED <<red, handle, dying>>
         \/ \E i \in Lowest(StartsFrom(n, loop'.kinds) \ {red[n].index}), c \in Reds :
              /\ IsChild(p, i, c)
              /\ handle' = [handle EXCEPT ![NextVar] = c]
              /\ Release(WithChild(p, i, c), n)
         \/ /\ StartsFrom(n, loop'.kinds) = {}
            /\ handle' = [handle EXCEPT ![NextVar] = NULL]
            /\ Release(red, n)
      /\ visited' = <<>>
      /\ LET kids == heap[red[p].green].kids
         IN  expected' = Those(SubSeq(kids, red[n].index + 1, Len(kids)), loop'.kinds)
      /\ UNCHANGED <<heap, kept, spine, drops, todo, stolen, forgotten, edits>>

(* by_kind consumes the iterator it is called on. *)
Consume ==
  /\ Goto("by_kind", "yield")
  /\ User
  /\ Drop(ParentVar)
  /\ UNCHANGED <<loop, expected, visited>>

Casts(n) == heap[red[n].green].kind \in loop.casts

(* self.next.clone() *)
YieldClone ==
  /\ ~ loop.byKind
  /\ Goto("yield", "body")
  /\ handle[NextVar] # NULL /\ Casts(handle[NextVar])
  /\ Clone(NextVar, ItemVar)
  /\ visited' = Append(visited, red[handle[NextVar]].green)
  /\ UNCHANGED <<loop, expected>>

(* find_map(N::cast): the clone is dropped, and the next child is asked for. *)
PassOver ==
  /\ ~ loop.byKind
  /\ Goto("yield", "advance")
  /\ User
  /\ handle[NextVar] # NULL /\ ~ Casts(handle[NextVar])
  /\ UNCHANGED <<vars, loop, expected, visited>>

(* self.next.take() *)
YieldTaken ==
  /\ loop.byKind
  /\ Goto("yield", "ahead")
  /\ User
  /\ handle[NextVar] # NULL
  /\ handle' = [handle EXCEPT ![ItemVar] = handle[NextVar], ![NextVar] = NULL]
  /\ visited' = Append(visited, red[handle[NextVar]].green)
  /\ UNCHANGED <<heap, kept, red, spine, dying, drops, todo, stolen, forgotten, edits, loop, expected>>

(* Mutant: the next sibling is not looked up before the child is handed out. *)
LookNowhere == Goto("ahead", "body") /\ User /\ UNCHANGED <<vars, loop, expected, visited>>

(* .inspect(|next| self.next = next.next_sibling_by_kind(..)) *)
LookAhead ==
  /\ Goto("ahead", "body")
  /\ \/ NextSibling(ItemVar, loop.kinds, NextVar)
     \/ User /\ After(handle[ItemVar], loop.kinds) = {} /\ UNCHANGED vars
  /\ UNCHANGED <<loop, expected, visited>>

BodyDetach ==
  /\ "detach" \in loop.bodies
  /\ Goto("body", "end of body")
  /\ Detach(ItemVar)
  /\ UNCHANGED <<loop, expected, visited>>

(* An assignment drops what the variable held. *)
Keep(h) ==
  /\ User
  /\ handle' = [handle EXCEPT ![h] = handle[ItemVar], ![ItemVar] = NULL]
  /\ IF handle[h] = NULL THEN UNCHANGED <<red, dying>> ELSE Release(red, handle[h])
  /\ UNCHANGED <<heap, kept, spine, drops, todo, stolen, forgotten, edits>>

BodyKeep(h) ==
  /\ "keep" \in loop.bodies
  /\ Goto("body", "advance")
  /\ Keep(h)
  /\ UNCHANGED <<loop, expected, visited>>

BodyDrop ==
  /\ \/ "drop" \in loop.bodies /\ Goto("body", "advance")
     \/ Goto("end of body", "advance")
  /\ User
  /\ Drop(ItemVar)
  /\ UNCHANGED <<loop, expected, visited>>

(* self.next.take().and_then(|next| next.to_next_sibling()) *)
Advance ==
  /\ Goto("advance", "yield")
  /\ \/ loop.byKind /\ User /\ UNCHANGED vars
     \/ ~ loop.byKind /\ ToNextSibling(NextVar, loop.kinds)
  /\ UNCHANGED <<loop, expected, visited>>

(* None: the loop ends, and the iterator is dropped. *)
Finish ==
  /\ Goto("yield", "done")
  /\ User
  /\ handle[NextVar] = NULL
  /\ \/ loop.byKind /\ UNCHANGED vars
     \/ ~ loop.byKind /\ Drop(ParentVar)
  /\ UNCHANGED <<loop, expected, visited>>

Work == Loop /\ UNCHANGED loopVars

LoopNext ==
  \/ MakeTree \/ Children \/ First \/ ByKind \/ Consume
  \/ YieldClone \/ PassOver \/ YieldTaken \/ LookAhead
  \/ BodyDetach \/ BodyDrop \/ Advance \/ Finish
  \/ \E h \in KeptVars : Look(h) \/ BodyKeep(h)
  \/ Work

-----------------------------------------------------------------------------
(***************************************************************************)
(* When the loop ends, the body has seen every child of the sort the       *)
(* iterator yields once and in order, whatever it did with them            *)
(* (SyntaxNodeChildren, SyntaxElementChildren, their ByKind variants and   *)
(* AstChildren); by_kind in the middle of a loop goes on with the child    *)
(* the loop saw last.                                                      *)
(***************************************************************************)
VisitsAll == pc = "done" => visited = expected

(***************************************************************************)
(* Documented (Implementation notes, cursor.rs): the pattern               *)
(* `for c in node.children() { c.detach() }` works.                        *)
(***************************************************************************)
DetachesAll == pc = "done" => GreenKids(handle[NodeVar], loop.kinds) = <<>>
=============================================================================

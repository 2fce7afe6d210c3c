---------------------------- MODULE CursorForest ----------------------------
(***************************************************************************)
(* The cursors implement the trees and places of Forest.  An edit takes    *)
(* effect at once, although respine has not come to the root yet.          *)
(***************************************************************************)
EXTENDS Cursor

PT == INSTANCE PlainTree

(* The tree a green element stands for. *)
Value[g \in Greens] ==
  IF IsToken(heap, g) THEN PT!Leaf(heap[g].kind, heap[g].len)
  ELSE PT!Branch(heap[g].kind, [i \in DOMAIN heap[g].kids |-> Value[heap[g].kids[i]]])

RootOf(n) == Head(Position[n])
PathOf(n) == [d \in 1 .. Len(Position[n]) - 1 |-> Position[n][d + 1] + 1]
PlaceOf(n) == [id |-> RootOf(n), path |-> PathOf(n)]

Placed == {n \in Live : (\E h \in Handles : handle[h] = n) \/ (todo.stage = "link" /\ n \in {todo.node, todo.child})}
RootIds == IF stolen # NULL THEN {} ELSE {RootOf(n) : n \in Placed}

(* The tree below a root; the green that respine carries up counts as installed. *)
Tree(r) ==
  LET tree == Value[red[r].green]
  IN  IF spine.node # NULL /\ RootOf(spine.node) = r
      THEN PT!Rebuilt(tree, PathOf(spine.node), Value[spine.green])
      ELSE tree

Target == INSTANCE Forest WITH
  Ids <- Reds, Nothing <- NULL,
  owned <- IF kept = NULL THEN NULL ELSE Value[kept],
  trees <- [r \in RootIds |->
              [tree |-> Tree(r), mutable |-> red[r].mutable]],
  at <- [h \in Handles |-> IF handle[h] = NULL \/ stolen # NULL THEN NULL ELSE PlaceOf(handle[h])],
  moving <- IF todo.stage # "link" \/ stolen # NULL THEN NULL
            ELSE [node |-> PlaceOf(todo.node), slot |-> todo.index, child |-> PlaceOf(todo.child)]

=============================================================================

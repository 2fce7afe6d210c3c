------------------------------- MODULE Forest -------------------------------
(***************************************************************************)
(* What the cursors promise: trees are plain values, and a handle is a     *)
(* place in one of them.  An edit acts on the value, and every handle      *)
(* follows its element.  Nothing is shared, cached, counted or built       *)
(* lazily here.                                                            *)
(***************************************************************************)
EXTENDS PlainTree

CONSTANTS
  Handles,   \* the user's variables
  Ids,       \* names for trees
  Nothing    \* no place, no tree, no move

VARIABLES
  owned,     \* the tree of the user's GreenNode
  trees,     \* the trees some handle is in: [tree, mutable]
  at,        \* the place of each handle: [id, path]
  moving     \* attach_child, before the child is inserted: [node, slot, child]

vars == <<owned, trees, at, moving>>

Init ==
  /\ owned # Nothing
  /\ trees = <<>>
  /\ at = [h \in Handles |-> Nothing]
  /\ moving = Nothing

(***************************************************************************)
(* A tree is forgotten as soon as no handle is in it.                      *)
(***************************************************************************)
Places == {at[h] : h \in Handles} \cup IF moving = Nothing THEN {} ELSE {moving.node, moving.child}
Used == {place.id : place \in Places \ {Nothing}}
Keep(all) == Used' \subseteq DOMAIN all /\ trees' = [id \in Used' |-> all[id]]

With(id, tree, mutable) ==
  [i \in DOMAIN trees \cup {id} |-> IF i = id THEN [tree |-> tree, mutable |-> mutable] ELSE trees[i]]

Subtree(h) == At(trees[at[h].id].tree, at[h].path)
Mutable(h) == trees[at[h].id].mutable
IsNode(h) == Subtree(h).kind \in NodeKinds

------------------------------------------------------------------------------
(***************************************************************************)
(* Handles: a new one for a tree, or for an element near one.              *)
(***************************************************************************)
NewTree(new, id, tree, mutable, path) ==
  /\ id \notin DOMAIN trees
  /\ at[new] = Nothing
  /\ at' = [at EXCEPT ![new] = [id |-> id, path |-> path]]
  /\ Keep(With(id, tree, mutable))
  /\ UNCHANGED <<owned, moving>>

NewRoot(new, id) == owned # Nothing /\ \E mutable \in BOOLEAN : NewTree(new, id, owned, mutable, <<>>)

CloneSubtree(h, new, id) == IsNode(h) /\ NewTree(new, id, Subtree(h), FALSE, <<>>)

CloneForUpdate(h, new, id) ==
  /\ IsNode(h)
  /\ ~Mutable(h)
  /\ NewTree(new, id, trees[at[h].id].tree, TRUE, at[h].path)

KindAt(h, p) == At(trees[at[h].id].tree, p).kind

Below(h) == Children(trees[at[h].id].tree, at[h].path)
Beside(h) ==
  IF at[h].path = <<>> THEN {} ELSE Children(trees[at[h].id].tree, Front(at[h].path))
Behind(h) == {p \in Beside(h) : Last(p) > Last(at[h].path)}
Ahead(h) == {p \in Beside(h) : Last(p) < Last(at[h].path)}

(* Whatever kinds are asked for, the first one is the first of its kind. *)
Firsts(h, paths) == {p \in paths : \A q \in paths : KindAt(h, q) = KindAt(h, p) => Last(p) <= Last(q)}
Lasts(h, paths) == {p \in paths : \A q \in paths : KindAt(h, q) = KindAt(h, p) => Last(q) <= Last(p)}

(* clone, parent, first and last child, next and previous sibling. *)
Near(h) ==
  {at[h].path} \cup (IF at[h].path = <<>> THEN {} ELSE {Front(at[h].path)})
    \cup Firsts(h, Below(h)) \cup Lasts(h, Below(h))
    \cup Firsts(h, Behind(h)) \cup Lasts(h, Ahead(h))

Look(h, new) ==
  /\ at[new] = Nothing
  /\ \E p \in Near(h) : at' = [at EXCEPT ![new] = [id |-> at[h].id, path |-> p]]
  /\ UNCHANGED <<owned, trees, moving>>

(* to_next_sibling, to_next_sibling_or_token. *)
ToNextSibling(h) ==
  /\ \E p \in Firsts(h, Behind(h)) : at' = [at EXCEPT ![h].path = p]
  /\ UNCHANGED <<owned, trees, moving>>

(* Dropped, or stepped off the last sibling. *)
Drop(h) ==
  /\ at' = [at EXCEPT ![h] = Nothing]
  /\ Keep(trees)
  /\ UNCHANGED <<owned, moving>>

DropOwned == owned' = Nothing /\ UNCHANGED <<trees, at, moving>>

ReplaceWith(h, c) ==
  /\ Subtree(h).kind = Subtree(c).kind
  /\ owned' = Rebuilt(trees[at[h].id].tree, at[h].path, Subtree(c))
  /\ UNCHANGED <<trees, at, moving>>

------------------------------------------------------------------------------
(***************************************************************************)
(* Edits.  The element at `gone` becomes a tree of its own, named id: the  *)
(* handles in it come along, those behind it move up.                      *)
(***************************************************************************)
Apart(place, gone, id) ==
  LET n == Len(gone.path)
      q == place.path
  IN  IF place.id # gone.id THEN place
      ELSE IF IsPrefix(gone.path, q) THEN [id |-> id, path |-> SubSeq(q, n + 1, Len(q))]
      ELSE IF n <= Len(q) /\ IsPrefix(Front(gone.path), q) /\ q[n] > Last(gone.path)
      THEN [place EXCEPT !.path[n] = @ - 1]
      ELSE place

(* The trees after that. *)
Parted(gone, id) ==
  LET tree == trees[gone.id].tree
      p == Front(gone.path)
  IN  [With(id, At(tree, gone.path), TRUE) EXCEPT
         ![gone.id].tree = WithKids(tree, p, RemoveAt(Kids(tree, p), Last(gone.path)))]

AllApart(gone, id) == [h \in Handles |-> IF at[h] = Nothing THEN Nothing ELSE Apart(at[h], gone, id)]

Detach(h, id) ==
  /\ Mutable(h)
  /\ at[h].path # <<>>
  /\ id \notin DOMAIN trees
  /\ at' = AllApart(at[h], id)
  /\ Keep(Parted(at[h], id))
  /\ UNCHANGED <<owned, moving>>

(***************************************************************************)
(* attach_child takes the handle c and detaches its element ...            *)
(***************************************************************************)
Take(h, slot, c, id) ==
  /\ moving = Nothing
  /\ Mutable(h) /\ Mutable(c)
  /\ IsNode(h)
  /\ ~(at[c].id = at[h].id /\ IsPrefix(at[c].path, at[h].path))
  /\ IF at[c].path = <<>>
     THEN /\ id = at[c].id
          /\ at' = [at EXCEPT ![c] = Nothing]
          /\ moving' = [node |-> at[h], slot |-> slot, child |-> at[c]]
          /\ Keep(trees)
     ELSE /\ id \notin DOMAIN trees
          /\ at' = [AllApart(at[c], id) EXCEPT ![c] = Nothing]
          /\ moving' = [node |-> Apart(at[h], at[c], id), slot |-> slot,
                        child |-> [id |-> id, path |-> <<>>]]
          /\ Keep(Parted(at[c], id))
  /\ UNCHANGED owned

(***************************************************************************)
(* ... and inserts it: the handles in it come along, those behind make     *)
(* room.                                                                   *)
(***************************************************************************)
Into(place, node, slot, child) ==
  LET n == Len(node.path) + 1
      q == place.path
  IN  IF place.id = child.id THEN [id |-> node.id, path |-> node.path \o <<slot + 1>> \o q]
      ELSE IF place.id = node.id /\ n <= Len(q) /\ IsPrefix(node.path, q) /\ q[n] >= slot + 1
      THEN [place EXCEPT !.path[n] = @ + 1]
      ELSE place

Put ==
  LET node == moving.node
      tree == trees[node.id].tree
      kids == Kids(tree, node.path)
  IN  /\ moving # Nothing
      /\ moving.slot <= Len(kids)
      /\ at' = [h \in Handles |-> IF at[h] = Nothing THEN Nothing
                                  ELSE Into(at[h], node, moving.slot, moving.child)]
      /\ Keep([trees EXCEPT ![node.id].tree =
                  WithKids(tree, node.path, InsertAt(kids, moving.slot + 1, trees[moving.child.id].tree))])
      /\ moving' = Nothing
      /\ UNCHANGED owned

(* A slot past the end: the panic leaves nothing that could be relied on. *)
Panic ==
  /\ moving # Nothing
  /\ moving.slot > Len(Kids(trees[moving.node.id].tree, moving.node.path))
  /\ at' = [h \in Handles |-> Nothing]
  /\ Keep(trees)
  /\ moving' = Nothing
  /\ UNCHANGED owned

(* Bound: the first slot past the end stands for all of them. *)
SlotsAsked(h) == 0 .. Len(Subtree(h).kids) + 1

Present == {h \in Handles : at[h] # Nothing}

(* A step moves or drops handles, moves a child, or changes the user's GreenNode. *)
Handling ==
  /\ at' # at
  /\ moving' = moving
  /\ \/ \E new \in {h \in Handles : at[h] = Nothing /\ at'[h] # Nothing} :
          \/ \E h \in Present : Look(h, new)
          \/ \E id \in Ids : \/ NewRoot(new, id)
                             \/ \E h \in Present : CloneSubtree(h, new, id) \/ CloneForUpdate(h, new, id)
     \/ \E h \in {g \in Present : at'[g] # at[g]} :
          \/ Drop(h)
          \/ ToNextSibling(h)
          \/ \E id \in Ids : Detach(h, id)

Moving ==
  /\ moving' # moving
  /\ \/ \E h, c \in Present, id \in Ids : \E slot \in SlotsAsked(h) : Take(h, slot, c, id)
     \/ Put
     \/ Panic

Owning == owned' # owned /\ (DropOwned \/ \E h, c \in Present : ReplaceWith(h, c))

Next == Handling \/ Moving \/ Owning

Spec == Init /\ [][Next]_vars
=============================================================================

----------------------------- MODULE PlainTree -----------------------------
(***************************************************************************)
(* Syntax trees as plain values, and the positions in them.  An element is *)
(* named by its path: the numbers of the children to descend to, from 1.   *)
(* It stands for the cursor that gets there in an immutable tree           *)
(* (cursor.rs), whose offset is the length of the text before it.          *)
(***************************************************************************)
EXTENDS SyntaxKinds, Integers, SequencesExt

Leaf(kind, text) == [kind |-> kind, len |-> text, kids |-> <<>>]

LenOf(kids) == FoldLeft(LAMBDA sum, t : sum + t.len, 0, kids)
Branch(kind, kids) == [kind |-> kind, kids |-> kids, len |-> LenOf(kids)]

At(tree, path) == FoldLeft(LAMBDA t, i : t.kids[i], tree, path)
Kids(tree, path) == At(tree, path).kids
IsLeaf(tree, path) == At(tree, path).kind \in TokenKinds

(* NodeData::offset: the relative offsets of the element and its ancestors, summed up. *)
Start(tree, path) ==
  FoldLeft(LAMBDA sum, d : sum + LenOf(SubSeq(Kids(tree, SubSeq(path, 1, d - 1)), 1, path[d] - 1)),
           0, [d \in DOMAIN path |-> d])
End(tree, path) == Start(tree, path) + At(tree, path).len

Empty(tree, path) == At(tree, path).len = 0

(* TextRange::contains_range. *)
ContainsRange(tree, path, first, last) == Start(tree, path) <= first /\ last <= End(tree, path)

Children(tree, path) == {Append(path, i) : i \in DOMAIN Kids(tree, path)}

(***************************************************************************)
(* A tree with another element at a path.                                  *)
(***************************************************************************)
Rebuilt(tree, path, new) ==
  FoldLeft(LAMBDA t, d : LET p == SubSeq(path, 1, d - 1)
                         IN  Branch(At(tree, p).kind, ReplaceAt(Kids(tree, p), path[d], t)),
           new, [d \in DOMAIN path |-> Len(path) + 1 - d])

WithKids(tree, path, kids) == Rebuilt(tree, path, Branch(At(tree, path).kind, kids))

(* All elements down to a depth. *)
Elements(tree, depth) ==
  LET layer[d \in 0 .. depth] ==
        IF d = 0 THEN {<<>>} ELSE UNION {Children(tree, p) : p \in layer[d - 1]}
  IN  UNION {layer[d] : d \in 0 .. depth}
=============================================================================

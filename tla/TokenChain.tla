----------------------------- MODULE TokenChain -----------------------------
(***************************************************************************)
(* Going from token to token in an immutable tree: first_token,            *)
(* last_token, next_token and prev_token (cursor.rs).  The sets are empty  *)
(* where the code returns None.                                            *)
(***************************************************************************)
EXTENDS PlainTree

CONSTANT Depth  \* how deep the trees are

ASSUME DepthAssumption == Depth \in Nat

(* Mutant: the last child is entered instead of the first. *)
LastSlot(tree, p) == Len(Kids(tree, p))

FirstSlot(tree, p) == 1

FirstToken(tree, of) ==
  LET down[p \in Elements(tree, Depth)] ==
        IF IsLeaf(tree, p) THEN {p}
        ELSE IF Kids(tree, p) = <<>> THEN {}
        ELSE down[Append(p, FirstSlot(tree, p))]
  IN  down[of]

LastToken(tree, of) ==
  LET down[p \in Elements(tree, Depth)] ==
        IF IsLeaf(tree, p) THEN {p}
        ELSE IF Kids(tree, p) = <<>> THEN {}
        ELSE down[Append(p, Len(Kids(tree, p)))]
  IN  down[of]

(* The sibling a step before (-1) or behind (1). *)
Sibling(tree, p, step) ==
  {Append(Front(p), i) : i \in {Last(p) + step} \cap DOMAIN Kids(tree, Front(p))}

Upwards(p) == {SubSeq(p, 1, d) : d \in 1 .. Len(p)}

(* The sibling of the token, or of the first of its ancestors that has one. *)
Neighbour(tree, p, step) ==
  LET having == {q \in Upwards(p) : Sibling(tree, q, step) # {}}
  IN  UNION {Sibling(tree, q, step) : q \in {q \in having : \A r \in having : Len(r) <= Len(q)}}

NextToken(tree, t) == UNION {FirstToken(tree, p) : p \in Neighbour(tree, t, 1)}
PrevToken(tree, t) == UNION {LastToken(tree, p) : p \in Neighbour(tree, t, -1)}

------------------------------------------------------------------------------
Tokens(tree) == {p \in Elements(tree, Depth) : IsLeaf(tree, p)}

(* p comes before q in the text. *)
Precedes(p, q) ==
  \E d \in DOMAIN p \cap DOMAIN q : SubSeq(p, 1, d - 1) = SubSeq(q, 1, d - 1) /\ p[d] < q[d]

Adjacent(tree, p, q) ==
  Precedes(p, q) /\ ~\E r \in Tokens(tree) : Precedes(p, r) /\ Precedes(r, q)

Leftmost(tree, p) ==
  LET below == {t \in Tokens(tree) : IsPrefix(p, t)}
  IN  {t \in below : \A r \in below : r = t \/ Precedes(t, r)}

NoEmptyNodes(tree) == \A p \in Elements(tree, Depth) : IsLeaf(tree, p) \/ Kids(tree, p) # <<>>
=============================================================================

------------------------------ MODULE MCLookup ------------------------------
(***************************************************************************)
(* Lookup over all trees of a small shape: a root with up to three         *)
(* children out of empty and non-empty tokens and nodes.                   *)
(***************************************************************************)
EXTENDS Lookup

UpTo(n, S) == UNION {[1 .. k -> S] : k \in 0 .. n}

MCTokens == {Leaf("t", 0), Leaf("t", 1)}
MCInner ==
  {Branch("A", kids) : kids \in UpTo(2, MCTokens)} \cup {Branch("B", <<>>), Branch("A", <<Branch("A", <<>>), Leaf("t", 1)>>)}
MCTrees == {Branch("A", kids) : kids \in UpTo(3, MCTokens \cup MCInner)}
=============================================================================

----------------------------- MODULE MCArcCount -----------------------------
(***************************************************************************)
(* Three threads, three Arcs.                                              *)
(***************************************************************************)
EXTENDS ArcCount, TLC

Symmetry == Permutations(Handles) \cup Permutations(Accesses)
=============================================================================

---------------------------- MODULE SyntaxKinds ----------------------------
(***************************************************************************)
(* The SyntaxKinds of a language (green.rs, api.rs).                       *)
(***************************************************************************)
CONSTANTS
  NodeKinds,   \* those the language uses for nodes
  TokenKinds   \* those it uses for tokens

Kinds == NodeKinds \cup TokenKinds
=============================================================================

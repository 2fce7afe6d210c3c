---------------------------- MODULE PlainBuilder ----------------------------
(***************************************************************************)
(* What GreenNodeBuilder promises (green/builder.rs): it makes the tree    *)
(* the calls describe.  Trees are plain values here, without addresses,    *)
(* counts or a cache; Builder implements this module.                      *)
(***************************************************************************)
EXTENDS PlainTree

CONSTANTS
  Texts,  \* token texts; a text stands for its length
  NoTree  \* no tree has been finished

VARIABLES
  parents,   \* the open branches: kind and number of children before them
  children,  \* the finished elements, as trees
  tree       \* the tree a finished builder returned

vars == <<parents, children, tree>>

Init == parents = <<>> /\ children = <<>> /\ tree = NoTree

Token(kind, text) ==
  /\ children' = Append(children, Leaf(kind, text))
  /\ UNCHANGED <<parents, tree>>

(* Open a branch around everything from position `at` on. *)
StartNodeAt(kind, at) ==
  /\ at <= Len(children)
  /\ parents # <<>> => at >= Last(parents).first
  /\ parents' = Append(parents, [kind |-> kind, first |-> at])
  /\ UNCHANGED <<children, tree>>

FinishNode ==
  /\ parents # <<>>
  /\ LET open == Last(parents)
         node == Branch(open.kind, SubSeq(children, open.first + 1, Len(children)))
     IN  children' = Append(SubSeq(children, 1, open.first), node)
  /\ parents' = Front(parents)
  /\ UNCHANGED tree

(* A single node is left.  Branches still open are forgotten. *)
Finish ==
  /\ tree = NoTree
  /\ Len(children) = 1
  /\ children[1].kind \in NodeKinds
  /\ tree' = children[1]
  /\ parents' = <<>>
  /\ children' = <<>>

(* The builder is dropped, by its owner or while a panic unwinds. *)
Abandon ==
  /\ parents' = <<>>
  /\ children' = <<>>
  /\ UNCHANGED tree

DropTree ==
  /\ tree' = NoTree
  /\ UNCHANGED <<parents, children>>

Next ==
  \/ \E kind \in TokenKinds, text \in Texts : Token(kind, text)
  \/ \E kind \in NodeKinds, at \in 0 .. Len(children) : StartNodeAt(kind, at)
  \/ FinishNode
  \/ Finish
  \/ Abandon
  \/ DropTree

Spec == Init /\ [][Next]_vars
=============================================================================

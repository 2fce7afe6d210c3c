------------------------------- MODULE Lookup -------------------------------
(***************************************************************************)
(* Finding elements by position: child_at_range (green/node.rs),           *)
(* child_or_token_at_range, covering_element and token_at_offset           *)
(* (cursor.rs), and SyntaxNodePtr (ast.rs), in an immutable tree.          *)
(*                                                                         *)
(* covering_element and SyntaxNodePtr::try_to_node are loops that descend  *)
(* by child_or_token_at_range; a turn of the loop is a step.               *)
(* token_at_offset is a function.                                          *)
(***************************************************************************)
EXTENDS TokenChain

CONSTANT
  Trees   \* the trees that are searched

(***************************************************************************)
(* What a green tree is: the children of a node are a sequence, and its    *)
(* length is theirs together (GreenNode::new); a token has a length and no *)
(* children.  No branch is longer than Depth.                              *)
(***************************************************************************)
WellFormed(element) ==
  /\ element.len \in Nat
  /\ element.kids \in Seq(Range(element.kids))
  /\ IF element.kind \in TokenKinds THEN element.kids = <<>>
                                     ELSE element.len = LenOf(element.kids)

ASSUME TreesAssumption ==
  \A t \in Trees : \A p \in Elements(t, Depth) :
    WellFormed(At(t, p)) /\ (Len(p) = Depth => Kids(t, p) = <<>>)

VARIABLES
  tree,
  call,   \* what is asked: [op, of, kind, first, last], `of` the node it is asked of or made from
  at,     \* the element the loop has come to
  status  \* "idle", "searching", "found" or "none"

vars == <<tree, call, at, status>>

All == Elements(tree, Depth)
Nodes == {p \in All : ~IsLeaf(tree, p)}

NoCall == [op |-> "no", of |-> <<>>, kind |-> "", first |-> 0, last |-> 0]

Init ==
  /\ tree \in Trees
  /\ call = NoCall
  /\ at = <<>>
  /\ status = "idle"

------------------------------------------------------------------------------
(***************************************************************************)
(* GreenNodeData::child_at_range.                                          *)
(***************************************************************************)
(* Mutant: touching ranges count as overlapping. *)
StrictlyBefore(c, first) == End(tree, c) < first

(* TextRange::ordering is Less. *)
Before(c, first) == End(tree, c) <= first

Overlapping(p, first, last) ==
  {c \in Children(tree, p) : ~Before(c, first) /\ Start(tree, c) < last}

(* Mutant: a failed binary search finds nothing. *)
LastBeforeOrNothing(p, first) == {}

(***************************************************************************)
(* When no child overlaps, the binary search ends after the ones before;   *)
(* the index below is taken, saturating at the first child.                *)
(***************************************************************************)
LastBefore(p, first) ==
  LET before == {c \in Children(tree, p) : Before(c, first)}
      n == Cardinality(before)
  IN  {Append(p, i) : i \in {IF n = 0 THEN 1 ELSE n} \cap DOMAIN Kids(tree, p)}

(* Which of several overlapping children is found is not specified. *)
Searched(p, first, last) ==
  IF Overlapping(p, first, last) # {} THEN Overlapping(p, first, last) ELSE LastBefore(p, first)

ChildAtRange(p, first, last) ==
  {c \in Searched(p, first, last) : ContainsRange(tree, c, first, last)}

(* The search may come back without a child. *)
NoChildAtRange(p, first, last) ==
  \/ Searched(p, first, last) = {}
  \/ \E c \in Searched(p, first, last) : ~ContainsRange(tree, c, first, last)

------------------------------------------------------------------------------
(***************************************************************************)
(* covering_element of a node; the range lies inside it, or the code       *)
(* panics.                                                                 *)
(***************************************************************************)
Ask(op, of, from, first, last) ==
  /\ status = "idle"
  /\ call' = [op |-> op, of |-> of, kind |-> At(tree, of).kind, first |-> first, last |-> last]
  /\ at' = from
  /\ status' = "searching"
  /\ UNCHANGED tree

CoveringElement ==
  \E p \in Nodes : \E first \in Start(tree, p) .. End(tree, p) : \E last \in first .. End(tree, p) :
    Ask("cover", p, p, first, last)

(* SyntaxNodePtr::new of a node, and try_to_node from the root of the same tree. *)
TryToNode ==
  \E p \in Nodes : Ask("resolve", p, <<>>, Start(tree, p), End(tree, p))

(* try_to_node takes the first node that has the range and the kind of the pointer. *)
Matches(p) ==
  /\ ~IsLeaf(tree, p)
  /\ Start(tree, p) = call.first /\ End(tree, p) = call.last
  /\ At(tree, p).kind = call.kind

Goal == call.op = "resolve" /\ Matches(at)

Descend ==
  /\ status = "searching"
  /\ ~Goal
  /\ ~IsLeaf(tree, at)
  /\ at' \in ChildAtRange(at, call.first, call.last)
  /\ UNCHANGED <<tree, call, status>>

Arrive ==
  /\ status = "searching"
  /\ Goal
  /\ status' = "found"
  /\ UNCHANGED <<tree, call, at>>

(* A token, or a node without a child there: the answer of covering_element. *)
Bottom ==
  /\ status = "searching"
  /\ ~Goal
  /\ IsLeaf(tree, at) \/ NoChildAtRange(at, call.first, call.last)
  /\ status' = IF call.op = "cover" THEN "found" ELSE "none"
  /\ UNCHANGED <<tree, call, at>>

Next == CoveringElement \/ TryToNode \/ Descend \/ Arrive \/ Bottom

Spec == Init /\ [][Next]_vars

------------------------------------------------------------------------------
(***************************************************************************)
(* token_at_offset, by recursion over the elements.  An answer is the      *)
(* sequence of tokens found, or that the code panics.                      *)
(***************************************************************************)
Panic == [panics |-> TRUE, tokens |-> <<>>]
Answer(tokens) == [panics |-> FALSE, tokens |-> tokens]

Touches(p, offset) == Start(tree, p) <= offset /\ offset <= End(tree, p)

(* Mutant: empty children are asked as well. *)
AnyHits(p, offset) == {i \in DOMAIN Kids(tree, p) : Touches(Append(p, i), offset)}

(* The children that are asked. *)
Hits(p, offset) ==
  {i \in DOMAIN Kids(tree, p) : ~Empty(tree, Append(p, i)) /\ Touches(Append(p, i), offset)}

(* Both neighbours must answer with a single token. *)
Between(left, right) ==
  IF ~left.panics /\ ~right.panics /\ Len(left.tokens) = 1 /\ Len(right.tokens) = 1
  THEN Answer(left.tokens \o right.tokens)
  ELSE Panic

TokenAtOffset(of, offset) ==
  LET asked[p \in All] ==
        LET hits == Hits(p, offset)
            left == asked[Append(p, Min(hits))]
            right == asked[Append(p, Max(hits))]
        IN  CASE ~Touches(p, offset) -> Panic
              [] Touches(p, offset) /\ IsLeaf(tree, p) -> Answer(<<p>>)
              [] Touches(p, offset) /\ ~IsLeaf(tree, p) /\ Empty(tree, p) -> Answer(<<>>)
              [] OTHER -> CASE Cardinality(hits) = 1 -> left
                            [] Cardinality(hits) = 2 -> Between(left, right)
                            [] OTHER -> Panic
  IN  asked[of]

------------------------------------------------------------------------------
(***************************************************************************)
(* Properties.                                                             *)
(***************************************************************************)
(***************************************************************************)
(* api.rs: covering_element returns the deepest element that contains the  *)
(* range.  Nothing below the answer contains it as well.                   *)
(***************************************************************************)
CoversDeepest ==
  status = "found" /\ call.op = "cover" =>
    /\ ContainsRange(tree, at, call.first, call.last)
    /\ \A p \in All : ContainsRange(tree, p, call.first, call.last) /\ IsPrefix(at, p) => p = at

(***************************************************************************)
(* A pointer to a node with text is resolved in the tree it was made from: *)
(* to the node itself or to an ancestor of the same kind and range.        *)
(***************************************************************************)
PointerResolves ==
  call.op = "resolve" /\ call.first < call.last =>
    /\ status # "none"
    /\ status = "found" => IsPrefix(at, call.of) /\ Matches(at)

(***************************************************************************)
(* token_at_offset never panics inside the node, and returns the tokens    *)
(* with text that touch the offset, in order.                              *)
(***************************************************************************)
TokensTouching(of, offset) ==
  {p \in All : IsPrefix(of, p) /\ IsLeaf(tree, p) /\ ~Empty(tree, p) /\ Touches(p, offset)}

TokensFound ==
  status = "idle" =>
    \A p \in Nodes : \A offset \in Start(tree, p) .. End(tree, p) :
      LET answer == TokenAtOffset(p, offset)
      IN  /\ ~answer.panics
          /\ Range(answer.tokens) = TokensTouching(p, offset)
          /\ Len(answer.tokens) = 2 =>
               End(tree, answer.tokens[1]) = offset /\ Start(tree, answer.tokens[2]) = offset

(***************************************************************************)
(* ast.rs, try_to_node: a pointer is resolved in a tree equivalent to the  *)
(* one it was made from.  Here it is that very tree.                       *)
(***************************************************************************)
PointerFound == status # "none"

(***************************************************************************)
(* Going from token to token: next_token and prev_token give the adjacent  *)
(* token and step over none, first_token the leftmost one; without empty   *)
(* nodes they always give it, with them they may give up before.           *)
(***************************************************************************)
TokensInOrder ==
  status = "idle" =>
    /\ \A t, r \in Tokens(tree) :
         /\ r \in NextToken(tree, t) => Adjacent(tree, t, r)
         /\ r \in PrevToken(tree, t) => Adjacent(tree, r, t)
         /\ NoEmptyNodes(tree) /\ Adjacent(tree, t, r) =>
              r \in NextToken(tree, t) /\ t \in PrevToken(tree, r)
    /\ \A p \in Nodes :
         /\ FirstToken(tree, p) \subseteq Leftmost(tree, p)
         /\ NoEmptyNodes(tree) => FirstToken(tree, p) = Leftmost(tree, p)
=============================================================================

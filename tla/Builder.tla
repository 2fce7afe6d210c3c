------------------------------ MODULE Builder ------------------------------
(***************************************************************************)
(* GreenNodeBuilder (green/builder.rs) and the NodeCache it interns        *)
(* through (green/node_cache.rs).  The builder keeps a stack of open       *)
(* branches and a stack of finished elements with their hashes; the cache  *)
(* keeps one reference to every element it interned and outlives the       *)
(* builders that borrow it.  A finished tree belongs to the client, who    *)
(* may drop it on another thread while the builder goes on.                *)
(***************************************************************************)
EXTENDS GreenNode

CONSTANTS
  Texts,      \* token texts; a text stands for its length
  ZeroKinds,  \* node kinds whose empty node has the hash 0
  NoTree,     \* no tree has been finished
  Few,        \* how many children a node that is looked up may have: 3
  MaxStack,   \* bound on the open branches and the finished elements together
  MaxBuilders \* bound on the builders that use the cache

ASSUME KindsAssumption ==
  /\ NodeKinds \cap TokenKinds = {}
  /\ ZeroKinds \subseteq NodeKinds
  /\ Vacant \notin Kinds

ASSUME TextsAssumption == Texts \subseteq Nat

ASSUME BoundsAssumption == MaxStack \in Nat

ASSUME TreeAssumption == NoTree \notin Greens

VARIABLES
  heap,       \* the green elements, by address
  nodes,      \* the interned nodes
  tokens,     \* the interned tokens
  parents,    \* the open branches: kind, and the position of the first child
  children,   \* the finished elements: address, and whether the hash is not 0
  tree,       \* the GreenNode a finished builder returned
  drops,      \* references the builder's thread is dropping
  elsewhere,  \* references another thread is dropping
  built       \* the builders that are done, a bound

cache == <<nodes, tokens>>
stacks == <<parents, children>>
vars == <<heap, nodes, tokens, parents, children, tree, drops, elsewhere, built>>

(* The bound on the stacks: there is room for one more. *)
Room == Len(parents) + Len(children) < MaxStack

(* The allocator hands out the lowest free address. *)
NewGreen == {g \in FreeGreens(heap) : \A a \in FreeGreens(heap) : g <= a}

Greenery(stack) == [i \in DOMAIN stack |-> stack[i].green]

Init ==
  /\ heap = [g \in Greens |-> Free]
  /\ nodes = {}
  /\ tokens = {}
  /\ parents = <<>>
  /\ children = <<>>
  /\ tree = NoTree
  /\ drops = <<>>
  /\ elsewhere = <<>>
  /\ built = 0

------------------------------------------------------------------------------
(***************************************************************************)
(* NodeCache.                                                              *)
(***************************************************************************)
Push(stack, g, hashed) == Append(stack, [green |-> g, hashed |-> hashed])

(* The token in the cache with this kind and text. *)
SameToken(kind, text) == {g \in tokens : heap[g].kind = kind /\ heap[g].len = text}

(* Mutant: the children are counted but not compared. *)
AlikeNode(kind, kids) ==
  {g \in nodes : heap[g].kind = kind /\ Len(heap[g].kids) = Len(kids)}

(* Mutant: the cache never finds anything. *)
NoNode(kind, kids) == {}

(* The nodes in the cache with this kind and these very children. *)
SameNode(kind, kids) == {g \in nodes : heap[g].kind = kind /\ heap[g].kids = kids}

(* Mutant: the hash 0 of a child that is not interned is used like any other. *)
InternableWhenSmall(rest) == Len(rest) <= Few

(* A node is looked up if it has few children and knows all their hashes. *)
Internable(rest) == Len(rest) <= Few /\ \A i \in DOMAIN rest : rest[i].hashed

Hashed(kind, rest) == rest # <<>> \/ kind \notin ZeroKinds

(* A node that is too large, or has an unhashed child, is not looked up. *)
BuildUncached(kind, base, rest) ==
  /\ ~Internable(rest)
  /\ \E a \in NewGreen :
       /\ heap' = NewNode(heap, a, kind, Greenery(rest))
       /\ children' = Push(base, a, FALSE)
  /\ UNCHANGED <<nodes, drops>>

(* Mutant: the drained children are forgotten. *)
DrainedNothing(rest) == <<>>

(* A hit: the drained children are dropped, the interned node is cloned. *)
Drained(rest) == Greenery(rest)

Reuse(kind, base, rest) ==
  /\ Internable(rest)
  /\ \E g \in SameNode(kind, Greenery(rest)) :
       /\ heap' = ShareOne(heap, g)
       /\ children' = Push(base, g, Hashed(kind, rest))
  /\ drops' = Drained(rest)
  /\ UNCHANGED nodes

(* A miss: the new node is shared by the cache and the stack. *)
Intern(kind, base, rest) ==
  /\ Internable(rest)
  /\ SameNode(kind, Greenery(rest)) = {}
  /\ \E a \in NewGreen :
       /\ heap' = ShareOne(NewNode(heap, a, kind, Greenery(rest)), a)
       /\ nodes' = nodes \cup {a}
       /\ children' = Push(base, a, Hashed(kind, rest))
  /\ UNCHANGED drops

------------------------------------------------------------------------------
(***************************************************************************)
(* GreenNodeBuilder.  A call starts when the drops of the one before are   *)
(* done.  A call that panics unwinds: the builder is dropped, Abandon.     *)
(***************************************************************************)
ReuseToken(kind, text) ==
  \E g \in SameToken(kind, text) :
    /\ heap' = ShareOne(heap, g)
    /\ children' = Push(children, g, TRUE)
    /\ UNCHANGED tokens

InternToken(kind, text) ==
  /\ SameToken(kind, text) = {}
  /\ \E a \in NewGreen :
       /\ heap' = [heap EXCEPT ![a] = [kind |-> kind, kids |-> <<>>, len |-> text, cnt |-> 2]]
       /\ tokens' = tokens \cup {a}
       /\ children' = Push(children, a, TRUE)

Token(kind, text) ==
  /\ drops = <<>>
  /\ Room
  /\ ReuseToken(kind, text) \/ InternToken(kind, text)
  /\ UNCHANGED <<nodes, parents, tree, drops, elsewhere, built>>

Open(kind, first) ==
  /\ drops = <<>>
  /\ Room
  /\ parents' = Append(parents, [kind |-> kind, first |-> first])
  /\ UNCHANGED <<heap, nodes, tokens, children, tree, drops, elsewhere, built>>

StartNode(kind) == Open(kind, Len(children))

(***************************************************************************)
(* start_node_at with a checkpoint taken when the stack had `at` elements. *)
(* The stack grows one by one, so every length up to the present one is    *)
(* that of an earlier checkpoint; other checkpoints panic.                 *)
(***************************************************************************)
(* Mutant: the second assertion of start_node_at is missing. *)
AnyPosition(at) == at >= 0

StillValid(at) == parents # <<>> => at >= Last(parents).first

StartNodeAt(kind, at) ==
  /\ at <= Len(children)
  /\ StillValid(at)
  /\ Open(kind, at)

FinishNode ==
  /\ drops = <<>>
  /\ parents # <<>>
  /\ LET open == Last(parents)
         base == SubSeq(children, 1, open.first)
         rest == SubSeq(children, open.first + 1, Len(children))
     IN  \/ BuildUncached(open.kind, base, rest)
         \/ Reuse(open.kind, base, rest)
         \/ Intern(open.kind, base, rest)
  /\ parents' = Front(parents)
  /\ UNCHANGED <<tokens, tree, elsewhere, built>>

Finish ==
  /\ drops = <<>>
  /\ built < MaxBuilders
  /\ tree = NoTree
  /\ Len(children) = 1
  /\ ~IsToken(heap, children[1].green)
  /\ tree' = children[1].green
  /\ built' = built + 1
  /\ parents' = <<>>
  /\ children' = <<>>
  /\ UNCHANGED <<heap, nodes, tokens, drops, elsewhere>>

Abandon ==
  /\ drops = <<>>
  /\ built < MaxBuilders
  /\ stacks # <<<<>>, <<>>>>
  /\ drops' = Greenery(children)
  /\ built' = built + 1
  /\ parents' = <<>>
  /\ children' = <<>>
  /\ UNCHANGED <<heap, nodes, tokens, tree, elsewhere>>

(* The cache is dropped when no builder borrows it. *)
DropCache ==
  /\ drops = <<>>
  /\ cache # <<{}, {}>>
  /\ stacks = <<<<>>, <<>>>>
  /\ drops' = SetToSeq(nodes \cup tokens)
  /\ nodes' = {}
  /\ tokens' = {}
  /\ UNCHANGED <<heap, parents, children, tree, elsewhere, built>>

(* The client drops the tree, on a thread of its own; one tree at a time, a bound. *)
DropTree ==
  /\ tree # NoTree
  /\ elsewhere = <<>>
  /\ elsewhere' = Append(elsewhere, tree)
  /\ tree' = NoTree
  /\ UNCHANGED <<heap, nodes, tokens, parents, children, drops, built>>

(* One atomic decrement on either thread. *)
DropHere ==
  /\ drops # <<>>
  /\ heap' = DropGreen(heap, Head(drops))
  /\ drops' = DropsOf(heap, Head(drops)) \o Tail(drops)
  /\ UNCHANGED <<nodes, tokens, parents, children, tree, elsewhere, built>>

DropElsewhere ==
  /\ elsewhere # <<>>
  /\ heap' = DropGreen(heap, Head(elsewhere))
  /\ elsewhere' = DropsOf(heap, Head(elsewhere)) \o Tail(elsewhere)
  /\ UNCHANGED <<nodes, tokens, parents, children, tree, drops, built>>

Next ==
  \/ \E kind \in TokenKinds, text \in Texts : Token(kind, text)
  \/ \E kind \in NodeKinds : StartNode(kind)
  \/ \E kind \in NodeKinds, at \in 0 .. MaxStack : StartNodeAt(kind, at)
  \/ FinishNode
  \/ Finish
  \/ Abandon
  \/ DropCache
  \/ DropTree
  \/ DropHere
  \/ DropElsewhere

Spec == Init /\ [][Next]_vars

------------------------------------------------------------------------------
(***************************************************************************)
(* Properties.                                                             *)
(***************************************************************************)
(* Every variable has its type; an interned element is in the heap. *)
TypeOK ==
  /\ HeapType(heap)
  /\ nodes \subseteq Greens /\ tokens \subseteq Greens
  /\ parents \in Seq([kind : NodeKinds, first : 0 .. MaxStack])
  /\ children \in Seq([green : Greens, hashed : BOOLEAN])
  /\ tree \in Greens \cup {NoTree}
  /\ drops \in Seq(Greens) /\ elsewhere \in Seq(Greens)

(***************************************************************************)
(* The open branches are nested and start inside the stack: finish_node    *)
(* never drains from beyond the end, which would panic, nor takes children *)
(* that were finished before the enclosing branch was opened.              *)
(***************************************************************************)
Nested ==
  /\ \A i \in DOMAIN parents : parents[i].first <= Len(children)
  /\ \A i, j \in DOMAIN parents : i <= j => parents[i].first <= parents[j].first

Interned == nodes \cup tokens

(***************************************************************************)
(* node_cache.rs: if a tree is interned, so are all of its children; and   *)
(* an element on the stack that carries a hash is an interned one.         *)
(***************************************************************************)
ChildrenInterned ==
  /\ \A g \in nodes : Range(heap[g].kids) \subseteq Interned
  /\ \A i \in DOMAIN children : children[i].hashed => children[i].green \in Interned

(* The tree at an address, as a value. *)
Shape[g \in Greens] ==
  [kind |-> heap[g].kind, len |-> heap[g].len,
   kids |-> [i \in DOMAIN heap[g].kids |-> Shape[heap[g].kids[i]]]]

(* The purpose of the cache: equal interned trees are one tree. *)
EqualIsSame == \A g, h \in Interned : Shape[g] = Shape[h] => g = h

(***************************************************************************)
(* The count of every green element is the number of its owners: slots of  *)
(* the stack and of other elements, the cache, the client, and drops under *)
(* way.  Nothing is freed while it is in use, nothing leaks.               *)
(***************************************************************************)
BuilderOwns ==
  \A g \in Greens :
    heap[g].cnt = Cardinality(SlotsOf(heap, g)) + Times(g, Greenery(children))
                  + One(g \in Interned) + One(g = tree) + Times(g, drops) + Times(g, elsewhere)

(***************************************************************************)
(* The cache, the sharing and the threads are invisible: as plain trees,   *)
(* the stack and the result are what the calls describe.                   *)
(***************************************************************************)
Plain == INSTANCE PlainBuilder WITH
  children <- [i \in DOMAIN children |-> Shape[children[i].green]],
  tree <- IF tree = NoTree THEN NoTree ELSE Shape[tree]

Transparent == Plain!Spec
=============================================================================

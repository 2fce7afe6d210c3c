------------------------------- MODULE Cursor -------------------------------
(***************************************************************************)
(* The syntax tree cursors of cursor.rs.  A red (a NodeData) is a          *)
(* heap-allocated, reference counted zipper over the green tree: it points *)
(* to its green element and to the red of its parent.  The user holds      *)
(* handles (SyntaxNode, SyntaxToken), one reference each.                  *)
(*                                                                         *)
(* Every operation of the user is one action.  The three loops the         *)
(* operations end in are actions of their own, one per turn of the loop:   *)
(* RespineStep (respine), FreeStep (free) and DropGreenStep (the drop glue *)
(* of green elements).  They run to the end before the user acts again, as *)
(* the reds are confined to one thread and the loops call nobody back.     *)
(***************************************************************************)
EXTENDS GreenNode

CONSTANTS
  Handles,     \* the user's variables of type Option<SyntaxElement>
  Reds,        \* addresses of NodeData
  NULL,        \* the absent pointer
  InitHeap,    \* the green tree the user starts with
  Root,        \* its root node
  Matchers,    \* the sets of kinds the by_kind accessors are asked for
  RootSorts,   \* bound: whether the user makes mutable roots, immutable ones or both
  MaxRoots,    \* bound: no root is made while as many exist
  Replacing,   \* bound: whether the user calls replace_with
  MaxEdits     \* bound: how often the user detaches, attaches or replaces

ASSUME RedsAssumption == Reds \subseteq Nat /\ IsFiniteSet(Reds) /\ NULL \notin Reds
ASSUME HandlesAssumption == IsFiniteSet(Handles)
ASSUME GreensAssumption == NULL \notin Greens /\ Root \in Greens
ASSUME KindsAssumption == NodeKinds \cap TokenKinds = {} /\ Vacant \notin Kinds
(***************************************************************************)
(* A tree of the parser or of a builder: the counts are right, a node was  *)
(* built on children that existed, so that some node of any set is a child *)
(* of no other, and it is as long as they are together (GreenNode::new);   *)
(* the rest is free.                                                       *)
(***************************************************************************)
ASSUME InitHeapAssumption ==
  /\ HeapType(InitHeap)
  /\ Blank(InitHeap)
  /\ \A g \in Greens : InitHeap[g].cnt = Cardinality(SlotsOf(InitHeap, g)) + One(g = Root)
  /\ \A S \in SUBSET Greens : S # {} => \E k \in S : \A p \in S : ~ HasKid(InitHeap, p, k)
  /\ \A g \in Greens :
       /\ InitHeap[g].len \in Nat
       /\ InitHeap[g].kids # <<>> => InitHeap[g].len = TextLen(InitHeap, InitHeap[g].kids)

VARIABLES
  heap,        \* the green elements
  kept,        \* the GreenNode the user owns
  red,         \* the reds; `first` stands for the list of the live children
  handle,      \* what each variable of the user refers to
  spine,       \* respine: `green` is to become the green of `node`
  dying,       \* free: the red being freed
  drops,       \* the green references being dropped
  todo,        \* attach_child, clone_for_update, replace_with: what is left to do
  stolen,      \* the red attach_child left without a green when it panicked
  forgotten,   \* reds whose only reference was passed to mem::forget
  edits        \* how many edits were made (a bound)

vars == <<heap, kept, red, handle, spine, dying, drops, todo, stolen, forgotten, edits>>

FreeRed == [rc |-> 0, parent |-> NULL, index |-> 0, green |-> NULL,
            mutable |-> FALSE, offset |-> 0, first |-> {}]

NoSpine == [node |-> NULL, green |-> NULL, release |-> NULL]
NoTodo == [stage |-> "none", node |-> NULL, index |-> 0, child |-> NULL]

Idle == /\ spine = NoSpine
        /\ dying = NULL
        /\ drops = <<>>
        /\ todo = NoTodo

User == Idle /\ stolen = NULL

Init ==
  /\ heap = InitHeap
  /\ kept = Root
  /\ red = [n \in Reds |-> FreeRed]
  /\ handle = [h \in Handles |-> NULL]
  /\ spine = NoSpine
  /\ dying = NULL
  /\ drops = <<>>
  /\ todo = NoTodo
  /\ stolen = NULL
  /\ forgotten = {}
  /\ edits = 0

(***************************************************************************)
(* Allocation.  A red is live while it is referenced; a dying red still    *)
(* occupies its address.                                                   *)
(***************************************************************************)
Live == {n \in Reds : red[n].rc > 0}
FreshReds == {n \in Reds : red[n] = FreeRed}

(* Allocators hand out the lowest free address. *)
Lowest(S) == {x \in S : \A y \in S : x <= y}
Highest(S) == {x \in S : \A y \in S : y <= x}
NextRed == Lowest(FreshReds)
NextGreen == Lowest(FreeGreens(heap))

(***************************************************************************)
(* The red and its ancestors.                                              *)
(***************************************************************************)
Up[n \in Reds] ==
  IF red[n].parent = NULL THEN {n} ELSE {n} \cup Up[red[n].parent]

(***************************************************************************)
(* Bound: an edit builds one green node for every ancestor; it is only     *)
(* taken while as many addresses are free, and at most MaxEdits times.     *)
(***************************************************************************)
Edit == edits < MaxEdits /\ edits' = edits + 1

Room(steps) == Cardinality(FreeGreens(heap)) >= steps
Depth(n) == IF n = NULL THEN 0 ELSE Cardinality(Up[n])

-----------------------------------------------------------------------------
(***************************************************************************)
(* Roots.  NodeData::new without a parent: the red takes over the          *)
(* reference to its green node.                                            *)
(***************************************************************************)
RoomForRoot(mut) == mut \in RootSorts /\ Cardinality({n \in Live : red[n].parent = NULL}) < MaxRoots

NewRootData(g, mut, h) ==
  /\ RoomForRoot(mut)
  /\ handle[h] = NULL
  /\ heap' = ShareOne(heap, g)
  /\ \E r \in NextRed :
       /\ red' = [red EXCEPT ![r] = [FreeRed EXCEPT !.rc = 1, !.green = g, !.mutable = mut]]
       /\ handle' = [handle EXCEPT ![h] = r]
  /\ UNCHANGED <<kept, spine, dying, drops, todo, stolen, forgotten, edits>>

(* The user passes a clone of its own GreenNode. *)
NewRoot(h, mut) == User /\ kept # NULL /\ NewRootData(kept, mut, h)

IsNode(n) == ~ IsToken(heap, red[n].green)

CloneSubtree(h, new) ==
  /\ User
  /\ handle[h] # NULL
  /\ IsNode(handle[h])
  /\ NewRootData(red[handle[h]].green, FALSE, new)

(* The user drops its own GreenNode. *)
DropKept ==
  /\ Idle
  /\ kept # NULL
  /\ kept' = NULL
  /\ drops' = <<kept>>
  /\ UNCHANGED <<heap, red, handle, spine, dying, todo, stolen, forgotten, edits>>

-----------------------------------------------------------------------------
(***************************************************************************)
(* Children and siblings.  The offset a mutable red is created with is     *)
(* never read; the model keeps it at 0.                                    *)
(***************************************************************************)
Linked(p, i) == {c \in red[p].first : red[c].index = i}

(* Mutant: the offset of the parent is forgotten. *)
RelativeChildOffset(p, i) == RelOffset(heap, red[p].green, i)

ChildOffset(p, i) == red[p].offset + RelOffset(heap, red[p].green, i)

(* Mutant: a child is created immutable, whatever its parent is. *)
ImmutableChildData(p, i) ==
  [FreeRed EXCEPT !.rc = 1, !.parent = p, !.index = i,
                  !.green = Kid(heap, red[p].green, i), !.offset = ChildOffset(p, i)]

ChildData(p, i) ==
  [FreeRed EXCEPT
     !.rc = 1, !.parent = p, !.index = i,
     !.green = Kid(heap, red[p].green, i),
     !.mutable = red[p].mutable,
     !.offset = IF red[p].mutable THEN 0 ELSE ChildOffset(p, i)]

(***************************************************************************)
(* NodeData::new with a parent: the reference c to the child in slot i of  *)
(* p is the red already linked there (which has its own reference to the   *)
(* parent: the one passed in is dropped), or else a fresh one.             *)
(***************************************************************************)
IsChild(p, i, c) ==
  \/ c \in Linked(p, i)
  \/ Linked(p, i) = {} /\ c \in NextRed

(* Mutant: the reference to the parent is kept although the red is shared. *)
WithChildKeepingParent(p, i, c) ==
  IF c \in Linked(p, i)
  THEN [red EXCEPT ![c].rc = @ + 1, ![p].rc = @ + 1]
  ELSE [red EXCEPT
          ![c] = ChildData(p, i),
          ![p].rc = @ + 1,
          ![p].first = IF red[p].mutable THEN @ \cup {c} ELSE @]

WithChild(p, i, c) ==
  IF c \in Linked(p, i)
  THEN [red EXCEPT ![c].rc = @ + 1]
  ELSE [red EXCEPT
          ![c] = ChildData(p, i),
          ![p].rc = @ + 1,
          ![p].first = IF red[p].mutable THEN @ \cup {c} ELSE @]

NewChild(p, i, h) ==
  /\ handle[h] = NULL
  /\ \E c \in Reds :
       /\ IsChild(p, i, c)
       /\ red' = WithChild(p, i, c)
       /\ handle' = [handle EXCEPT ![h] = c]
  /\ UNCHANGED <<heap, kept, spine, dying, drops, todo, stolen, forgotten, edits>>

(* The slots of p's green node whose kind the accessor asks for. *)
Wanted(p, K) == {i \in Slots(heap, red[p].green) : heap[Kid(heap, red[p].green, i)].kind \in K}

After(n, K) ==
  IF red[n].parent = NULL THEN {} ELSE {i \in Wanted(red[n].parent, K) : i > red[n].index}
Before(n, K) ==
  IF red[n].parent = NULL THEN {} ELSE {i \in Wanted(red[n].parent, K) : i < red[n].index}

(* first_child, first_child_or_token and their by_kind variants. *)
FirstChild(h, K, new) ==
  /\ User
  /\ handle[h] # NULL
  /\ IsNode(handle[h])
  /\ \E i \in Lowest(Wanted(handle[h], K)) : NewChild(handle[h], i, new)

LastChild(h, K, new) ==
  /\ User
  /\ handle[h] # NULL
  /\ IsNode(handle[h])
  /\ \E i \in Highest(Wanted(handle[h], K)) : NewChild(handle[h], i, new)

NextSibling(h, K, new) ==
  /\ User
  /\ handle[h] # NULL
  /\ \E i \in Lowest(After(handle[h], K)) : NewChild(red[handle[h]].parent, i, new)

PrevSibling(h, K, new) ==
  /\ User
  /\ handle[h] # NULL
  /\ \E i \in Highest(Before(handle[h], K)) : NewChild(red[handle[h]].parent, i, new)

(* Another reference to a live red: clone, and parent. *)
Refer(n, new) ==
  /\ handle[new] = NULL
  /\ red' = [red EXCEPT ![n].rc = @ + 1]
  /\ handle' = [handle EXCEPT ![new] = n]
  /\ UNCHANGED <<heap, kept, spine, dying, drops, todo, stolen, forgotten, edits>>

Clone(h, new) == User /\ handle[h] # NULL /\ Refer(handle[h], new)

Parent(h, new) ==
  /\ User
  /\ handle[h] # NULL
  /\ red[handle[h]].parent # NULL
  /\ Refer(red[handle[h]].parent, new)

(***************************************************************************)
(* dec_rc, after the update r of the reds: the last reference starts free. *)
(***************************************************************************)
Release(r, n) ==
  /\ red' = [r EXCEPT ![n].rc = @ - 1]
  /\ dying' = IF r[n].rc = 1 THEN n ELSE NULL

(* Drop; the user's stack is dropped as well while a panic unwinds. *)
Drop(h) ==
  /\ Idle
  /\ handle[h] # NULL
  /\ handle' = [handle EXCEPT ![h] = NULL]
  /\ Release(red, handle[h])
  /\ UNCHANGED <<heap, kept, spine, drops, todo, stolen, forgotten, edits>>

-----------------------------------------------------------------------------

CanTakePtr(n) == red[n].rc = 1 /\ ~ red[n].mutable

Steps(h, K) == handle[h] # NULL /\ (K = NodeKinds => IsNode(handle[h]))

StepShared(h, K) ==
  LET n == handle[h]
      p == red[n].parent
  IN  /\ User
      /\ Steps(h, K)
      /\ ~ CanTakePtr(n)
      /\ \E i \in Lowest(After(n, K)), c \in Reds :
           /\ IsChild(p, i, c)
           /\ handle' = [handle EXCEPT ![h] = c]
           /\ Release(WithChild(p, i, c), n)
      /\ UNCHANGED <<heap, kept, spine, drops, todo, stolen, forgotten, edits>>

StepInPlace(h, K) ==
  LET n == handle[h]
      p == red[n].parent
  IN  /\ User
      /\ Steps(h, K)
      /\ CanTakePtr(n)
      /\ \E i \in Lowest(After(n, K)) :
           red' = [red EXCEPT ![n].index = i,
                              ![n].offset = ChildOffset(p, i),
                              ![n].green = Kid(heap, red[p].green, i)]
      /\ UNCHANGED <<heap, kept, handle, spine, dying, drops, todo, stolen, forgotten, edits>>

StepOffEnd(h, K) ==
  LET n == handle[h]
  IN  /\ User
      /\ Steps(h, K)
      /\ After(n, K) = {}
      /\ CanTakePtr(n) => red[n].parent # NULL
      /\ handle' = [handle EXCEPT ![h] = NULL]
      /\ Release(red, n)
      /\ UNCHANGED <<heap, kept, spine, drops, todo, stolen, forgotten, edits>>

(* A root: take_ptr forgot the reference, and parent_node()? returns. *)
StepOffRoot(h, K) ==
  LET n == handle[h]
  IN  /\ User
      /\ Steps(h, K)
      /\ CanTakePtr(n)
      /\ red[n].parent = NULL
      /\ handle' = [handle EXCEPT ![h] = NULL]
      /\ forgotten' = forgotten \cup {n}
      /\ UNCHANGED <<heap, kept, red, spine, dying, drops, todo, stolen, edits>>

ToNextSibling(h, K) ==
  StepShared(h, K) \/ StepInPlace(h, K) \/ StepOffEnd(h, K) \/ StepOffRoot(h, K)

-----------------------------------------------------------------------------
(***************************************************************************)
(* Mutation.  sll::adjust shifts the indices, starting from `from`, of a   *)
(* set of siblings.                                                        *)
(***************************************************************************)
(* Mutant: the sibling at `from` itself is missed. *)
AdjustAfter(r, siblings, from, by) ==
  [n \in Reds |-> IF n \in siblings /\ r[n].index > from
                  THEN [r[n] EXCEPT !.index = @ + by] ELSE r[n]]

(* Mutant: the whole list is shifted. *)
AdjustAll(r, siblings, from, by) ==
  [n \in Reds |-> IF n \in siblings THEN [r[n] EXCEPT !.index = @ + by] ELSE r[n]]

Adjust(r, siblings, from, by) ==
  [n \in Reds |-> IF n \in siblings /\ r[n].index >= from
                  THEN [r[n] EXCEPT !.index = @ + by] ELSE r[n]]

(* Mutant: the element stays in the list. *)
UnlinkNothing(r, p, n) == r

Unlink(r, p, n) == [r EXCEPT ![p].first = @ \ {n}]

(* Mutant: the detached red does not own its green. *)
StayBorrowed(n) == heap

(* Add strong ref to green: the detached red is about to be a root. *)
OwnGreen(n) == ShareOne(heap, red[n].green)

(* NodeData::detach; the respine of the old parent follows. *)
DetachData(n) ==
  LET p == red[n].parent
      shifted == Adjust(red, red[p].first, red[n].index + 1, -1)
  IN  /\ red' = [Unlink(shifted, p, n) EXCEPT ![n].parent = NULL]
      /\ \E a \in NextGreen :
           /\ heap' = RemoveChild(OwnGreen(n), a, red[p].green, red[n].index)
           /\ spine' = [node |-> p, green |-> a, release |-> p]

(* Detaching a root does nothing. *)
Detach(h) ==
  /\ User
  /\ handle[h] # NULL
  /\ red[handle[h]].mutable
  /\ red[handle[h]].parent # NULL
  /\ Edit
  /\ Room(Depth(red[handle[h]].parent))
  /\ DetachData(handle[h])
  /\ UNCHANGED <<kept, handle, dying, drops, todo, stolen, forgotten>>

(***************************************************************************)
(* attach_child, which splice_children calls for every element it inserts: *)
(* detach the child, link it below the node, drop the caller's reference.  *)
(* The caller must not attach a node below itself: nothing in the code     *)
(* stops it from making a cycle of parents.                                *)
(***************************************************************************)
AttachChild(h, i, c) ==
  LET n == handle[h]
      m == handle[c]
  IN  /\ User
      /\ n # NULL /\ m # NULL /\ n # m
      /\ m \notin Up[n]
      /\ red[n].mutable /\ red[m].mutable
      /\ IsNode(n)
      /\ Edit
      /\ Room(Depth(n) + Depth(red[m].parent))
      /\ todo' = [stage |-> "link", node |-> n, index |-> i, child |-> m]
      /\ handle' = [handle EXCEPT ![c] = NULL]
      /\ \/ /\ red[m].parent # NULL
            /\ DetachData(m)
         \/ /\ red[m].parent = NULL
            /\ UNCHANGED <<heap, red, spine>>
      /\ UNCHANGED <<kept, dying, drops, stolen, forgotten>>

LoopsDone == spine = NoSpine /\ dying = NULL /\ drops = <<>>

(* NodeData::attach_child up to the call of respine. *)
LinkData ==
  LET n == todo.node
      m == todo.child
      shifted == Adjust(red, red[n].first, todo.index, 1)
  IN  red' = [shifted EXCEPT
                ![m].index = todo.index, ![m].parent = n,
                ![n].rc = @ + 1, ![n].first = @ \cup {m}]

AttachLink ==
  /\ LoopsDone
  /\ todo.stage = "link"
  /\ todo.index <= Len(heap[red[todo.node].green].kids)
  /\ LinkData
  /\ \E a \in NextGreen :
       /\ heap' = InsertChild(heap, a, red[todo.node].green, todo.index, red[todo.child].green)
       /\ spine' = [node |-> todo.node, green |-> a, release |-> NULL]
  /\ todo' = [todo EXCEPT !.stage = "drop"]
  /\ UNCHANGED <<kept, handle, dying, drops, stolen, forgotten, edits>>

(* Vec::splice panics on an index past the end, and drops the stolen green. *)
AttachPanic ==
  /\ LoopsDone
  /\ todo.stage = "link"
  /\ todo.index > Len(heap[red[todo.node].green].kids)
  /\ LinkData
  /\ drops' = <<red[todo.child].green>>
  /\ stolen' = todo.child
  /\ todo' = [todo EXCEPT !.stage = "drop"]
  /\ UNCHANGED <<heap, kept, handle, spine, dying, forgotten, edits>>

AttachEnd ==
  /\ LoopsDone
  /\ todo.stage = "drop"
  /\ Release(red, todo.child)
  /\ todo' = NoTodo
  /\ UNCHANGED <<heap, kept, handle, spine, drops, stolen, forgotten, edits>>

-----------------------------------------------------------------------------
(***************************************************************************)
(* clone_for_update: a mutable red for the node and for every ancestor,    *)
(* the root first.  Each child takes over the one reference to its parent. *)
(***************************************************************************)
CloneForUpdate(h) ==
  /\ User
  /\ handle[h] # NULL
  /\ IsNode(handle[h])
  /\ ~ red[handle[h]].mutable
  /\ RoomForRoot(TRUE)
  /\ Cardinality(FreshReds) >= Depth(handle[h])
  /\ \E new \in Handles : handle[new] = NULL
  /\ \E root \in Up[handle[h]], r \in NextRed :
       /\ red[root].parent = NULL
       /\ heap' = ShareOne(heap, red[root].green)
       /\ red' = [red EXCEPT ![r] = [FreeRed EXCEPT !.rc = 1, !.green = red[root].green, !.mutable = TRUE]]
       /\ todo' = [stage |-> "clone", node |-> handle[h], index |-> 0, child |-> r]
  /\ UNCHANGED <<kept, handle, spine, dying, drops, stolen, forgotten, edits>>

CloneStep ==
  LET c == todo.child
  IN  /\ todo.stage = "clone"
      /\ \E a \in Up[todo.node], r \in NextRed :
           /\ Depth(a) = Depth(c) + 1
           /\ red' = [red EXCEPT ![r] = [ChildData(c, red[a].index) EXCEPT !.green = red[a].green],
                                 ![c].first = @ \cup {r}]
           /\ todo' = [todo EXCEPT !.child = r]
      /\ UNCHANGED <<heap, kept, handle, spine, dying, drops, stolen, forgotten, edits>>

CloneEnd ==
  /\ todo.stage = "clone"
  /\ Depth(todo.child) = Depth(todo.node)
  /\ \E new \in Handles : /\ handle[new] = NULL
                          /\ handle' = [handle EXCEPT ![new] = todo.child]
  /\ todo' = NoTodo
  /\ UNCHANGED <<heap, kept, red, spine, dying, drops, stolen, forgotten, edits>>

(***************************************************************************)
(* replace_with: green nodes are rebuilt up to the root, here around the   *)
(* green of another cursor, but no red changes.  The user's variable takes *)
(* the new tree and drops the one it had.                                  *)
(***************************************************************************)
ReplaceWith(h, c) ==
  LET n == handle[h]
      g == red[handle[c]].green
      p == red[n].parent
  IN  /\ User
      /\ Replacing
      /\ n # NULL /\ handle[c] # NULL
      /\ heap[g].kind = heap[red[n].green].kind
      /\ IsNode(n) \/ p # NULL
      /\ Edit
      /\ Room(Depth(p))
      /\ \/ /\ p # NULL
            /\ \E a \in NextGreen :
                 /\ heap' = ReplaceChild(ShareOne(heap, g), a, red[p].green, red[n].index, g)
                 /\ spine' = [NoSpine EXCEPT !.green = a]
         \/ /\ p = NULL
            /\ heap' = ShareOne(heap, g)
            /\ spine' = [NoSpine EXCEPT !.green = g]
      /\ todo' = [NoTodo EXCEPT !.stage = "replace", !.node = p]
      /\ UNCHANGED <<kept, red, handle, dying, drops, stolen, forgotten>>

ReplaceStep ==
  LET n == todo.node
      p == red[n].parent
  IN  /\ todo.stage = "replace"
      /\ n # NULL /\ p # NULL
      /\ \E a \in NextGreen :
           /\ heap' = ReplaceChild(heap, a, red[p].green, red[n].index, spine.green)
           /\ spine' = [spine EXCEPT !.green = a]
      /\ todo' = [todo EXCEPT !.node = p]
      /\ UNCHANGED <<kept, red, handle, dying, drops, stolen, forgotten, edits>>

ReplaceEnd ==
  /\ todo.stage = "replace"
  /\ todo.node # NULL => red[todo.node].parent = NULL
  /\ kept' = spine.green
  /\ drops' = IF kept = NULL THEN <<>> ELSE <<kept>>
  /\ spine' = NoSpine
  /\ todo' = NoTodo
  /\ UNCHANGED <<heap, red, handle, dying, stolen, forgotten, edits>>

-----------------------------------------------------------------------------
(* Mutant: the loop of respine stays at the node. *)
ClimbNowhere(p, a) == [spine EXCEPT !.green = a]

Climb(p, a) == [spine EXCEPT !.node = p, !.green = a]

(***************************************************************************)
(* One turn of the loop of respine: the node takes the new green, and the  *)
(* green of its parent is rebuilt around it; the root drops its old green. *)
(***************************************************************************)
RespineStep ==
  LET n == spine.node
      p == red[n].parent
  IN  /\ drops = <<>>
      /\ n # NULL
      /\ \/ /\ p # NULL
            /\ red' = [red EXCEPT ![n].green = spine.green]
            /\ \E a \in NextGreen :
                 /\ heap' = ReplaceChild(heap, a, red[p].green, red[n].index, spine.green)
                 /\ spine' = Climb(p, a)
            /\ UNCHANGED <<dying, drops>>
         \/ /\ p = NULL
            /\ drops' = <<red[n].green>>
            /\ spine' = NoSpine
            /\ IF spine.release = NULL
               THEN /\ red' = [red EXCEPT ![n].green = spine.green]
                    /\ UNCHANGED dying
               ELSE Release([red EXCEPT ![n].green = spine.green], spine.release)
            /\ UNCHANGED heap
      /\ UNCHANGED <<kept, handle, todo, stolen, forgotten, edits>>

(* One turn of the loop of free. *)
FreeStep ==
  LET n == dying
      p == red[n].parent
  IN  /\ drops = <<>>
      /\ n # NULL
      /\ \/ /\ p # NULL
            /\ Release([Unlink(red, p, n) EXCEPT ![n] = FreeRed], p)
            /\ UNCHANGED drops
         \/ /\ p = NULL
            /\ red' = [red EXCEPT ![n] = FreeRed]
            /\ drops' = <<red[n].green>>
            /\ dying' = NULL
      /\ UNCHANGED <<heap, kept, handle, spine, todo, stolen, forgotten, edits>>

DropGreenStep ==
  /\ drops # <<>>
  /\ heap' = DropGreen(heap, Head(drops))
  /\ drops' = DropsOf(heap, Head(drops)) \o Tail(drops)
  /\ UNCHANGED <<kept, red, handle, spine, dying, todo, stolen, forgotten, edits>>

Loop == \/ RespineStep \/ FreeStep \/ DropGreenStep
        \/ AttachLink \/ AttachPanic \/ AttachEnd
        \/ CloneStep \/ CloneEnd
        \/ ReplaceStep \/ ReplaceEnd

Indices(h) == 0 .. Len(heap[red[handle[h]].green].kids) + 1

Operation ==
  \/ \E h \in Handles : \E mut \in BOOLEAN : NewRoot(h, mut)
  \/ DropKept
  \/ \E h \in Handles :
       \/ Drop(h)
       \/ Detach(h)
       \/ CloneForUpdate(h)
       \/ \E K \in {NodeKinds, Kinds} : ToNextSibling(h, K)
  \/ \E h, new \in Handles :
       \/ CloneSubtree(h, new)
       \/ ReplaceWith(h, new)
       \/ Clone(h, new)
       \/ Parent(h, new)
       \/ \E K \in Matchers : FirstChild(h, K, new) \/ NextSibling(h, K, new)
       \/ \E K \in {NodeKinds, Kinds} : LastChild(h, K, new) \/ PrevSibling(h, K, new)
       \/ handle[h] # NULL /\ \E i \in Indices(h) : AttachChild(h, i, new)

Next == Operation \/ Loop

Fairness == WF_vars(Loop)

Spec == Init /\ [][Next]_vars
FairSpec == Spec /\ Fairness

-----------------------------------------------------------------------------
(***************************************************************************)
(* Properties.                                                             *)
(***************************************************************************)
Occupied == {n \in Reds : red[n] # FreeRed}
Sound == {n \in Occupied : stolen \notin Up[n]}
Owners(n) == {h \in Handles : handle[h] = n}
ChildrenOf(n) == {c \in Reds : red[c].parent = n}
(* References that are neither handles nor children. *)
Held(n) == One(spine.release = n) + One(todo.child = n) + One(n \in forgotten)

GreenOrNull == Greens \cup {NULL}
RedOrNull == Reds \cup {NULL}

(***************************************************************************)
(* The types of the variables: RefType those of the references to reds and *)
(* their counts, DataType those of what the reds refer to.                 *)
(***************************************************************************)
RefType ==
  /\ DOMAIN red = Reds
  /\ \A n \in Reds : /\ DOMAIN red[n] = DOMAIN FreeRed
                     /\ red[n].rc \in Nat
                     /\ red[n].parent \in RedOrNull
                     /\ red[n].mutable \in BOOLEAN
                     /\ red[n].first \subseteq Reds
  /\ handle \in [Handles -> RedOrNull]
  /\ DOMAIN spine = {"node", "green", "release"}
  /\ spine.node \in RedOrNull /\ spine.release \in RedOrNull
  /\ dying \in RedOrNull
  /\ DOMAIN todo = DOMAIN NoTodo
  /\ todo.stage \in {"none", "link", "drop", "clone", "replace"}
  /\ todo.node \in RedOrNull /\ todo.child \in RedOrNull
  /\ stolen \in RedOrNull
  /\ forgotten \subseteq Reds

DataType ==
  /\ HeapType(heap)
  /\ \A n \in Reds : red[n].index \in Nat /\ red[n].green \in GreenOrNull
  /\ spine.green \in GreenOrNull
  /\ todo.index \in Nat
  /\ drops \in Seq(Greens)
  /\ kept \in GreenOrNull
  /\ edits \in Nat

TypeOK == RefType /\ DataType

(***************************************************************************)
(* The reference count of a red is the number of its handles and its       *)
(* children, plus the reference an unfinished detach or attach_child       *)
(* holds, plus the one mem::forget lost: no loop, error path or reuse of   *)
(* an address may ever lose or invent one.                                 *)
(***************************************************************************)
RcExact ==
  \A n \in Reds :
    red[n].rc = Cardinality(Owners(n)) + Cardinality(ChildrenOf(n)) + Held(n)

(***************************************************************************)
(* The list a mutable red keeps holds exactly its live children, at most   *)
(* one for a slot, whatever was detached, attached or freed in between; an *)
(* immutable red keeps none.                                               *)
(***************************************************************************)
LinksExact ==
  \A p \in Reds :
    /\ red[p].first = IF red[p].mutable THEN ChildrenOf(p) ELSE {}
    /\ \A c, d \in red[p].first : red[c].index = red[d].index => c = d

(***************************************************************************)
(* A red that has a parent points at the very green element its parent's   *)
(* green node has in the slot `index`, although structural edits move      *)
(* slots and rebuild every green node up to the root under it.             *)
(***************************************************************************)
CurrentGreen(p) == IF spine.node = p THEN spine.green ELSE red[p].green

GreenMatches ==
  \A n \in Sound :
    red[n].parent # NULL =>
      LET g == CurrentGreen(red[n].parent)
      IN  red[n].index \in Slots(heap, g) /\ Kid(heap, g, red[n].index) = red[n].green

(***************************************************************************)
(* The count of a green element is exactly the number of its owners: slots *)
(* of green nodes, root reds, the user's GreenNode, the node respine is    *)
(* about to install and the references still to be dropped.  No root       *)
(* frees its green twice or leaks it when it becomes or stops being one.   *)
(***************************************************************************)
RootsOf(g) == {n \in Occupied : red[n].parent = NULL /\ red[n].green = g}

GreenOwned ==
  \A g \in Greens :
    heap[g].cnt = Cardinality(SlotsOf(heap, g))
                  + Cardinality(RootsOf(g)) + One(kept = g)
                  + One(spine.green = g) + Times(g, drops)

(* No red, but those below the one a panic left behind, points at freed green memory. *)
NoDangling == \A n \in Sound : heap[red[n].green].cnt > 0

(* A tree is mutable as a whole or not at all (Invariants, cursor.rs). *)
OneMutability ==
  \A n \in Occupied : red[n].parent # NULL => red[red[n].parent].mutable = red[n].mutable

(***************************************************************************)
(* The offset cached in an immutable red is the sum of the relative        *)
(* offsets up to the root, also after to_next_sibling moved it in place.   *)
(***************************************************************************)
OffsetExact ==
  \A n \in Occupied :
    ~ red[n].mutable =>
      red[n].offset =
        IF red[n].parent = NULL THEN 0
        ELSE red[red[n].parent].offset + RelOffset(heap, red[red[n].parent].green, red[n].index)

(***************************************************************************)
(* Once the user has dropped everything, no red and no green element is    *)
(* left, a panic or not, unless a root was forgotten.                      *)
(***************************************************************************)
NothingLeaks ==
  (Idle /\ kept = NULL /\ (\A h \in Handles : handle[h] = NULL) /\ forgotten = {})
    => Occupied = {} /\ FreeGreens(heap) = Greens

(* The loops of respine, free, the green drop glue and attach_child end. *)
LoopsEnd == ~ Idle ~> Idle

(***************************************************************************)
(* Documented (Implementation notes, cursor.rs): the count of a red is the *)
(* number of handles plus the number of children with a non-zero count.    *)
(***************************************************************************)
RcAsDocumented ==
  Idle => \A n \in Live :
            red[n].rc = Cardinality(Owners(n)) + Cardinality(ChildrenOf(n) \cap Live)

(***************************************************************************)
(* Equality and hashing compare the green element and the offset           *)
(* ("Identity semantics for hash & eq").  In one tree they tell any two    *)
(* elements with text apart, however much of it is shared and whatever     *)
(* was edited; two empty siblings that share their green node they do not. *)
(***************************************************************************)
Offset[n \in Reds] ==
  IF red[n].parent = NULL THEN 0
  ELSE Offset[red[n].parent] + RelOffset(heap, red[red[n].parent].green, red[n].index)

(* Mutant: the offset is left out. *)
KeyWithoutOffset(n) == red[n].green

Key(n) == <<red[n].green, IF red[n].mutable THEN Offset[n] ELSE red[n].offset>>

(* The root of the tree and the indices down to the element. *)
Position[n \in Reds] ==
  IF red[n].parent = NULL THEN <<n>> ELSE Append(Position[red[n].parent], red[n].index)

EqTellsApart ==
  Idle /\ stolen = NULL =>
    \A m, n \in Live :
      (Key(m) = Key(n) /\ heap[red[n].green].len > 0 /\ Head(Position[m]) = Head(Position[n]))
        => Position[m] = Position[n]
=============================================================================

--------------------------- MODULE BuilderProofs ---------------------------
(***************************************************************************)
(* The builder and its cache, whatever the calls, the kinds, the texts and *)
(* the bounds: the open branches are nested and start inside the stack,    *)
(* every count is the number of owners, no subtree is interned twice, and  *)
(* the tree that is built is the one a builder without a cache would make. *)
(***************************************************************************)
EXTENDS Builder, GreenNodeProofs

Branches == [kind : NodeKinds, first : Nat]
Elements == [green : Greens, hashed : BOOLEAN]

StackType ==
  /\ parents \in Seq(Branches)
  /\ children \in Seq(Elements)
  /\ nodes \subseteq Greens
  /\ tokens \subseteq Greens

NestedInv == StackType /\ Nested

(* A branch starts at a position. *)
LEMMA BranchFirst ==
  ASSUME StackType, NEW i \in DOMAIN parents
  PROVE  parents[i].first \in Nat
<1>1. parents[i] \in Branches
  BY DEF StackType
<1> QED
  BY <1>1 DEF Branches

(* The element an action pushes is well formed. *)
LEMMA PushType ==
  ASSUME NEW stack \in Seq(Elements), NEW g \in Greens, NEW hashed \in BOOLEAN
  PROVE  /\ Push(stack, g, hashed) \in Seq(Elements)
         /\ Len(Push(stack, g, hashed)) = Len(stack) + 1
BY DEF Push, Elements

(* An address given by the allocator is an address. *)
LEMMA NewGreenType == NewGreen \subseteq Greens
BY DEF NewGreen, FreeGreens

(* Whether a node has a hash is a Boolean. *)
LEMMA HashedType == \A kind, rest : Hashed(kind, rest) \in BOOLEAN
BY DEF Hashed

(* token pushes one element and keeps the branches. *)
LEMMA TokenPushes ==
  ASSUME NestedInv, NEW kind, NEW text, Token(kind, text)
  PROVE  /\ StackType'
         /\ Len(children') = Len(children) + 1
         /\ parents' = parents
<1>1. PICK g \in Greens : children' = Push(children, g, TRUE) /\ tokens' \subseteq Greens
  <2>1. CASE ReuseToken(kind, text)
    BY <2>1 DEF ReuseToken, SameToken, NestedInv, StackType
  <2>2. CASE InternToken(kind, text)
    BY <2>2, NewGreenType DEF InternToken, NestedInv, StackType
  <2> QED
    BY <2>1, <2>2 DEF Token
<1> QED
  BY <1>1, PushType DEF NestedInv, StackType, Token

(* start_node and start_node_at open a branch inside the stack and behind the last one. *)
LEMMA OpenNests ==
  ASSUME NestedInv, NEW kind \in NodeKinds, NEW first \in Nat, Open(kind, first),
         first <= Len(children),
         parents # <<>> => first >= Last(parents).first
  PROVE  NestedInv'
<1> DEFINE branch == [kind |-> kind, first |-> first]
<1>1. branch \in Branches
  BY DEF Branches
<1>2. parents' = Append(parents, branch) /\ children' = children
      /\ nodes' = nodes /\ tokens' = tokens
  BY DEF Open
<1>3. StackType'
  BY <1>1, <1>2 DEF NestedInv, StackType
<1>4. \A i \in DOMAIN parents : parents[i].first \in Nat /\ parents[i].first <= first
  <2> SUFFICES ASSUME NEW i \in DOMAIN parents
               PROVE  parents[i].first \in Nat /\ parents[i].first <= first
    OBVIOUS
  <2>1. parents # <<>> /\ Len(parents) \in DOMAIN parents /\ i <= Len(parents)
    BY DEF NestedInv, StackType
  <2>2. parents[i].first <= parents[Len(parents)].first
    BY <2>1 DEF NestedInv, Nested
  <2>3. parents[i].first \in Nat /\ parents[Len(parents)].first \in Nat
    BY <2>1, BranchFirst DEF NestedInv
  <2> QED
    BY <2>1, <2>2, <2>3 DEF Last
<1>5. ASSUME NEW i \in DOMAIN parents'
      PROVE  \/ i \in DOMAIN parents /\ parents'[i] = parents[i]
             \/ i = Len(parents) + 1 /\ parents'[i] = branch
  BY <1>2 DEF NestedInv, StackType
<1>6. Nested'
  BY <1>1, <1>2, <1>4, <1>5 DEF NestedInv, StackType, Nested
<1> QED
  BY <1>3, <1>6 DEF NestedInv

(* finish_node closes the last branch and leaves one element in its place. *)
LEMMA FinishCloses ==
  ASSUME NestedInv, FinishNode
  PROVE  NestedInv'
<1> DEFINE first == Last(parents).first
           base == SubSeq(children, 1, first)
           rest == SubSeq(children, first + 1, Len(children))
           kind == Last(parents).kind
<1>1. parents # <<>> /\ Len(parents) \in DOMAIN parents /\ Last(parents) = parents[Len(parents)]
  BY DEF NestedInv, StackType, FinishNode, Last
<1>2. first \in Nat /\ first <= Len(children)
  BY <1>1, BranchFirst DEF NestedInv, Nested
<1>3. base \in Seq(Elements) /\ Len(base) = first
  BY <1>2 DEF NestedInv, StackType
<1>4. PICK g \in Greens, hashed \in BOOLEAN :
        children' = Push(base, g, hashed) /\ nodes' \subseteq Greens
  <2>1. CASE BuildUncached(kind, base, rest)
    BY <2>1, NewGreenType DEF BuildUncached, NestedInv, StackType
  <2>2. CASE Reuse(kind, base, rest)
    BY <2>2, HashedType DEF Reuse, SameNode, NestedInv, StackType
  <2>3. CASE Intern(kind, base, rest)
    BY <2>3, HashedType, NewGreenType DEF Intern, NestedInv, StackType
  <2> QED
    BY <2>1, <2>2, <2>3 DEF FinishNode
<1>5. children' \in Seq(Elements) /\ Len(children') = first + 1
  BY <1>3, <1>4, PushType
<1>6. parents' = SubSeq(parents, 1, Len(parents) - 1) /\ tokens' = tokens
  BY DEF FinishNode, Front
<1>7. parents' \in Seq(Branches) /\ Len(parents') = Len(parents) - 1
      /\ \A i \in DOMAIN parents' : i \in DOMAIN parents /\ i <= Len(parents) /\ parents'[i] = parents[i]
  <2>1. parents \in Seq(Branches) /\ Len(parents) \in Nat \ {0} /\ DOMAIN parents = 1 .. Len(parents)
    BY <1>1 DEF NestedInv, StackType
  <2>2. 1 \in Int /\ Len(parents) - 1 \in Nat /\ Len(parents) - 1 <= Len(parents)
    BY <2>1
  <2>3. /\ parents' \in Seq(Branches)
        /\ Len(parents') = Len(parents) - 1
        /\ DOMAIN parents' = 1 .. Len(parents) - 1
    BY <1>6, <2>1, <2>2
  <2>4. \A i \in 1 .. Len(parents) - 1 : parents'[i] = parents[i]
    BY <1>6, <2>1, <2>2
  <2> QED
    BY <2>1, <2>3, <2>4
<1>8. \A i \in DOMAIN parents' : parents'[i].first <= first + 1
  <2> SUFFICES ASSUME NEW i \in DOMAIN parents'
               PROVE  parents[i].first <= first + 1
    BY <1>7
  <2>1. parents[i].first <= first
    BY <1>1, <1>7 DEF Nested, NestedInv
  <2>2. parents[i].first \in Nat
    BY <1>7, BranchFirst DEF NestedInv
  <2> QED
    BY <1>2, <2>1, <2>2
<1>9. Nested'
  <2>1. \A i \in DOMAIN parents' : parents'[i].first <= Len(children')
    BY <1>5, <1>8
  <2>2. ASSUME NEW i \in DOMAIN parents', NEW j \in DOMAIN parents', i <= j
        PROVE  parents'[i].first <= parents'[j].first
    BY <2>2, <1>7 DEF Nested, NestedInv
  <2> QED
    BY <2>1, <2>2 DEF Nested
<1> QED
  BY <1>4, <1>5, <1>6, <1>7, <1>9 DEF NestedInv, StackType

LEMMA NestedInvHolds == Spec => []NestedInv
<1>1. Init => NestedInv
  BY DEF Init, NestedInv, StackType, Nested
<1>2. NestedInv /\ [Next]_vars => NestedInv'
  <2> SUFFICES ASSUME NestedInv, [Next]_vars PROVE NestedInv'
    OBVIOUS
  <2>1. ASSUME NEW kind \in TokenKinds, NEW text \in Texts, Token(kind, text)
        PROVE  NestedInv'
    <3>1. StackType' /\ Len(children') = Len(children) + 1 /\ parents' = parents
      BY <2>1, TokenPushes
    <3>2. \A i \in DOMAIN parents : parents[i].first \in Nat
      BY BranchFirst DEF NestedInv
    <3>3. Len(children) \in Nat
      BY DEF NestedInv, StackType
    <3>4. \A i \in DOMAIN parents : parents[i].first <= Len(children) + 1
      BY <3>2, <3>3 DEF NestedInv, Nested
    <3>5. Nested'
      BY <3>1, <3>4 DEF NestedInv, Nested
    <3> QED
      BY <3>1, <3>5 DEF NestedInv
  <2>2. ASSUME NEW kind \in NodeKinds, StartNode(kind)
        PROVE  NestedInv'
    <3>1. Len(children) \in Nat
      BY DEF NestedInv, StackType
    <3>2. parents # <<>> => Len(children) >= Last(parents).first
      BY DEF NestedInv, StackType, Nested, Last
    <3> QED
      BY <2>2, <3>1, <3>2, OpenNests DEF StartNode
  <2>3. ASSUME NEW kind \in NodeKinds, NEW at \in 0 .. MaxStack, StartNodeAt(kind, at)
        PROVE  NestedInv'
    BY <2>3, OpenNests DEF StartNodeAt, StillValid
  <2>4. CASE FinishNode
    BY <2>4, FinishCloses
  <2>5. CASE Finish
    BY <2>5 DEF Finish, NestedInv, StackType, Nested
  <2>6. CASE Abandon
    BY <2>6 DEF Abandon, NestedInv, StackType, Nested
  <2>7. CASE DropCache
    BY <2>7 DEF DropCache, NestedInv, StackType, Nested
  <2>8. CASE DropTree
    BY <2>8 DEF DropTree, NestedInv, StackType, Nested
  <2>9. CASE DropHere
    BY <2>9 DEF DropHere, NestedInv, StackType, Nested
  <2>10. CASE DropElsewhere
    BY <2>10 DEF DropElsewhere, NestedInv, StackType, Nested
  <2>11. CASE UNCHANGED vars
    BY <2>11 DEF vars, NestedInv, StackType, Nested
  <2> QED
    BY <2>1, <2>2, <2>3, <2>4, <2>5, <2>6, <2>7, <2>8, <2>9, <2>10, <2>11 DEF Next
<1> QED
  BY <1>1, <1>2, PTL DEF Spec

(***************************************************************************)
(* finish_node always finds the children of the branch it closes: no       *)
(* sequence of start_node, start_node_at and finish_node makes it drain    *)
(* from beyond the end of the stack or out of the enclosing branch.        *)
(***************************************************************************)
THEOREM BranchesAreNested == Spec => []Nested
<1>1. NestedInv => Nested
  BY DEF NestedInv
<1> QED
  BY <1>1, NestedInvHolds, PTL

-----------------------------------------------------------------------------
(***************************************************************************)
(* The counts.  The elements on the stack, one after the other.            *)
(***************************************************************************)
LEMMA GreeneryType ==
  ASSUME NEW s \in Seq(Elements)
  PROVE  /\ Greenery(s) \in Seq(Greens) /\ Len(Greenery(s)) = Len(s)
         /\ \A i \in 1 .. Len(s) : Greenery(s)[i] = s[i].green
<1>1. Len(s) \in Nat /\ DOMAIN s = 1 .. Len(s)
  OBVIOUS
<1>2. ASSUME NEW i \in 1 .. Len(s) PROVE s[i].green \in Greens
  <2>1. s[i] \in Elements
    BY <1>1
  <2> QED BY <2>1 DEF Elements
<1>3. Greenery(s) = [i \in 1 .. Len(s) |-> s[i].green]
  BY <1>1 DEF Greenery
<1> QED BY <1>1, <1>2, <1>3

LEMMA GreeneryPush ==
  ASSUME NEW s \in Seq(Elements), NEW g \in Greens, NEW hashed \in BOOLEAN
  PROVE  Greenery(Push(s, g, hashed)) = Append(Greenery(s), g)
<1> DEFINE e == [green |-> g, hashed |-> hashed]
           t == Append(s, e)
<1>1. e \in Elements /\ e.green = g
  BY DEF Elements
<1> HIDE DEF e
<1>2. /\ t \in Seq(Elements) /\ Len(t) = Len(s) + 1 /\ t[Len(s) + 1] = e
      /\ \A i \in 1 .. Len(s) : t[i] = s[i]
  BY <1>1, AppendProperties
<1> HIDE DEF t
<1>3. /\ Greenery(s) \in Seq(Greens) /\ Len(Greenery(s)) = Len(s)
      /\ \A i \in 1 .. Len(s) : Greenery(s)[i] = s[i].green
      /\ Greenery(t) \in Seq(Greens) /\ Len(Greenery(t)) = Len(t)
      /\ \A i \in 1 .. Len(t) : Greenery(t)[i] = t[i].green
  BY <1>2, GreeneryType
<1> DEFINE u == Append(Greenery(s), g)
<1>4. /\ u \in Seq(Greens) /\ Len(u) = Len(s) + 1 /\ u[Len(s) + 1] = g
      /\ \A i \in 1 .. Len(s) : u[i] = s[i].green
  BY <1>3, AppendProperties
<1> HIDE DEF u
<1>5. Len(s) \in Nat
  OBVIOUS
<1>6. ASSUME NEW i \in 1 .. Len(s) + 1 PROVE Greenery(t)[i] = u[i]
  <2>1. CASE i \in 1 .. Len(s)
    BY <1>2, <1>3, <1>4, <1>5, <2>1
  <2>2. CASE i = Len(s) + 1
    BY <1>1, <1>2, <1>3, <1>4, <1>5, <2>2
  <2> QED BY <1>5, <2>1, <2>2
<1>7. Greenery(t) = u
  BY <1>2, <1>3, <1>4, <1>6, SeqEqual
<1> QED BY <1>7 DEF Push, t, e, u

(* The stack is what finish_node leaves and what it drains. *)
LEMMA GreenerySplit ==
  ASSUME NEW s \in Seq(Elements), NEW n \in 0 .. Len(s), NEW x
  PROVE  /\ SubSeq(s, 1, n) \in Seq(Elements) /\ SubSeq(s, n + 1, Len(s)) \in Seq(Elements)
         /\ Times(x, Greenery(s)) = Times(x, Greenery(SubSeq(s, 1, n)))
                                    + Times(x, Greenery(SubSeq(s, n + 1, Len(s))))
<1> DEFINE b == SubSeq(s, 1, n)
           r == SubSeq(s, n + 1, Len(s))
<1>1. /\ b \in Seq(Elements) /\ Len(b) = n /\ \A i \in 1 .. n : b[i] = s[i]
      /\ r \in Seq(Elements) /\ Len(r) = Len(s) - n
      /\ \A i \in 1 .. Len(s) - n : r[i] = s[i + n]
  OBVIOUS
<1> HIDE DEF b, r
<1>2. /\ Greenery(b) \in Seq(Greens) /\ Len(Greenery(b)) = n
      /\ \A i \in 1 .. n : Greenery(b)[i] = s[i].green
      /\ Greenery(r) \in Seq(Greens) /\ Len(Greenery(r)) = Len(s) - n
      /\ \A i \in 1 .. Len(s) - n : Greenery(r)[i] = s[i + n].green
      /\ Greenery(s) \in Seq(Greens) /\ Len(Greenery(s)) = Len(s)
      /\ \A i \in 1 .. Len(s) : Greenery(s)[i] = s[i].green
  <2>1. /\ Greenery(b) \in Seq(Greens) /\ Len(Greenery(b)) = n
        /\ \A i \in 1 .. n : Greenery(b)[i] = s[i].green
    BY <1>1, GreeneryType
  <2>2. /\ Greenery(r) \in Seq(Greens) /\ Len(Greenery(r)) = Len(s) - n
        /\ \A i \in 1 .. Len(s) - n : Greenery(r)[i] = s[i + n].green
    <3>1. /\ Greenery(r) \in Seq(Greens) /\ Len(Greenery(r)) = Len(r)
          /\ \A i \in 1 .. Len(r) : Greenery(r)[i] = r[i].green
      BY <1>1, GreeneryType
    <3> QED BY <1>1, <3>1
  <2>3. /\ Greenery(s) \in Seq(Greens) /\ Len(Greenery(s)) = Len(s)
        /\ \A i \in 1 .. Len(s) : Greenery(s)[i] = s[i].green
    BY GreeneryType
  <2> QED BY <2>1, <2>2, <2>3
<1>3. Len(s) \in Nat /\ n \in Nat
  OBVIOUS
<1> DEFINE u == Greenery(b) \o Greenery(r)
<1>4. /\ u \in Seq(Greens) /\ Len(u) = Len(s)
      /\ \A i \in 1 .. Len(s) : u[i] = IF i <= n THEN Greenery(b)[i] ELSE Greenery(r)[i - n]
  <2>1. /\ u \in Seq(Greens) /\ Len(u) = Len(Greenery(b)) + Len(Greenery(r))
        /\ \A i \in 1 .. Len(Greenery(b)) + Len(Greenery(r)) :
             u[i] = IF i <= Len(Greenery(b)) THEN Greenery(b)[i] ELSE Greenery(r)[i - Len(Greenery(b))]
    BY <1>2, ConcatProperties
  <2>2. n + (Len(s) - n) = Len(s)
    BY <1>3
  <2> HIDE DEF u
  <2> QED BY <1>2, <2>1, <2>2
<1> HIDE DEF u
<1>5. ASSUME NEW i \in 1 .. Len(s) PROVE Greenery(s)[i] = u[i]
  <2>1. CASE i <= n
    BY <1>2, <1>3, <1>4, <2>1
  <2>2. CASE i > n
    <3>1. i - n \in 1 .. Len(s) - n /\ (i - n) + n = i
      BY <1>3, <2>2
    <3>2. u[i] = Greenery(r)[i - n]
      BY <1>3, <1>4, <2>2
    <3> QED BY <1>2, <3>1, <3>2
  <2> QED BY <1>3, <2>1, <2>2
<1>6. Greenery(s) = u
  BY <1>2, <1>4, <1>5, SeqEqual
<1>7. Times(x, u) = Times(x, Greenery(b)) + Times(x, Greenery(r))
  BY <1>2, TimesConcat DEF u
<1> QED BY <1>1, <1>6, <1>7 DEF b, r

(* A set as a sequence: each of its elements occurs once. *)
LEMMA SetAsSequence ==
  ASSUME NEW S \in SUBSET Greens
  PROVE  /\ SetToSeq(S) \in Seq(Greens)
         /\ \A x : Times(x, SetToSeq(S)) = One(x \in S)
<1> DEFINE n == Cardinality(S)
           f == SetToSeq(S)
<1>1. IsFiniteSet(S) /\ n \in Nat /\ ExistsBijection(1 .. n, S)
  BY AddressesAssumption, FS_Subset, FS_CardinalityType
<1>2. f \in [1 .. n -> S] /\ IsInjective(f)
  <2>1. \E b \in [1 .. n -> S] : IsInjective(b)
    BY <1>1 DEF ExistsBijection, Bijection, Injection
  <2> HIDE DEF n
  <2> QED BY <2>1 DEF SetToSeq, n
<1>3. f \in Injection(1 .. n, S)
  BY <1>2 DEF Injection
<1>4. \A x \in S : \E i \in 1 .. n : f[i] = x
  <2>1. Cardinality(1 .. n) = n
    BY <1>1, FS_Interval
  <2>2. f \in Surjection(1 .. n, S)
    <3> HIDE DEF f
    <3> QED BY <1>1, <1>3, <2>1, FS_Injection
  <2> QED BY <2>2 DEF Surjection
<1> HIDE DEF f
<1>5. f \in Seq(Greens)
  BY <1>1, <1>2
<1>6. ASSUME NEW x PROVE Times(x, f) = One(x \in S)
  <2>1. Times(x, f) = Cardinality(Places(x, f)) /\ DOMAIN f = 1 .. n
    BY <1>2, <1>5, TimesType
  <2>2. CASE x \in S
    <3>1. PICK i \in 1 .. n : f[i] = x
      BY <1>4, <2>2
    <3>2. Places(x, f) = {i}
      BY <1>2, <2>1, <3>1 DEF Places, IsInjective
    <3> QED BY <2>1, <2>2, <3>2, FS_Singleton DEF One
  <2>3. CASE x \notin S
    <3>1. Places(x, f) = {}
      BY <1>2, <2>1, <2>3 DEF Places
    <3> QED BY <2>1, <2>3, <3>1, FS_EmptySet DEF One
  <2> QED BY <2>2, <2>3
<1> QED BY <1>5, <1>6 DEF f

-----------------------------------------------------------------------------
(***************************************************************************)
(* The inductive invariant.  What is owned outside the heap is exactly the *)
(* excess of the counts; with the free addresses blank, a free address is  *)
(* then in no slot and in nobody's hands when it is used again.            *)
(***************************************************************************)
Owned(x) == Times(x, Greenery(children)) + One(x \in Interned) + One(x = tree)
            + Times(x, drops) + Times(x, elsewhere)

DataType ==
  /\ HeapType(heap) /\ Blank(heap)
  /\ tree \in Greens \cup {NoTree}
  /\ drops \in Seq(Greens) /\ elsewhere \in Seq(Greens)
  /\ \A i \in DOMAIN parents : parents[i].first <= MaxStack

OwnInv ==
  /\ DataType
  /\ \A x \in Greens : Excess(heap, x) = Owned(x)
  /\ ChildrenInterned

LEMMA OwnedType ==
  ASSUME StackType, DataType, NEW x
  PROVE  /\ Greenery(children) \in Seq(Greens)
         /\ Times(x, Greenery(children)) \in Nat /\ Times(x, drops) \in Nat
         /\ Times(x, elsewhere) \in Nat
         /\ One(x \in Interned) \in Nat /\ One(x = tree) \in Nat
         /\ Owned(x) \in Nat
<1>1. Greenery(children) \in Seq(Greens)
  BY GreeneryType DEF StackType, Elements
<1>2. /\ Times(x, Greenery(children)) \in Nat /\ Times(x, drops) \in Nat
      /\ Times(x, elsewhere) \in Nat
  BY <1>1, TimesType DEF DataType
<1>3. One(x \in Interned) \in Nat /\ One(x = tree) \in Nat
  BY OneType
<1> QED BY <1>1, <1>2, <1>3 DEF Owned

(* A free address is free: nothing is interned there. *)
LEMMA FreeIsUnowned ==
  ASSUME StackType, OwnInv, NEW a \in FreeGreens(heap)
  PROVE  a \in Greens /\ a \notin Interned /\ Owned(a) = 0 /\ Excess(heap, a) >= 0
<1>1. a \in Greens /\ heap[a].cnt = 0
  BY DEF FreeGreens
<1>2. heap[a].cnt = Owned(a) + Cardinality(SlotsOf(heap, a)) /\ Cardinality(SlotsOf(heap, a)) \in Nat
  BY <1>1, ExcessType DEF OwnInv, DataType
<1>3. Owned(a) \in Nat /\ Owned(a) = 0
  BY <1>1, <1>2, OwnedType DEF OwnInv
<1>4. One(a \in Interned) = 0
  <2> /\ Times(a, Greenery(children)) \in Nat /\ Times(a, drops) \in Nat
      /\ Times(a, elsewhere) \in Nat
      /\ One(a \in Interned) \in Nat /\ One(a = tree) \in Nat
    BY OwnedType DEF OwnInv
  <2> QED BY <1>3 DEF Owned
<1> QED BY <1>1, <1>3, <1>4 DEF One, OwnInv

(* The elements with a hash, after a push. *)
LEMMA PushInterned ==
  ASSUME NEW s \in Seq(Elements), NEW I, NEW g \in Greens, NEW hashed \in BOOLEAN,
         \A i \in DOMAIN s : s[i].hashed => s[i].green \in I,
         hashed => g \in I
  PROVE  \A i \in DOMAIN Push(s, g, hashed) :
           Push(s, g, hashed)[i].hashed => Push(s, g, hashed)[i].green \in I
<1> DEFINE e == [green |-> g, hashed |-> hashed]
<1>1. e \in Elements /\ e.green = g /\ e.hashed = hashed
  BY DEF Elements
<1> HIDE DEF e
<1>2. /\ Append(s, e) \in Seq(Elements) /\ Len(Append(s, e)) = Len(s) + 1
      /\ \A i \in 1 .. Len(s) : Append(s, e)[i] = s[i]
      /\ Append(s, e)[Len(s) + 1] = e
  BY <1>1, AppendProperties
<1>3. DOMAIN Append(s, e) = 1 .. Len(s) + 1 /\ DOMAIN s = 1 .. Len(s) /\ Len(s) \in Nat
  BY <1>2
<1>4. ASSUME NEW i \in 1 .. Len(s) + 1
      PROVE  Append(s, e)[i].hashed => Append(s, e)[i].green \in I
  <2>1. CASE i \in 1 .. Len(s)
    BY <1>2, <1>3, <2>1
  <2>2. CASE i = Len(s) + 1
    BY <1>1, <1>2, <2>2
  <2> QED BY <1>3, <2>1, <2>2
<1> QED BY <1>3, <1>4 DEF Push, e

(* An element is pushed, whose reference the heap did not count before. *)
LEMMA PushOwns ==
  ASSUME NEW s \in Seq(Elements), NEW g \in Greens, NEW hashed \in BOOLEAN
  PROVE  \A x : Times(x, Greenery(Push(s, g, hashed))) = Times(x, Greenery(s)) + One(g = x)
<1>1. Greenery(Push(s, g, hashed)) = Append(Greenery(s), g) /\ Greenery(s) \in Seq(Greens)
  BY GreeneryPush, GreeneryType
<1> QED BY <1>1, TimesAppend

-----------------------------------------------------------------------------
(***************************************************************************)
(* The calls.                                                              *)
(***************************************************************************)
LEMMA TokenOwns ==
  ASSUME NestedInv, OwnInv, NEW kind \in TokenKinds, NEW text, Token(kind, text)
  PROVE  OwnInv'
<1>1. StackType /\ DataType /\ ChildrenInterned /\ children \in Seq(Elements)
  BY DEF NestedInv, StackType, OwnInv
<1>2. UNCHANGED <<nodes, parents, tree, drops, elsewhere>>
  BY DEF Token
<1>3. CASE ReuseToken(kind, text)
  <2>1. PICK g \in tokens :
          heap' = ShareOne(heap, g) /\ children' = Push(children, g, TRUE) /\ tokens' = tokens
    BY <1>3 DEF ReuseToken, SameToken
  <2>2. g \in Greens /\ g \in Interned
    BY <1>1 DEF StackType, Interned
  <2>3. /\ HeapType(heap') /\ Blank(heap')
        /\ \A k \in Greens : heap'[k].kids = heap[k].kids
        /\ \A x \in Greens : Excess(heap', x) = Excess(heap, x) + One(g = x)
    BY <1>1, <2>1, <2>2, ShareOneShares DEF DataType
  <2>4. DataType'
    BY <1>1, <1>2, <2>3 DEF DataType
  <2>5. ChildrenInterned'
    <3>1. \A i \in DOMAIN children' : children'[i].hashed => children'[i].green \in Interned
      BY <1>1, <2>1, <2>2, PushInterned DEF ChildrenInterned
    <3> QED BY <1>1, <1>2, <2>1, <2>3, <3>1 DEF ChildrenInterned, Interned, StackType
  <2>6. ASSUME NEW x \in Greens PROVE Excess(heap', x) = Owned(x)'
    <3>1. Times(x, Greenery(children')) = Times(x, Greenery(children)) + One(g = x)
      <4>1. PICK hashed \in BOOLEAN : children' = Push(children, g, hashed)
        BY <2>1
      <4> QED BY <1>1, <2>2, <4>1, PushOwns
    <3>2. Excess(heap, x) = Owned(x) /\ Interned' = Interned
      BY <1>2, <2>1 DEF OwnInv, Interned
    <3>3. /\ Times(x, Greenery(children)) \in Nat /\ Times(x, drops) \in Nat
          /\ Times(x, elsewhere) \in Nat
          /\ One(x \in Interned) \in Nat /\ One(x = tree) \in Nat /\ One(g = x) \in Nat
      BY <1>1, OwnedType, OneType
    <3> QED BY <1>2, <2>3, <3>1, <3>2, <3>3 DEF Owned
  <2> QED BY <2>4, <2>5, <2>6 DEF OwnInv
<1>4. CASE InternToken(kind, text)
  <2>1. PICK a \in NewGreen :
          /\ heap' = [heap EXCEPT ![a] = [kind |-> kind, kids |-> <<>>, len |-> text, cnt |-> 2]]
          /\ tokens' = tokens \cup {a}
          /\ children' = Push(children, a, TRUE)
    BY <1>4 DEF InternToken
  <2>2. a \in FreeGreens(heap) /\ a \in Greens /\ a \notin Interned /\ Excess(heap, a) >= 0
    BY <1>1, <2>1, FreeIsUnowned DEF NewGreen
  <2>3. heap[a].cnt = 0 /\ heap[a].kids = <<>>
    BY <1>1, <2>2 DEF FreeGreens, DataType, Blank, Free
  <2>4. /\ DOMAIN heap' = Greens /\ \A k \in Greens \ {a} : heap'[k] = heap[k]
        /\ heap'[a] = [kind |-> kind, kids |-> <<>>, len |-> text, cnt |-> 2]
    BY <1>1, <2>1, <2>2 DEF DataType, HeapType
  <2>5. /\ heap'[a].kids = <<>> /\ heap'[a].cnt = 2 /\ heap'[a].kind = kind
        /\ DOMAIN heap'[a] = DOMAIN Free
    BY <2>4 DEF Free
  <2>6. HeapType(heap') /\ Blank(heap')
    <3>1. kind \in Kinds /\ <<>> \in Seq(Greens)
      BY DEF Kinds
    <3>2. ASSUME NEW k \in Greens
          PROVE  /\ DOMAIN heap'[k] = DOMAIN Free /\ heap'[k].kind \in Kinds \cup {Vacant}
                 /\ heap'[k].kids \in Seq(Greens) /\ heap'[k].cnt \in Nat
      <4>1. CASE k = a
        <5>1. heap'[a].kind \in Kinds \cup {Vacant}
          BY <2>5, <3>1
        <5>2. heap'[a].kids \in Seq(Greens)
          BY <2>5, <3>1
        <5>3. heap'[a].cnt \in Nat
          BY <2>5
        <5> QED BY <2>5, <4>1, <5>1, <5>2, <5>3
      <4>2. CASE k # a
        BY <1>1, <2>4, <4>2 DEF DataType, HeapType
      <4> QED BY <4>1, <4>2
    <3> HeapType(heap')
      BY <2>4, <3>2 DEF HeapType
    <3>3. Blank(heap')
      BY <1>1, <2>4, <2>5 DEF DataType, Blank, FreeGreens
    <3> QED BY <3>2, <3>3
  <2>7. DataType'
    BY <1>1, <1>2, <2>6 DEF DataType
  <2>8. \A k \in Greens : heap'[k].kids = heap[k].kids
    BY <2>3, <2>4, <2>5
  <2>9. Interned' = Interned \cup {a}
    BY <1>2, <2>1 DEF Interned
  <2>10. ChildrenInterned'
    <3>1. \A i \in DOMAIN children' : children'[i].hashed => children'[i].green \in Interned'
      BY <1>1, <2>1, <2>2, <2>9, PushInterned DEF ChildrenInterned
    <3> QED BY <1>1, <1>2, <2>8, <2>9, <3>1 DEF ChildrenInterned, StackType
  <2>11. ASSUME NEW x \in Greens PROVE Excess(heap', x) = Owned(x)'
    <3>1. Times(x, Greenery(children')) = Times(x, Greenery(children)) + One(a = x)
      <4>1. PICK hashed \in BOOLEAN : children' = Push(children, a, hashed)
        BY <2>1
      <4> QED BY <1>1, <2>2, <4>1, PushOwns
    <3>2. One(x \in Interned') = One(x \in Interned) + One(a = x)
      BY <2>2, <2>9 DEF One
    <3>3. Excess(heap', x) = Excess(heap, x) + One(a = x) + One(a = x)
      <4>1. SlotsOf(heap', x) = SlotsOf(heap, x)
        BY <2>8, SlotsSame
      <4>2. heap'[x].cnt = heap[x].cnt + One(a = x) + One(a = x)
        <5>1. heap[x].cnt \in Nat
          BY <1>1 DEF DataType, HeapType
        <5>2. CASE x = a
          BY <2>3, <2>5, <5>2 DEF One
        <5>3. CASE x # a
          BY <2>4, <5>1, <5>3 DEF One
        <5> QED BY <5>2, <5>3
      <4>3. /\ heap[x].cnt \in Nat /\ Cardinality(SlotsOf(heap, x)) \in Nat
            /\ One(a = x) \in Nat
        BY <1>1, ExcessType, OneType DEF DataType
      <4> QED BY <4>1, <4>2, <4>3 DEF Excess
    <3>4. Excess(heap, x) = Owned(x)
      BY DEF OwnInv
    <3>5. /\ Times(x, Greenery(children)) \in Nat /\ Times(x, drops) \in Nat
          /\ Times(x, elsewhere) \in Nat
          /\ One(x \in Interned) \in Nat /\ One(x = tree) \in Nat /\ One(a = x) \in Nat
      BY <1>1, OwnedType, OneType
    <3> QED BY <1>2, <3>1, <3>2, <3>3, <3>4, <3>5 DEF Owned
  <2> QED BY <2>7, <2>10, <2>11 DEF OwnInv
<1> QED BY <1>3, <1>4 DEF Token

LEMMA OpenOwns ==
  ASSUME NestedInv, OwnInv, NEW kind \in NodeKinds, NEW first \in Nat, first <= Len(children),
         Open(kind, first)
  PROVE  OwnInv'
<1> DEFINE branch == [kind |-> kind, first |-> first]
<1>1. /\ parents' = Append(parents, branch)
      /\ UNCHANGED <<heap, nodes, tokens, children, tree, drops, elsewhere>>
  BY DEF Open
<1>2. first <= MaxStack
  <2>1. Len(parents) \in Nat /\ Len(children) \in Nat
    BY DEF NestedInv, StackType
  <2> QED BY <2>1, BoundsAssumption DEF Open, Room
<1>3. \A i \in DOMAIN parents' : parents'[i].first <= MaxStack
  <2>1. ASSUME NEW i \in DOMAIN parents'
        PROVE  (i \in DOMAIN parents /\ parents'[i] = parents[i]) \/ parents'[i] = branch
    BY <1>1 DEF NestedInv, StackType
  <2> QED BY <1>2, <2>1 DEF OwnInv, DataType
<1> QED BY <1>1, <1>3 DEF OwnInv, DataType, Owned, Interned, ChildrenInterned

(* What is left on the stack keeps its hashes, and what is drained had them. *)
LEMMA BaseAndRest ==
  ASSUME ChildrenInterned, children \in Seq(Elements), NEW n \in 0 .. Len(children)
  PROVE  /\ \A i \in DOMAIN SubSeq(children, 1, n) :
              SubSeq(children, 1, n)[i].hashed => SubSeq(children, 1, n)[i].green \in Interned
         /\ Internable(SubSeq(children, n + 1, Len(children))) =>
              Range(Greenery(SubSeq(children, n + 1, Len(children)))) \subseteq Interned
<1> DEFINE b == SubSeq(children, 1, n)
           r == SubSeq(children, n + 1, Len(children))
<1>1. /\ b \in Seq(Elements) /\ Len(b) = n /\ \A i \in 1 .. n : b[i] = children[i]
      /\ r \in Seq(Elements) /\ Len(r) = Len(children) - n
      /\ \A i \in 1 .. Len(children) - n : r[i] = children[i + n]
  OBVIOUS
<1>2. Len(children) \in Nat /\ n \in Nat /\ DOMAIN children = 1 .. Len(children)
  OBVIOUS
<1> HIDE DEF b, r
<1>3. ASSUME NEW i \in DOMAIN b, b[i].hashed PROVE b[i].green \in Interned
  <2>1. i \in 1 .. n /\ i \in DOMAIN children /\ b[i] = children[i]
    BY <1>1, <1>2
  <2> QED BY <1>3, <2>1 DEF ChildrenInterned
<1>4. ASSUME Internable(r) PROVE Range(Greenery(r)) \subseteq Interned
  <2>1. ASSUME NEW i \in DOMAIN r PROVE r[i].green \in Interned
    <3>1. i \in 1 .. Len(children) - n /\ i + n \in DOMAIN children /\ r[i] = children[i + n]
      BY <1>1, <1>2
    <3>2. r[i].hashed
      BY <1>4 DEF Internable
    <3> QED BY <3>1, <3>2 DEF ChildrenInterned
  <2> QED BY <2>1 DEF Range, Greenery
<1> QED BY <1>3, <1>4 DEF b, r

LEMMA FinishNodeOwns ==
  ASSUME NestedInv, OwnInv, FinishNode
  PROVE  OwnInv'
<1>1. StackType /\ DataType /\ ChildrenInterned /\ children \in Seq(Elements) /\ parents \in Seq(Branches)
  BY DEF NestedInv, StackType, OwnInv
<1>2. parents # <<>> /\ Len(parents) \in DOMAIN parents /\ Last(parents) = parents[Len(parents)]
      /\ drops = <<>> /\ UNCHANGED <<tokens, tree, elsewhere>>
  BY <1>1 DEF FinishNode, Last
<1>3. PICK n \in 0 .. Len(children), kind \in NodeKinds,
           b \in Seq(Elements), r \in Seq(Elements) :
        /\ n = Last(parents).first /\ kind = Last(parents).kind
        /\ b = SubSeq(children, 1, n) /\ r = SubSeq(children, n + 1, Len(children))
        /\ BuildUncached(kind, b, r) \/ Reuse(kind, b, r) \/ Intern(kind, b, r)
  <2>1. Last(parents).first \in Nat /\ Last(parents).first <= Len(children) /\ Len(children) \in Nat
    BY <1>1, <1>2, BranchFirst DEF NestedInv, Nested
  <2>2. Last(parents) \in Branches
    BY <1>1, <1>2
  <2>3. Last(parents).first \in 0 .. Len(children) /\ Last(parents).kind \in NodeKinds
    BY <2>1, <2>2 DEF Branches
  <2>4. /\ SubSeq(children, 1, Last(parents).first) \in Seq(Elements)
        /\ SubSeq(children, Last(parents).first + 1, Len(children)) \in Seq(Elements)
    BY <1>1, <2>3
  <2> QED BY <2>3, <2>4 DEF FinishNode
<1>4. /\ b \in Seq(Elements) /\ r \in Seq(Elements)
      /\ \A x : Times(x, Greenery(children)) = Times(x, Greenery(b)) + Times(x, Greenery(r))
  BY <1>1, <1>3, GreenerySplit
<1>5. /\ \A i \in DOMAIN b : b[i].hashed => b[i].green \in Interned
      /\ Internable(r) => Range(Greenery(r)) \subseteq Interned
  BY <1>1, <1>3, BaseAndRest
<1>6. Greenery(b) \in Seq(Greens) /\ Greenery(r) \in Seq(Greens)
  BY <1>4, GreeneryType
<1>7. \A i \in DOMAIN parents' : parents'[i].first <= MaxStack
  <2>1. parents' = SubSeq(parents, 1, Len(parents) - 1)
    BY DEF FinishNode, Front
  <2>2. Len(parents) \in Nat \ {0} /\ DOMAIN parents = 1 .. Len(parents)
    BY <1>1, <1>2
  <2>3. /\ DOMAIN parents' = 1 .. Len(parents) - 1
        /\ \A i \in 1 .. Len(parents) - 1 : parents'[i] = parents[i]
    BY <1>1, <2>1, <2>2
  <2> QED BY <1>1, <2>2, <2>3 DEF DataType
<1>8. kind \in Kinds \cup {Vacant}
  BY DEF Kinds
<1>9. ASSUME NEW x \in Greens
      PROVE  /\ Times(x, Greenery(b)) \in Nat /\ Times(x, Greenery(r)) \in Nat
             /\ Times(x, elsewhere) \in Nat /\ Times(x, drops) = 0
             /\ One(x \in Interned) \in Nat /\ One(x = tree) \in Nat
             /\ Excess(heap, x) = Times(x, Greenery(b)) + Times(x, Greenery(r))
                                  + One(x \in Interned) + One(x = tree) + Times(x, elsewhere)
  <2>1. /\ Times(x, Greenery(b)) \in Nat /\ Times(x, Greenery(r)) \in Nat
        /\ Times(x, elsewhere) \in Nat /\ Times(x, drops) = 0
        /\ One(x \in Interned) \in Nat /\ One(x = tree) \in Nat
    BY <1>1, <1>2, <1>6, TimesType, OwnedType, TimesEmpty
  <2>2. Excess(heap, x) = Owned(x)
    BY DEF OwnInv
  <2> QED BY <1>4, <2>1, <2>2 DEF Owned
<1>10. CASE BuildUncached(kind, b, r)
  <2>10. PICK a \in NewGreen, hashed \in BOOLEAN :
           /\ heap' = NewNode(heap, a, kind, Greenery(r))
           /\ children' = Push(b, a, hashed) /\ ~ hashed
    BY <1>10 DEF BuildUncached
  <2>1. PICK h : /\ h = NewNode(heap, a, kind, Greenery(r)) /\ heap' = h
                 /\ children' = Push(b, a, hashed) /\ ~ hashed
    BY <2>10
  <2>2. nodes' = nodes /\ drops' = drops
    BY <1>10 DEF BuildUncached
  <2>3. a \in FreeGreens(heap) /\ a \in Greens /\ a \notin Interned
    BY <1>1, <2>1, FreeIsUnowned DEF NewGreen
  <2>4. /\ HeapType(heap') /\ Blank(heap')
        /\ \A k \in Greens \ {a} : heap'[k] = heap[k]
        /\ \A x \in Greens : Excess(heap', x) = Excess(heap, x) - Times(x, Greenery(r)) + One(a = x)
    <3>1. /\ HeapType(h) /\ Blank(h)
          /\ h[a].kids = Greenery(r)
          /\ \A k \in Greens \ {a} : h[k] = heap[k]
          /\ \A x \in Greens : Excess(h, x) = Excess(heap, x) - Times(x, Greenery(r)) + One(a = x)
      BY <1>1, <1>6, <1>8, <2>1, <2>3, NewNodeTakes DEF DataType
    <3> QED BY <2>1, <3>1
  <2>5. DataType'
    BY <1>1, <1>2, <1>7, <2>2, <2>4 DEF DataType
  <2>6. Interned' = Interned
    BY <1>2, <2>2 DEF Interned
  <2>7. ChildrenInterned'
    <3>1. \A i \in DOMAIN children' : children'[i].hashed => children'[i].green \in Interned
      BY <1>4, <1>5, <2>1, <2>3, PushInterned
    <3>2. \A g \in nodes : heap'[g] = heap[g]
      BY <1>1, <2>3, <2>4 DEF Interned, StackType
    <3> QED BY <1>1, <2>2, <2>6, <3>1, <3>2 DEF ChildrenInterned
  <2>8. ASSUME NEW x \in Greens PROVE Excess(heap', x) = Owned(x)'
    <3>1. Times(x, Greenery(children')) = Times(x, Greenery(b)) + One(a = x)
      BY <1>4, <2>1, <2>3, PushOwns
    <3>2. One(a = x) \in Nat
      BY OneType
    <3>3. Owned(x)' = (Times(x, Greenery(b)) + One(a = x)) + One(x \in Interned)
                      + One(x = tree) + Times(x, drops) + Times(x, elsewhere)
      BY <1>2, <2>2, <2>6, <3>1 DEF Owned
    <3>4. PICK ub \in Nat, ur \in Nat, ui \in Nat, ut \in Nat, ue \in Nat, ua \in Nat :
            /\ ub = Times(x, Greenery(b)) /\ ur = Times(x, Greenery(r)) /\ ui = One(x \in Interned)
            /\ ut = One(x = tree) /\ ue = Times(x, elsewhere) /\ ua = One(a = x)
      BY <1>9, <3>2
    <3>5. Excess(heap, x) = ub + ur + ui + ut + ue /\ Times(x, drops) = 0
      BY <1>9, <3>4
    <3>6. Excess(heap', x) = (ub + ur + ui + ut + ue) - ur + ua
      BY <2>4, <3>4, <3>5
    <3>7. Owned(x)' = (ub + ua) + ui + ut + 0 + ue
      BY <3>3, <3>4, <3>5
    <3>8. (ub + ur + ui + ut + ue) - ur + ua = (ub + ua) + ui + ut + 0 + ue
      OBVIOUS
    <3> QED BY <3>6, <3>7, <3>8
  <2> QED BY <2>5, <2>7, <2>8 DEF OwnInv
<1>11. CASE Reuse(kind, b, r)
  <2>1. PICK g \in SameNode(kind, Greenery(r)), hashed \in BOOLEAN :
          heap' = ShareOne(heap, g) /\ children' = Push(b, g, hashed)
    BY <1>11, HashedType DEF Reuse
  <2>2. nodes' = nodes /\ drops' = Greenery(r)
    BY <1>11 DEF Reuse, Drained
  <2>3. g \in Greens /\ g \in Interned
    BY <1>1, <2>1 DEF SameNode, StackType, Interned
  <2>4. /\ HeapType(heap') /\ Blank(heap')
        /\ \A k \in Greens : heap'[k].kids = heap[k].kids
        /\ \A x \in Greens : Excess(heap', x) = Excess(heap, x) + One(g = x)
    BY <1>1, <2>1, <2>3, ShareOneShares DEF DataType
  <2>5. DataType'
    BY <1>1, <1>2, <1>6, <1>7, <2>2, <2>4 DEF DataType
  <2>6. Interned' = Interned
    BY <1>2, <2>2 DEF Interned
  <2>7. ChildrenInterned'
    <3>1. \A i \in DOMAIN children' : children'[i].hashed => children'[i].green \in Interned
      BY <1>4, <1>5, <2>1, <2>3, PushInterned
    <3> QED BY <1>1, <2>2, <2>4, <2>6, <3>1 DEF ChildrenInterned, StackType
  <2>8. ASSUME NEW x \in Greens PROVE Excess(heap', x) = Owned(x)'
    <3>1. Times(x, Greenery(children')) = Times(x, Greenery(b)) + One(g = x)
      BY <1>4, <2>1, <2>3, PushOwns
    <3>2. One(g = x) \in Nat
      BY OneType
    <3> QED BY <1>2, <1>9, <2>2, <2>4, <2>6, <3>1, <3>2 DEF Owned
  <2> QED BY <2>5, <2>7, <2>8 DEF OwnInv
<1>12. CASE Intern(kind, b, r)
  <2>10. PICK a \in NewGreen, hashed \in BOOLEAN :
           /\ heap' = ShareOne(NewNode(heap, a, kind, Greenery(r)), a)
           /\ nodes' = nodes \cup {a} /\ children' = Push(b, a, hashed)
    BY <1>12, HashedType DEF Intern
  <2>1. PICK h : /\ h = NewNode(heap, a, kind, Greenery(r)) /\ heap' = ShareOne(h, a)
                 /\ nodes' = nodes \cup {a} /\ children' = Push(b, a, hashed)
    BY <2>10
  <2>2. drops' = drops /\ Range(Greenery(r)) \subseteq Interned
    BY <1>5, <1>12 DEF Intern
  <2>3. a \in FreeGreens(heap) /\ a \in Greens /\ a \notin Interned
    BY <1>1, <2>1, FreeIsUnowned DEF NewGreen
  <2>4. /\ HeapType(h) /\ Blank(h)
        /\ h[a].kids = Greenery(r)
        /\ \A k \in Greens \ {a} : h[k] = heap[k]
        /\ \A x \in Greens : Excess(h, x) = Excess(heap, x) - Times(x, Greenery(r)) + One(a = x)
    BY <1>1, <1>6, <1>8, <2>1, <2>3, NewNodeTakes DEF DataType
  <2>5. /\ HeapType(heap') /\ Blank(heap')
        /\ \A k \in Greens : heap'[k].kids = h[k].kids
        /\ \A x \in Greens : Excess(heap', x) = Excess(h, x) + One(a = x)
    BY <2>1, <2>3, <2>4, ShareOneShares
  <2>6. DataType'
    BY <1>1, <1>2, <1>7, <2>2, <2>5 DEF DataType
  <2>7. Interned' = Interned \cup {a}
    BY <1>2, <2>1 DEF Interned
  <2>8. ChildrenInterned'
    <3>1. \A i \in DOMAIN children' : children'[i].hashed => children'[i].green \in Interned'
      BY <1>4, <1>5, <2>1, <2>3, <2>7, PushInterned
    <3>2. ASSUME NEW g \in nodes' PROVE Range(heap'[g].kids) \subseteq Interned'
      <4>1. CASE g = a
        <5>1. heap'[g].kids = Greenery(r)
          BY <2>3, <2>4, <2>5, <4>1
        <5> QED BY <2>2, <2>7, <5>1
      <4>2. CASE g # a
        <5>1. g \in nodes /\ g \in Greens /\ heap'[g].kids = heap[g].kids
          BY <1>1, <2>1, <2>4, <2>5, <3>2, <4>2 DEF StackType
        <5> QED BY <1>1, <2>7, <5>1 DEF ChildrenInterned
      <4> QED BY <4>1, <4>2
    <3> QED BY <3>1, <3>2 DEF ChildrenInterned
  <2>9. ASSUME NEW x \in Greens PROVE Excess(heap', x) = Owned(x)'
    <3>1. Times(x, Greenery(children')) = Times(x, Greenery(b)) + One(a = x)
      BY <1>4, <2>1, <2>3, PushOwns
    <3>2. One(a = x) \in Nat
      BY OneType
    <3>3. One(x \in Interned') = One(x \in Interned) + One(a = x)
      BY <2>3, <2>7 DEF One
    <3>4. Owned(x)' = (Times(x, Greenery(b)) + One(a = x)) + (One(x \in Interned) + One(a = x))
                      + One(x = tree) + Times(x, drops) + Times(x, elsewhere)
      BY <1>2, <2>2, <3>1, <3>3 DEF Owned
    <3>5. Excess(heap', x) = Excess(heap, x) - Times(x, Greenery(r)) + One(a = x) + One(a = x)
      BY <2>4, <2>5
    <3>6. PICK ub \in Nat, ur \in Nat, ui \in Nat, ut \in Nat, ue \in Nat, ua \in Nat :
            /\ ub = Times(x, Greenery(b)) /\ ur = Times(x, Greenery(r)) /\ ui = One(x \in Interned)
            /\ ut = One(x = tree) /\ ue = Times(x, elsewhere) /\ ua = One(a = x)
      BY <1>9, <3>2
    <3>7. Excess(heap, x) = ub + ur + ui + ut + ue /\ Times(x, drops) = 0
      BY <1>9, <3>6
    <3>8. Excess(heap', x) = (ub + ur + ui + ut + ue) - ur + ua + ua
      BY <3>5, <3>6, <3>7
    <3>9. Owned(x)' = (ub + ua) + (ui + ua) + ut + 0 + ue
      BY <3>4, <3>6, <3>7
    <3>10. (ub + ur + ui + ut + ue) - ur + ua + ua = (ub + ua) + (ui + ua) + ut + 0 + ue
      OBVIOUS
    <3> QED BY <3>8, <3>9, <3>10
  <2> QED BY <2>6, <2>8, <2>9 DEF OwnInv
<1> QED BY <1>3, <1>10, <1>11, <1>12

(* The stack is handed over: to the client, or to be dropped. *)
LEMMA FinishOwns ==
  ASSUME NestedInv, OwnInv, Finish
  PROVE  OwnInv'
<1>1. StackType /\ DataType /\ ChildrenInterned /\ children \in Seq(Elements)
  BY DEF NestedInv, StackType, OwnInv
<1>2. /\ UNCHANGED <<heap, nodes, tokens, drops, elsewhere>>
      /\ tree = NoTree /\ tree' = children[1].green /\ Len(children) = 1
      /\ parents' = <<>> /\ children' = <<>>
  BY DEF Finish
<1>3. tree' \in Greens /\ Greenery(children) = <<tree'>>
  <2>1. children[1] \in Elements
    BY <1>1, <1>2
  <2>2. children[1].green \in Greens
    BY <2>1 DEF Elements
  <2>3. /\ Greenery(children) \in Seq(Greens) /\ Len(Greenery(children)) = 1
        /\ Greenery(children)[1] = children[1].green
    BY <1>1, <1>2, GreeneryType
  <2> QED BY <1>2, <2>2, <2>3
<1>4. DataType'
  BY <1>1, <1>2, <1>3 DEF DataType
<1>5. Interned' = Interned /\ Greenery(children') = <<>>
  BY <1>2 DEF Interned, Greenery
<1>6. ChildrenInterned'
  BY <1>1, <1>2, <1>5 DEF ChildrenInterned
<1>7. ASSUME NEW x \in Greens PROVE Excess(heap', x) = Owned(x)'
  <2>1. Times(x, Greenery(children)) = One(x = tree') /\ Times(x, Greenery(children')) = 0
    <3>1. Times(x, <<tree'>>) = One(tree' = x)
      BY TimesOne
    <3> QED BY <1>3, <1>5, <3>1, TimesEmpty DEF One
  <2>2. One(x = tree) = 0
    BY <1>2, TreeAssumption DEF One
  <2>3. Excess(heap, x) = Owned(x)
    BY DEF OwnInv
  <2>4. /\ Times(x, drops) \in Nat /\ Times(x, elsewhere) \in Nat
        /\ One(x \in Interned) \in Nat /\ One(x = tree') \in Nat
    BY <1>1, OwnedType, OneType
  <2> QED BY <1>2, <1>5, <2>1, <2>2, <2>3, <2>4 DEF Owned
<1> QED BY <1>4, <1>6, <1>7 DEF OwnInv

LEMMA AbandonOwns ==
  ASSUME NestedInv, OwnInv, Abandon
  PROVE  OwnInv'
<1>1. StackType /\ DataType /\ ChildrenInterned /\ children \in Seq(Elements)
  BY DEF NestedInv, StackType, OwnInv
<1>2. /\ UNCHANGED <<heap, nodes, tokens, tree, elsewhere>>
      /\ drops = <<>> /\ drops' = Greenery(children)
      /\ parents' = <<>> /\ children' = <<>>
  BY DEF Abandon
<1>3. DataType'
  BY <1>1, <1>2, GreeneryType DEF DataType
<1>4. Interned' = Interned /\ Greenery(children') = <<>>
  BY <1>2 DEF Interned, Greenery
<1>5. ChildrenInterned'
  BY <1>1, <1>2, <1>4 DEF ChildrenInterned
<1>6. ASSUME NEW x \in Greens PROVE Excess(heap', x) = Owned(x)'
  <2>1. Times(x, <<>>) = 0 /\ Excess(heap, x) = Owned(x)
    BY TimesEmpty DEF OwnInv
  <2>2. /\ Times(x, Greenery(children)) \in Nat /\ Times(x, elsewhere) \in Nat
        /\ One(x \in Interned) \in Nat /\ One(x = tree) \in Nat
    BY <1>1, OwnedType
  <2> QED BY <1>2, <1>4, <2>1, <2>2 DEF Owned
<1> QED BY <1>3, <1>5, <1>6 DEF OwnInv

LEMMA DropCacheOwns ==
  ASSUME NestedInv, OwnInv, DropCache
  PROVE  OwnInv'
<1>1. StackType /\ DataType /\ ChildrenInterned
  BY DEF NestedInv, OwnInv
<1>2. /\ UNCHANGED <<heap, parents, children, tree, elsewhere>>
      /\ drops = <<>> /\ drops' = SetToSeq(Interned) /\ children = <<>>
      /\ nodes' = {} /\ tokens' = {}
  BY DEF DropCache, Interned, stacks
<1>3. Interned \in SUBSET Greens
  BY <1>1 DEF StackType, Interned
<1>4. drops' \in Seq(Greens) /\ \A x : Times(x, drops') = One(x \in Interned)
  BY <1>2, <1>3, SetAsSequence
<1>5. DataType'
  BY <1>1, <1>2, <1>4 DEF DataType
<1>6. Interned' = {}
  BY <1>2 DEF Interned
<1>7. ChildrenInterned'
  BY <1>2 DEF ChildrenInterned
<1>8. ASSUME NEW x \in Greens PROVE Excess(heap', x) = Owned(x)'
  <2>1. Times(x, drops) = 0 /\ Excess(heap, x) = Owned(x) /\ One(x \in Interned') = 0
    BY <1>2, <1>6, TimesEmpty DEF OwnInv, One
  <2>2. /\ Times(x, Greenery(children)) \in Nat /\ Times(x, elsewhere) \in Nat
        /\ One(x \in Interned) \in Nat /\ One(x = tree) \in Nat
    BY <1>1, OwnedType
  <2> QED BY <1>2, <1>4, <2>1, <2>2 DEF Owned
<1> QED BY <1>5, <1>7, <1>8 DEF OwnInv

LEMMA DropTreeOwns ==
  ASSUME NestedInv, OwnInv, DropTree
  PROVE  OwnInv'
<1>1. StackType /\ DataType /\ ChildrenInterned
  BY DEF NestedInv, OwnInv
<1>2. /\ UNCHANGED <<heap, nodes, tokens, parents, children, drops>>
      /\ tree \in Greens /\ tree' = NoTree
      /\ elsewhere = <<>> /\ elsewhere' = Append(elsewhere, tree)
  BY <1>1 DEF DropTree, DataType
<1>3. elsewhere' \in Seq(Greens) /\ \A x : Times(x, elsewhere') = One(tree = x)
  <2>1. elsewhere' = <<tree>>
    BY <1>2
  <2> QED BY <1>2, <2>1, TimesOne
<1>4. DataType'
  BY <1>1, <1>2, <1>3 DEF DataType
<1>5. ChildrenInterned'
  BY <1>1, <1>2 DEF ChildrenInterned, Interned
<1>6. ASSUME NEW x \in Greens PROVE Excess(heap', x) = Owned(x)'
  <2>1. /\ Times(x, elsewhere) = 0 /\ Excess(heap, x) = Owned(x) /\ One(x = tree') = 0
        /\ One(tree = x) = One(x = tree) /\ Interned' = Interned
    BY <1>2, TimesEmpty, TreeAssumption DEF OwnInv, One, Interned
  <2>2. /\ Times(x, Greenery(children)) \in Nat /\ Times(x, drops) \in Nat
        /\ One(x \in Interned) \in Nat /\ One(x = tree) \in Nat
    BY <1>1, OwnedType
  <2> QED BY <1>2, <1>3, <2>1, <2>2 DEF Owned
<1> QED BY <1>4, <1>5, <1>6 DEF OwnInv

(***************************************************************************)
(* One decrement.  What is dropped is not free, and it is not interned if  *)
(* the drop frees it: the cache holds a reference of its own.              *)
(***************************************************************************)
LEMMA DroppedIsOwned ==
  ASSUME StackType, OwnInv, NEW g \in Greens, Times(g, drops) + Times(g, elsewhere) >= 1
  PROVE  heap[g].cnt > 0 /\ (heap[g].cnt = 1 => g \notin Interned)
<1>1. /\ Times(g, Greenery(children)) \in Nat /\ Times(g, drops) \in Nat
      /\ Times(g, elsewhere) \in Nat
      /\ One(g \in Interned) \in Nat /\ One(g = tree) \in Nat
  BY OwnedType DEF OwnInv
<1>2. Owned(g) \in Nat /\ Owned(g) >= 1 + One(g \in Interned)
  BY <1>1 DEF Owned
<1>3. heap[g].cnt = Owned(g) + Cardinality(SlotsOf(heap, g)) /\ Cardinality(SlotsOf(heap, g)) \in Nat
  BY ExcessType DEF OwnInv, DataType
<1>4. heap[g].cnt = 1 => One(g \in Interned) = 0
  BY <1>1, <1>2, <1>3
<1>5. heap[g].cnt > 0
  BY <1>1, <1>2, <1>3
<1> QED BY <1>4, <1>5 DEF One

LEMMA DropOneOwns ==
  ASSUME NestedInv, OwnInv, NEW g \in Greens, NEW rest \in Seq(Greens),
         heap' = DropGreen(heap, g),
         UNCHANGED <<nodes, tokens, parents, children, tree>>,
         \/ /\ elsewhere' = elsewhere /\ drops' = DropsOf(heap, g) \o rest
            /\ \A x : Times(x, drops) = One(g = x) + Times(x, rest)
         \/ /\ drops' = drops /\ elsewhere' = DropsOf(heap, g) \o rest
            /\ \A x : Times(x, elsewhere) = One(g = x) + Times(x, rest)
  PROVE  OwnInv'
<1>1. StackType /\ DataType /\ ChildrenInterned
  BY DEF NestedInv, OwnInv
<1>2. PICK h, more :
        /\ h = DropGreen(heap, g) /\ heap' = h
        /\ more = DropsOf(heap, g)
        /\ UNCHANGED <<nodes, tokens, parents, children, tree>>
        /\ \/ /\ elsewhere' = elsewhere /\ drops' = more \o rest
              /\ \A x : Times(x, drops) = One(g = x) + Times(x, rest)
           \/ /\ drops' = drops /\ elsewhere' = more \o rest
              /\ \A x : Times(x, elsewhere) = One(g = x) + Times(x, rest)
  OBVIOUS
<1>3. heap[g].cnt > 0 /\ (heap[g].cnt = 1 => g \notin Interned)
  <2>1. /\ Times(g, drops) \in Nat /\ Times(g, elsewhere) \in Nat
        /\ Times(g, rest) \in Nat /\ One(g = g) = 1
    BY <1>1, <1>2, OwnedType, TimesType DEF One
  <2>2. Times(g, drops) + Times(g, elsewhere) >= 1
    BY <1>2, <2>1
  <2> QED BY <1>1, <2>2, DroppedIsOwned
<1>4. /\ HeapType(h) /\ Blank(h) /\ more \in Seq(Greens)
      /\ \A k \in Greens \ {g} : h[k] = heap[k]
      /\ h[g].kids = IF heap[g].cnt = 1 THEN <<>> ELSE heap[g].kids
      /\ \A x \in Greens : Excess(h, x) = Excess(heap, x) - One(g = x) + Times(x, more)
  BY <1>1, <1>2, <1>3, DropReleases DEF DataType
<1>5. more \o rest \in Seq(Greens) /\ \A x : Times(x, more \o rest) = Times(x, more) + Times(x, rest)
  BY <1>2, <1>4, TimesConcat
<1>6. DataType'
  BY <1>1, <1>2, <1>4, <1>5 DEF DataType
<1>7. Interned' = Interned
  BY <1>2 DEF Interned
<1>8. ChildrenInterned'
  <2>1. ASSUME NEW k \in nodes PROVE h[k].kids = heap[k].kids
    <3>1. k \in Greens /\ k \in Interned
      BY <1>1 DEF StackType, Interned
    <3>2. CASE k = g
      BY <1>3, <1>4, <3>1, <3>2
    <3>3. CASE k # g
      BY <1>4, <3>1, <3>3
    <3> QED BY <3>2, <3>3
  <2> QED BY <1>1, <1>2, <1>7, <2>1 DEF ChildrenInterned
<1>9. ASSUME NEW x \in Greens PROVE Excess(heap', x) = Owned(x)'
  <2>1. /\ Times(x, Greenery(children)) \in Nat
        /\ Times(x, drops) \in Nat /\ Times(x, elsewhere) \in Nat
        /\ Times(x, rest) \in Nat /\ Times(x, more) \in Nat /\ One(g = x) \in Nat
        /\ One(x \in Interned) \in Nat /\ One(x = tree) \in Nat
    BY <1>1, <1>2, <1>4, OwnedType, TimesType, OneType
  <2>2. Excess(heap, x) = Owned(x)
    BY DEF OwnInv
  <2>3. Excess(heap', x) = Excess(heap, x) - One(g = x) + Times(x, more)
    BY <1>2, <1>4
  <2>4. \/ elsewhere' = elsewhere /\ Times(x, drops') = Times(x, drops) - One(g = x) + Times(x, more)
        \/ drops' = drops /\ Times(x, elsewhere') = Times(x, elsewhere) - One(g = x) + Times(x, more)
    <3>1. CASE elsewhere' = elsewhere /\ drops' = more \o rest
               /\ \A y : Times(y, drops) = One(g = y) + Times(y, rest)
      <4>1. Times(x, drops') = Times(x, more) + Times(x, rest)
        BY <1>5, <3>1
      <4>2. Times(x, drops) = One(g = x) + Times(x, rest)
        BY <3>1
      <4> QED BY <2>1, <3>1, <4>1, <4>2
    <3>2. CASE drops' = drops /\ elsewhere' = more \o rest
               /\ \A y : Times(y, elsewhere) = One(g = y) + Times(y, rest)
      <4>1. Times(x, elsewhere') = Times(x, more) + Times(x, rest)
        BY <1>5, <3>2
      <4>2. Times(x, elsewhere) = One(g = x) + Times(x, rest)
        BY <3>2
      <4> QED BY <2>1, <3>2, <4>1, <4>2
    <3> QED BY <1>2, <3>1, <3>2
  <2>5. children' = children /\ tree' = tree
    BY <1>2
  <2>6. One(x \in Interned') = One(x \in Interned)
    BY <1>7
  <2>7. Owned(x)' = Times(x, Greenery(children)) + One(x \in Interned) + One(x = tree)
                    + Times(x, drops') + Times(x, elsewhere')
    <3>1. Owned(x)' = Times(x, Greenery(children')) + One(x \in Interned') + One(x = tree')
                      + Times(x, drops') + Times(x, elsewhere')
      BY DEF Owned
    <3> QED BY <2>5, <2>6, <3>1
  <2>8. Excess(heap, x) = Times(x, Greenery(children)) + One(x \in Interned) + One(x = tree)
                          + Times(x, drops) + Times(x, elsewhere)
    BY <2>2 DEF Owned
  <2>9. PICK uc \in Nat, ud \in Nat, ue \in Nat, um \in Nat, uo \in Nat, ui \in Nat, ut \in Nat :
          /\ uc = Times(x, Greenery(children)) /\ ud = Times(x, drops) /\ ue = Times(x, elsewhere)
          /\ um = Times(x, more) /\ uo = One(g = x) /\ ui = One(x \in Interned) /\ ut = One(x = tree)
    BY <2>1
  <2>10. Excess(heap', x) = (uc + ui + ut + ud + ue) - uo + um
    BY <2>3, <2>8, <2>9
  <2>11. ASSUME elsewhere' = elsewhere, Times(x, drops') = ud - uo + um
         PROVE  Owned(x)' = uc + ui + ut + (ud - uo + um) + ue
    BY <2>7, <2>9, <2>11
  <2>12. ASSUME drops' = drops, Times(x, elsewhere') = ue - uo + um
         PROVE  Owned(x)' = uc + ui + ut + ud + (ue - uo + um)
    BY <2>7, <2>9, <2>12
  <2>13. /\ (uc + ui + ut + ud + ue) - uo + um = uc + ui + ut + (ud - uo + um) + ue
         /\ (uc + ui + ut + ud + ue) - uo + um = uc + ui + ut + ud + (ue - uo + um)
    OBVIOUS
  <2> QED BY <2>4, <2>9, <2>10, <2>11, <2>12, <2>13
<1> QED BY <1>6, <1>8, <1>9 DEF OwnInv

LEMMA DropOwns ==
  ASSUME NestedInv, OwnInv, DropHere \/ DropElsewhere
  PROVE  OwnInv'
<1>1. drops \in Seq(Greens) /\ elsewhere \in Seq(Greens)
  BY DEF OwnInv, DataType
<1>2. CASE DropHere
  <2>1. /\ Head(drops) \in Greens /\ Tail(drops) \in Seq(Greens)
        /\ \A x : Times(x, drops) = One(Head(drops) = x) + Times(x, Tail(drops))
    BY <1>1, <1>2, TimesHeadTail DEF DropHere
  <2>2. /\ heap' = DropGreen(heap, Head(drops))
        /\ drops' = DropsOf(heap, Head(drops)) \o Tail(drops)
        /\ UNCHANGED <<nodes, tokens, parents, children, tree>> /\ elsewhere' = elsewhere
    BY <1>2 DEF DropHere
  <2> QED BY <2>1, <2>2, DropOneOwns
<1>3. CASE DropElsewhere
  <2>1. /\ Head(elsewhere) \in Greens /\ Tail(elsewhere) \in Seq(Greens)
        /\ \A x : Times(x, elsewhere) = One(Head(elsewhere) = x) + Times(x, Tail(elsewhere))
    BY <1>1, <1>3, TimesHeadTail DEF DropElsewhere
  <2>2. /\ heap' = DropGreen(heap, Head(elsewhere))
        /\ elsewhere' = DropsOf(heap, Head(elsewhere)) \o Tail(elsewhere)
        /\ UNCHANGED <<nodes, tokens, parents, children, tree>> /\ drops' = drops
    BY <1>3 DEF DropElsewhere
  <2> QED BY <2>1, <2>2, DropOneOwns
<1> QED BY <1>2, <1>3

LEMMA OwnInvHolds == Spec => []OwnInv
<1>1. Init => OwnInv
  <2> SUFFICES ASSUME Init PROVE OwnInv
    OBVIOUS
  <2>1. DataType
    <3>1. DOMAIN heap = Greens /\ \A g \in Greens : heap[g] = Free
      BY DEF Init
    <3>2. /\ DOMAIN Free = DOMAIN Free /\ Free.kind = Vacant
          /\ Free.kids = <<>> /\ Free.cnt = 0 /\ <<>> \in Seq(Greens)
      BY DEF Free
    <3>3. ASSUME NEW g \in Greens
          PROVE  /\ DOMAIN heap[g] = DOMAIN Free /\ heap[g].kind = Vacant
                 /\ heap[g].kids \in Seq(Greens) /\ heap[g].cnt \in Nat /\ heap[g] = Free
      <4>1. heap[g] = Free
        BY <3>1
      <4>2. Free.kind = Vacant /\ Free.kids \in Seq(Greens) /\ Free.cnt \in Nat
        BY <3>2
      <4>3. heap[g].kind = Free.kind /\ heap[g].kids = Free.kids /\ heap[g].cnt = Free.cnt
        BY <4>1
      <4>4. DOMAIN heap[g] = DOMAIN Free
        BY <4>1
      <4> QED BY <4>1, <4>2, <4>3, <4>4
    <3>5. HeapType(heap) /\ Blank(heap)
      BY <3>1, <3>3 DEF HeapType, Blank, FreeGreens
    <3>4. /\ tree = NoTree /\ drops = <<>> /\ elsewhere = <<>> /\ DOMAIN parents = {}
      BY DEF Init
    <3> QED BY <3>2, <3>4, <3>5 DEF DataType
  <2>2. ChildrenInterned
    BY DEF Init, ChildrenInterned
  <2>3. ASSUME NEW x \in Greens PROVE Excess(heap, x) = Owned(x)
    <3>1. heap[x].cnt = 0 /\ \A k \in Greens : heap[k].kids = <<>>
      BY DEF Init, Free
    <3>2. SlotsOf(heap, x) = {}
      BY <3>1, SlotsMember
    <3>3. Cardinality(SlotsOf(heap, x)) = 0
      BY <3>2, FS_EmptySet
    <3>4. Times(x, drops) = 0 /\ Times(x, elsewhere) = 0 /\ Times(x, Greenery(children)) = 0
      <4>1. Greenery(children) = <<>>
        BY DEF Init, Greenery
      <4> QED BY <4>1, TimesEmpty DEF Init
    <3>5. One(x \in Interned) = 0 /\ One(x = tree) = 0
      BY TreeAssumption DEF Init, One, Interned
    <3> QED BY <3>1, <3>3, <3>4, <3>5 DEF Excess, Owned
  <2> QED BY <2>1, <2>2, <2>3 DEF OwnInv
<1>2. NestedInv /\ OwnInv /\ [Next]_vars => OwnInv'
  <2> SUFFICES ASSUME NestedInv, OwnInv, [Next]_vars PROVE OwnInv'
    OBVIOUS
  <2>1. ASSUME NEW kind \in NodeKinds, StartNode(kind)
        PROVE  OwnInv'
    <3>1. Len(children) \in Nat /\ Open(kind, Len(children))
      BY <2>1 DEF NestedInv, StackType, StartNode
    <3> QED BY <3>1, OpenOwns
  <2>2. ASSUME NEW kind \in NodeKinds, NEW at \in 0 .. MaxStack, StartNodeAt(kind, at)
        PROVE  OwnInv'
    BY <2>2, OpenOwns DEF StartNodeAt
  <2>3. CASE UNCHANGED vars
    BY <2>3 DEF vars, OwnInv, DataType, Owned, ChildrenInterned, Interned
  <2> QED
    BY <2>1, <2>2, <2>3, TokenOwns, FinishNodeOwns, FinishOwns, AbandonOwns, DropCacheOwns,
       DropTreeOwns, DropOwns
    DEF Next
<1> QED BY <1>1, <1>2, NestedInvHolds, PTL DEF Spec

-----------------------------------------------------------------------------
(***************************************************************************)
(* Every element the builder, the cache and the client refer to lies in    *)
(* the heap, and the heap is well formed, whatever is built or dropped.    *)
(***************************************************************************)
THEOREM BuilderIsTyped == Spec => []TypeOK
<1>1. NestedInv /\ OwnInv => TypeOK
  <2> SUFFICES ASSUME NestedInv, OwnInv PROVE TypeOK
    OBVIOUS
  <2>1. parents \in Seq([kind : NodeKinds, first : 0 .. MaxStack])
    <3>1. parents \in Seq(Branches) /\ DOMAIN parents = 1 .. Len(parents) /\ Len(parents) \in Nat
      BY DEF NestedInv, StackType
    <3>2. ASSUME NEW i \in 1 .. Len(parents)
          PROVE  parents[i] \in [kind : NodeKinds, first : 0 .. MaxStack]
      <4>1. parents[i] \in Branches /\ parents[i].first <= MaxStack
        BY <3>1 DEF OwnInv, DataType
      <4> QED BY <4>1, BoundsAssumption DEF Branches
    <3>3. PICK n \in Nat : n = Len(parents)
      BY <3>1
    <3>7. PICK B : B = [kind : NodeKinds, first : 0 .. MaxStack]
      OBVIOUS
    <3>4. parents = [i \in 1 .. n |-> parents[i]]
      BY <3>1, <3>3
    <3>5. parents \in [1 .. n -> B]
      BY <3>2, <3>3, <3>4, <3>7
    <3>6. parents \in Seq(B)
      BY <3>3, <3>5, SeqDef
    <3> QED BY <3>6, <3>7
  <2> QED BY <2>1 DEF NestedInv, StackType, OwnInv, DataType, TypeOK, Elements
<1> QED BY <1>1, NestedInvHolds, OwnInvHolds, PTL

(***************************************************************************)
(* If an element is interned, so are all of its children, and an element   *)
(* with a hash is interned: the promise NodeCache relies on when it        *)
(* compares children by address (node_cache.rs).                           *)
(***************************************************************************)
THEOREM CacheIsClosed == Spec => []ChildrenInterned
<1>1. OwnInv => ChildrenInterned
  BY DEF OwnInv
<1> QED BY <1>1, OwnInvHolds, PTL

(***************************************************************************)
(* The count of every green element is the number of its owners, through   *)
(* interning, reuse, unwinding and the drops of two threads: no element is *)
(* freed while somebody refers to it, and none is kept that nobody does.   *)
(***************************************************************************)
THEOREM CountsAreOwners == Spec => []BuilderOwns
<1>1. NestedInv /\ OwnInv => BuilderOwns
  <2> SUFFICES ASSUME NestedInv, OwnInv, NEW g \in Greens
               PROVE  heap[g].cnt = Cardinality(SlotsOf(heap, g)) + Times(g, Greenery(children))
                        + One(g \in Interned) + One(g = tree) + Times(g, drops) + Times(g, elsewhere)
    BY DEF BuilderOwns
  <2>1. /\ heap[g].cnt = Owned(g) + Cardinality(SlotsOf(heap, g))
        /\ Cardinality(SlotsOf(heap, g)) \in Nat
    BY ExcessType DEF OwnInv, DataType
  <2>2. /\ Times(g, Greenery(children)) \in Nat /\ Times(g, drops) \in Nat
        /\ Times(g, elsewhere) \in Nat
        /\ One(g \in Interned) \in Nat /\ One(g = tree) \in Nat
    BY OwnedType DEF NestedInv, OwnInv
  <2> QED BY <2>1, <2>2 DEF Owned
<1> QED BY <1>1, NestedInvHolds, OwnInvHolds, PTL

-----------------------------------------------------------------------------
(***************************************************************************)
(* The trees of the heap.  Elements refer to their children, and no element *)
(* is below itself; so every element is the root of one tree of values.    *)
(***************************************************************************)

(* Every set of green elements has a member without a child in the set. *)
Founded(h) ==
  \A S \in SUBSET Greens : S # {} => \E g \in S : \A i \in DOMAIN h[g].kids : h[g].kids[i] \notin S

(* s gives the trees at the addresses of h. *)
ShapeOf(h, s) ==
  \A g \in Greens :
    s[g] = [kind |-> h[g].kind, len |-> h[g].len,
            kids |-> [i \in DOMAIN h[g].kids |-> s[h[g].kids[i]]]]

ShapeEq == ShapeOf(heap, Shape)

(***************************************************************************)
(* The trees of the heap exist: the function the model chooses for Shape   *)
(* solves its equations.  A smallest closed set of elements without a      *)
(* solution would leave one after its founded element was added.           *)
(***************************************************************************)
LEMMA ShapeIsShape ==
  ASSUME HeapType(heap), Founded(heap)
  PROVE  ShapeEq
<1> DEFINE Of(f, g) == [kind |-> heap[g].kind, len |-> heap[g].len,
                        kids |-> [i \in DOMAIN heap[g].kids |-> f[heap[g].kids[i]]]]
           Closed(C) == \A g \in C : \A i \in DOMAIN heap[g].kids : heap[g].kids[i] \in C
           Solves(f, C) == f = [g \in C |-> Of(f, g)]
           Left == {S \in SUBSET Greens : Closed(Greens \ S) /\ \E f : Solves(f, Greens \ S)}
<1>1. ASSUME NEW g \in Greens, NEW i \in DOMAIN heap[g].kids PROVE heap[g].kids[i] \in Greens
  BY DEF HeapType
<1>2. Shape = CHOOSE f : Solves(f, Greens)
  BY DEF Shape
<1>3. Greens \in Left
  <2>1. Closed(Greens \ Greens)
    OBVIOUS
  <2>2. Solves([g \in {} |-> {}], Greens \ Greens)
    OBVIOUS
  <2> QED BY <2>1, <2>2
<1>4. PICK S \in Left : \A T \in Left : T \subseteq S => T = S
  <2>1. Left \subseteq SUBSET Greens /\ Left # {}
    BY <1>3
  <2>2. IsFiniteSet(Greens)
    BY AddressesAssumption
  <2> HIDE DEF Left
  <2>3. PICK F : F = Left
    OBVIOUS
  <2>4. \E S \in F : \A T \in F : T \subseteq S => T = S
    BY <2>1, <2>2, <2>3, SmallestSet
  <2> QED BY <2>3, <2>4
<1>5. S = {}
  <2> SUFFICES ASSUME S # {} PROVE FALSE
    OBVIOUS
  <2>1. PICK g \in S : \A i \in DOMAIN heap[g].kids : heap[g].kids[i] \notin S
    BY DEF Founded
  <2>2. PICK f : Solves(f, Greens \ S)
    OBVIOUS
  <2> DEFINE T == S \ {g}
             C == Greens \ S
  <2>3. PICK e : e = [x \in C \cup {g} |-> IF x = g THEN Of(f, g) ELSE f[x]]
    OBVIOUS
  <2>4. Greens \ T = C \cup {g} /\ g \in Greens /\ g \notin C
    OBVIOUS
  <2>5. ASSUME NEW x \in C \cup {g}, NEW i \in DOMAIN heap[x].kids
        PROVE  heap[x].kids[i] \in C
    BY <1>1, <2>1
  <2>6. ASSUME NEW x \in C \cup {g} PROVE Of(e, x) = Of(f, x)
    <3>1. \A i \in DOMAIN heap[x].kids : e[heap[x].kids[i]] = f[heap[x].kids[i]]
      BY <2>3, <2>4, <2>5
    <3> QED BY <3>1
  <2>7. ASSUME NEW x \in C \cup {g} PROVE e[x] = Of(e, x)
    <3>1. CASE x = g
      BY <2>3, <2>6, <3>1
    <3>2. CASE x # g
      <4>1. x \in C /\ e[x] = f[x]
        BY <2>3, <3>2
      <4>2. f[x] = Of(f, x)
        BY <2>2, <4>1
      <4> QED BY <2>6, <4>1, <4>2
    <3> QED BY <3>1, <3>2
  <2>8. Solves(e, Greens \ T)
    <3> HIDE DEF Of
    <3>1. e = [x \in C \cup {g} |-> e[x]]
      BY <2>3
    <3> QED BY <2>4, <2>7, <3>1
  <2>9. Closed(Greens \ T)
    BY <2>4, <2>5
  <2>10. T \in Left
    BY <2>8, <2>9
  <2>11. T \subseteq S /\ T # S
    OBVIOUS
  <2> QED BY <1>4, <2>10, <2>11
<1>6. \E f : Solves(f, Greens)
  BY <1>4, <1>5
<1>7. Solves(Shape, Greens)
  <2> HIDE DEF Solves
  <2> QED BY <1>2, <1>6
<1>8. ASSUME NEW g \in Greens PROVE Shape[g] = Of(Shape, g)
  <2> HIDE DEF Of
  <2> QED BY <1>7
<1> QED BY <1>8 DEF ShapeEq, ShapeOf

(***************************************************************************)
(* What the calls do to the heap.  An element keeps its kind, its children *)
(* and its length, and is not revived, or it is made at a free address, or *)
(* freed.                                                                  *)
(***************************************************************************)
Alike(h, q, g) ==
  /\ q[g].kind = h[g].kind /\ q[g].kids = h[g].kids /\ q[g].len = h[g].len
  /\ q[g].cnt > 0 => h[g].cnt > 0

Unchanging(h, q) == \A g \in Greens : Alike(h, q, g)

Makes(h, q, a) == a \in FreeGreens(h) /\ \A g \in Greens \ {a} : Alike(h, q, g)

Used(h) == {g \in Greens : h[g].cnt > 0}

(* Owned elements and the children of all elements are in use. *)
LEMMA OwnedIsUsed ==
  ASSUME NestedInv, OwnInv
  PROVE  /\ \A g \in Greens : \A i \in DOMAIN heap[g].kids : heap[g].kids[i] \in Used(heap)
         /\ \A i \in DOMAIN children : children[i].green \in Used(heap)
         /\ Interned \subseteq Used(heap)
         /\ tree # NoTree => tree \in Used(heap)
<1>1. StackType /\ DataType /\ HeapType(heap)
  BY DEF NestedInv, OwnInv, DataType
<1>2. ASSUME NEW g \in Greens PROVE Excess(heap, g) >= 0 /\ Owned(g) \in Nat
  BY <1>1, OwnedType DEF OwnInv
<1>3. ASSUME NEW g \in Greens, NEW i \in DOMAIN heap[g].kids
      PROVE  heap[g].kids[i] \in Used(heap)
  <2>1. heap[g].kids[i] \in Greens
    BY <1>1 DEF HeapType
  <2> QED BY <1>1, <1>2, <2>1, SlottedIsCounted DEF Used
<1>4. ASSUME NEW g \in Greens, Owned(g) > 0 PROVE g \in Used(heap)
  BY <1>1, <1>2, <1>4, ExcessType DEF Used, OwnInv
<1>5. ASSUME NEW g \in Greens
      PROVE  /\ Times(g, Greenery(children)) \in Nat /\ Times(g, drops) \in Nat
             /\ Times(g, elsewhere) \in Nat /\ One(g \in Interned) \in Nat /\ One(g = tree) \in Nat
  BY <1>1, OwnedType
<1>6. ASSUME NEW i \in DOMAIN children PROVE children[i].green \in Used(heap)
  <2>1. /\ Greenery(children) \in Seq(Greens) /\ i \in DOMAIN Greenery(children)
        /\ Greenery(children)[i] = children[i].green /\ children[i].green \in Greens
    <3>1. children \in Seq(Elements)
      BY <1>1 DEF StackType
    <3>2. /\ Greenery(children) \in Seq(Greens) /\ Len(Greenery(children)) = Len(children)
          /\ \A j \in 1 .. Len(children) : Greenery(children)[j] = children[j].green
      BY <3>1, GreeneryType
    <3> QED BY <3>1, <3>2
  <2>2. Times(children[i].green, Greenery(children)) > 0
    BY <2>1, TimesPositive
  <2> QED BY <1>4, <1>5, <2>1, <2>2 DEF Owned
<1>7. ASSUME NEW g \in Interned PROVE g \in Used(heap)
  <2>1. g \in Greens /\ One(g \in Interned) = 1
    BY <1>1 DEF StackType, Interned, One
  <2> QED BY <1>4, <1>5, <2>1 DEF Owned
<1>8. ASSUME tree # NoTree PROVE tree \in Used(heap)
  <2>1. tree \in Greens /\ One(tree = tree) = 1
    BY <1>1, <1>8 DEF DataType, One
  <2> QED BY <1>4, <1>5, <2>1 DEF Owned
<1> QED BY <1>3, <1>6, <1>7, <1>8

(* token pushes a token of this kind and text. *)
LEMMA TokenForms ==
  ASSUME NestedInv, OwnInv, NEW kind \in TokenKinds, NEW text, Token(kind, text)
  PROVE  \E g \in Greens :
           /\ children' = Push(children, g, TRUE)
           /\ heap'[g].kind = kind /\ heap'[g].len = text
           /\ \/ g \in tokens /\ Unchanging(heap, heap') /\ tokens' = tokens
              \/ /\ Makes(heap, heap', g) /\ heap'[g].kids = <<>>
                 /\ tokens' = tokens \cup {g} /\ SameToken(kind, text) = {}
<1>1. StackType /\ HeapType(heap)
  BY DEF NestedInv, OwnInv, DataType
<1>2. CASE ReuseToken(kind, text)
  <2>1. PICK g \in tokens : /\ heap' = ShareOne(heap, g) /\ children' = Push(children, g, TRUE)
                            /\ tokens' = tokens /\ heap[g].kind = kind /\ heap[g].len = text
    BY <1>2 DEF ReuseToken, SameToken
  <2>2. g \in Greens /\ heap[g].cnt > 0
    BY <1>1, <2>1, OwnedIsUsed DEF StackType, Interned, Used
  <2>3. Unchanging(heap, heap')
    BY <1>1, <2>1, <2>2 DEF ShareOne, Unchanging, Alike, HeapType, Free
  <2>4. heap'[g].kind = kind /\ heap'[g].len = text
    BY <2>1, <2>2, <2>3 DEF Unchanging, Alike
  <2> QED BY <2>1, <2>2, <2>3, <2>4
<1>3. CASE InternToken(kind, text)
  <2>1. PICK a \in NewGreen :
          /\ heap' = [heap EXCEPT ![a] = [kind |-> kind, kids |-> <<>>, len |-> text, cnt |-> 2]]
          /\ tokens' = tokens \cup {a} /\ children' = Push(children, a, TRUE)
    BY <1>3 DEF InternToken
  <2>2. a \in FreeGreens(heap) /\ a \in Greens /\ SameToken(kind, text) = {}
    BY <1>3, <2>1 DEF NewGreen, FreeGreens, InternToken
  <2>3. heap'[a].kind = kind /\ heap'[a].kids = <<>> /\ heap'[a].len = text
    BY <1>1, <2>1, <2>2 DEF HeapType
  <2>4. Makes(heap, heap', a)
    BY <1>1, <2>1, <2>2 DEF Makes, Alike, HeapType
  <2> QED BY <2>1, <2>2, <2>3, <2>4
<1> QED BY <1>2, <1>3 DEF Token

(* finish_node puts a node of the drained elements in their place. *)
LEMMA FinishNodeForms ==
  ASSUME NestedInv, OwnInv, FinishNode
  PROVE  \E n \in 0 .. Len(children), kind \in NodeKinds, r \in Seq(Elements), g \in Greens, hashed \in BOOLEAN :
           /\ parents # <<>> /\ n = Last(parents).first /\ kind = Last(parents).kind
           /\ r = SubSeq(children, n + 1, Len(children))
           /\ children' = Push(SubSeq(children, 1, n), g, hashed)
           /\ heap'[g].kind = kind /\ heap'[g].kids = Greenery(r)
           /\ \/ /\ g \in nodes /\ Unchanging(heap, heap') /\ nodes' = nodes
              \/ /\ Makes(heap, heap', g) /\ heap'[g].len = TextLen(heap, Greenery(r))
                 /\ \/ nodes' = nodes
                    \/ nodes' = nodes \cup {g} /\ SameNode(kind, Greenery(r)) = {}
<1>1. StackType /\ HeapType(heap) /\ children \in Seq(Elements) /\ parents \in Seq(Branches)
  BY DEF NestedInv, StackType, OwnInv, DataType
<1>2. parents # <<>> /\ Len(parents) \in DOMAIN parents /\ Last(parents) = parents[Len(parents)]
  BY <1>1 DEF FinishNode, Last
<1>3. PICK n \in 0 .. Len(children), kind \in NodeKinds, r \in Seq(Elements), b \in Seq(Elements) :
        /\ n = Last(parents).first /\ kind = Last(parents).kind
        /\ r = SubSeq(children, n + 1, Len(children)) /\ b = SubSeq(children, 1, n)
        /\ BuildUncached(kind, b, r) \/ Reuse(kind, b, r) \/ Intern(kind, b, r)
  <2>1. Last(parents).first \in Nat /\ Last(parents).first <= Len(children) /\ Len(children) \in Nat
    BY <1>1, <1>2, BranchFirst DEF NestedInv, Nested
  <2>2. Last(parents) \in Branches
    BY <1>1, <1>2
  <2>3. Last(parents).first \in 0 .. Len(children) /\ Last(parents).kind \in NodeKinds
    BY <2>1, <2>2 DEF Branches
  <2>4. /\ SubSeq(children, 1, Last(parents).first) \in Seq(Elements)
        /\ SubSeq(children, Last(parents).first + 1, Len(children)) \in Seq(Elements)
    BY <1>1, <2>3
  <2> QED BY <2>3, <2>4 DEF FinishNode
<1>4. ASSUME NEW a \in FreeGreens(heap), NEW q, q = NewNode(heap, a, kind, Greenery(r))
      PROVE  /\ q[a].kind = kind /\ q[a].kids = Greenery(r) /\ q[a].len = TextLen(heap, Greenery(r))
             /\ a \in Greens /\ Makes(heap, q, a) /\ DOMAIN q = Greens
             /\ DOMAIN q[a] = DOMAIN Free
  BY <1>1, <1>4 DEF NewNode, Makes, Alike, HeapType, FreeGreens, Free
<1>5. CASE BuildUncached(kind, b, r)
  <2>1. PICK a \in NewGreen : heap' = NewNode(heap, a, kind, Greenery(r)) /\ children' = Push(b, a, FALSE)
    BY <1>5 DEF BuildUncached
  <2>2. a \in FreeGreens(heap) /\ nodes' = nodes
    BY <1>5, <2>1 DEF NewGreen, BuildUncached
  <2> QED BY <1>2, <1>3, <1>4, <2>1, <2>2
<1>6. CASE Reuse(kind, b, r)
  <2>1. PICK g \in nodes : /\ heap' = ShareOne(heap, g) /\ children' = Push(b, g, Hashed(kind, r))
                           /\ heap[g].kind = kind /\ heap[g].kids = Greenery(r) /\ nodes' = nodes
    BY <1>6 DEF Reuse, SameNode
  <2>2. g \in Greens /\ Hashed(kind, r) \in BOOLEAN /\ heap[g].cnt > 0
    BY <1>1, <2>1, HashedType, OwnedIsUsed DEF StackType, Interned, Used
  <2>3. Unchanging(heap, heap')
    BY <1>1, <2>1, <2>2 DEF ShareOne, Unchanging, Alike, HeapType, Free
  <2>4. heap'[g].kind = kind /\ heap'[g].kids = Greenery(r)
    BY <2>1, <2>2, <2>3 DEF Unchanging, Alike
  <2> QED BY <1>2, <1>3, <2>1, <2>2, <2>3, <2>4
<1>7. CASE Intern(kind, b, r)
  <2>0. PICK a \in NewGreen :
          /\ heap' = ShareOne(NewNode(heap, a, kind, Greenery(r)), a)
          /\ children' = Push(b, a, Hashed(kind, r))
          /\ nodes' = nodes \cup {a} /\ SameNode(kind, Greenery(r)) = {}
    BY <1>7 DEF Intern
  <2>1. PICK q :
          /\ q = NewNode(heap, a, kind, Greenery(r))
          /\ heap' = ShareOne(q, a) /\ children' = Push(b, a, Hashed(kind, r))
          /\ nodes' = nodes \cup {a} /\ SameNode(kind, Greenery(r)) = {}
    BY <2>0
  <2>2. a \in FreeGreens(heap) /\ Hashed(kind, r) \in BOOLEAN
    BY <2>1, HashedType DEF NewGreen
  <2>3. /\ q[a].kind = kind /\ q[a].kids = Greenery(r) /\ q[a].len = TextLen(heap, Greenery(r))
        /\ a \in Greens /\ Makes(heap, q, a) /\ DOMAIN q = Greens /\ DOMAIN q[a] = DOMAIN Free
    BY <1>4, <2>1, <2>2
  <2>4. /\ heap'[a].kind = kind /\ heap'[a].kids = Greenery(r) /\ heap'[a].len = TextLen(heap, Greenery(r))
        /\ \A g \in Greens \ {a} : heap'[g] = q[g]
    BY <2>1, <2>3 DEF ShareOne, Free
  <2>5. Makes(heap, heap', a)
    BY <2>3, <2>4 DEF Makes, Alike
  <2> QED BY <1>2, <1>3, <2>1, <2>2, <2>3, <2>4, <2>5
<1> QED BY <1>3, <1>5, <1>6, <1>7

Frees(h, q, g) ==
  /\ q[g].kids = <<>> /\ q[g].cnt = 0
  /\ \A x \in Greens \ {g} : Alike(h, q, x)

(* A decrement frees at most one element, which is in no slot and not interned. *)
LEMMA DropForms ==
  ASSUME NestedInv, OwnInv, DropHere \/ DropElsewhere
  PROVE  /\ UNCHANGED <<nodes, tokens, parents, children, tree>>
         /\ \/ Unchanging(heap, heap')
            \/ \E g \in Greens \ Interned :
                 /\ Frees(heap, heap', g)
                 /\ g # tree /\ \A i \in DOMAIN children : children[i].green # g
                 /\ \A p \in Greens : \A i \in DOMAIN heap[p].kids : heap[p].kids[i] # g
<1>1. StackType /\ HeapType(heap) /\ drops \in Seq(Greens) /\ elsewhere \in Seq(Greens)
  BY DEF NestedInv, OwnInv, DataType
<1>2. PICK g \in Greens : heap' = DropGreen(heap, g) /\ Times(g, drops) + Times(g, elsewhere) >= 1
  <2>1. CASE DropHere
    <3>1. PICK g \in Greens : g = Head(drops) /\ Times(g, drops) = One(g = g) + Times(g, Tail(drops))
                              /\ Tail(drops) \in Seq(Greens)
      BY <1>1, <2>1, TimesHeadTail DEF DropHere
    <3>2. Times(g, Tail(drops)) \in Nat /\ Times(g, elsewhere) \in Nat /\ One(g = g) = 1
      BY <1>1, <3>1, TimesType DEF One
    <3> QED BY <2>1, <3>1, <3>2 DEF DropHere
  <2>2. CASE DropElsewhere
    <3>1. PICK g \in Greens : g = Head(elsewhere) /\ Times(g, elsewhere) = One(g = g) + Times(g, Tail(elsewhere))
                              /\ Tail(elsewhere) \in Seq(Greens)
      BY <1>1, <2>2, TimesHeadTail DEF DropElsewhere
    <3>2. Times(g, Tail(elsewhere)) \in Nat /\ Times(g, drops) \in Nat /\ One(g = g) = 1
      BY <1>1, <3>1, TimesType DEF One
    <3> QED BY <2>2, <3>1, <3>2 DEF DropElsewhere
  <2> QED BY <2>1, <2>2
<1>3. heap[g].cnt > 0 /\ (heap[g].cnt = 1 => g \notin Interned)
  BY <1>1, <1>2, DroppedIsOwned
<1>4. UNCHANGED <<nodes, tokens, parents, children, tree>>
  BY DEF DropHere, DropElsewhere
<1>5. CASE heap[g].cnt = 1
  <2>1. heap' = [heap EXCEPT ![g] = Free]
    BY <1>2, <1>5 DEF DropGreen
  <2>2. Frees(heap, heap', g)
    BY <1>1, <2>1 DEF Frees, Alike, HeapType, Free
  <2>3. /\ Times(g, Greenery(children)) \in Nat /\ Times(g, drops) \in Nat
        /\ Times(g, elsewhere) \in Nat /\ One(g \in Interned) \in Nat /\ One(g = tree) \in Nat
    BY <1>1, OwnedType DEF OwnInv
  <2>4. /\ Cardinality(SlotsOf(heap, g)) \in Nat
        /\ 1 = Owned(g) + Cardinality(SlotsOf(heap, g))
    BY <1>1, <1>5, ExcessType DEF OwnInv
  <2>5. Owned(g) \in Nat /\ Owned(g) >= 1 + One(g = tree) + Times(g, Greenery(children))
    BY <1>2, <2>3 DEF Owned
  <2>6. Cardinality(SlotsOf(heap, g)) = 0 /\ One(g = tree) = 0 /\ Times(g, Greenery(children)) = 0
    BY <2>3, <2>4, <2>5
  <2>7. ASSUME NEW p \in Greens, NEW i \in DOMAIN heap[p].kids, heap[p].kids[i] = g PROVE FALSE
    BY <1>1, <2>6, <2>7, SlotsPositive
  <2>8. ASSUME NEW i \in DOMAIN children, children[i].green = g PROVE FALSE
    <3>1. children \in Seq(Elements)
      BY <1>1 DEF StackType
    <3>2. /\ Greenery(children) \in Seq(Greens) /\ Len(Greenery(children)) = Len(children)
          /\ \A j \in 1 .. Len(children) : Greenery(children)[j] = children[j].green
      BY <3>1, GreeneryType
    <3>3. i \in DOMAIN Greenery(children) /\ Greenery(children)[i] = g
      BY <2>8, <3>1, <3>2
    <3> QED BY <2>6, <3>2, <3>3, TimesPositive
  <2>9. g # tree
    BY <2>6 DEF One
  <2> QED BY <1>3, <1>4, <1>5, <2>2, <2>7, <2>8, <2>9
<1>6. CASE heap[g].cnt # 1
  <2>1. heap' = [heap EXCEPT ![g].cnt = @ - 1]
    BY <1>2, <1>6 DEF DropGreen
  <2>2. Unchanging(heap, heap')
    BY <1>1, <1>3, <2>1 DEF Unchanging, Alike, HeapType, Free
  <2> QED BY <1>4, <2>2
<1> QED BY <1>5, <1>6

(* A new element is nobody's child, and a freed one has no children. *)
LEMMA StaysFounded ==
  ASSUME NEW h, NEW q, Founded(h), NEW a \in Greens,
         \A g \in Greens \ {a} : q[g].kids = h[g].kids,
         \/ q[a].kids = <<>> \/ q[a].kids = h[a].kids
         \/ \A g \in Greens : \A i \in DOMAIN q[g].kids : q[g].kids[i] # a
  PROVE  Founded(q)
<1> SUFFICES ASSUME NEW S \in SUBSET Greens, S # {}
             PROVE  \E g \in S : \A i \in DOMAIN q[g].kids : q[g].kids[i] \notin S
  BY DEF Founded
<1>1. CASE q[a].kids = <<>> \/ q[a].kids = h[a].kids
  <2>1. PICK g \in S : \A i \in DOMAIN h[g].kids : h[g].kids[i] \notin S
    BY DEF Founded
  <2> QED BY <1>1, <2>1
<1>2. CASE \A g \in Greens : \A i \in DOMAIN q[g].kids : q[g].kids[i] # a
  <2>1. CASE S \ {a} = {}
    BY <1>2, <2>1
  <2>2. CASE S \ {a} # {}
    <3>1. PICK g \in S \ {a} : \A i \in DOMAIN h[g].kids : h[g].kids[i] \notin S \ {a}
      BY <2>2 DEF Founded
    <3> QED BY <1>2, <3>1
  <2> QED BY <2>1, <2>2
<1> QED BY <1>1, <1>2

(***************************************************************************)
(* What makes trees out of the heap: no element is below itself, a node    *)
(* knows its length, and the tables hold no element twice.                 *)
(***************************************************************************)
Formed(h) ==
  \A g \in Used(h) :
    \/ h[g].kind \in TokenKinds /\ h[g].kids = <<>>
    \/ h[g].kind \in NodeKinds /\ h[g].len = TextLen(h, h[g].kids)

Distinct ==
  /\ \A g \in nodes : heap[g].kind \in NodeKinds
  /\ \A g \in tokens : heap[g].kind \in TokenKinds
  /\ \A g, k \in nodes : heap[g].kind = heap[k].kind /\ heap[g].kids = heap[k].kids => g = k
  /\ \A g, k \in tokens : heap[g].kind = heap[k].kind /\ heap[g].len = heap[k].len => g = k

ShapeInv == Founded(heap) /\ Formed(heap) /\ Distinct

(***************************************************************************)
(* Elements keep their form: a call changes none of those in use but the   *)
(* one it makes, which has the form of a token or of a node, or frees.     *)
(***************************************************************************)
LEMMA StaysFormed ==
  ASSUME NEW h, NEW q, Formed(h),
         \A g \in Greens : \A i \in DOMAIN h[g].kids : h[g].kids[i] \in Used(h),
         \/ Unchanging(h, q)
         \/ \E a \in Greens :
              /\ \A g \in Greens \ {a} : Alike(h, q, g)
              /\ \A g \in Greens : \A i \in DOMAIN h[g].kids : h[g].kids[i] # a
              /\ \/ a \notin Used(q)
                 \/ q[a].kind \in TokenKinds /\ q[a].kids = <<>>
                 \/ /\ q[a].kind \in NodeKinds /\ q[a].len = TextLen(h, q[a].kids)
                    /\ \A i \in DOMAIN q[a].kids : q[a].kids[i] \in Used(h) \ {a}
  PROVE  Formed(q)
<1> SUFFICES ASSUME NEW g \in Used(q)
             PROVE  \/ q[g].kind \in TokenKinds /\ q[g].kids = <<>>
                    \/ q[g].kind \in NodeKinds /\ q[g].len = TextLen(q, q[g].kids)
  BY DEF Formed
<1>1. ASSUME Alike(h, q, g), \A i \in DOMAIN h[g].kids : Alike(h, q, h[g].kids[i])
      PROVE  \/ q[g].kind \in TokenKinds /\ q[g].kids = <<>>
             \/ q[g].kind \in NodeKinds /\ q[g].len = TextLen(q, q[g].kids)
  <2>1. g \in Used(h)
    BY <1>1 DEF Used, Alike
  <2>2. TextLen(q, h[g].kids) = TextLen(h, h[g].kids)
    BY <1>1, TextLenKept DEF Alike
  <2> QED BY <1>1, <2>1, <2>2 DEF Alike, Formed
<1>2. CASE Unchanging(h, q)
  BY <1>1, <1>2 DEF Unchanging, Used
<1>3. ASSUME NEW a \in Greens,
             \A k \in Greens \ {a} : Alike(h, q, k),
             \A k \in Greens : \A i \in DOMAIN h[k].kids : h[k].kids[i] # a,
             \/ a \notin Used(q)
             \/ q[a].kind \in TokenKinds /\ q[a].kids = <<>>
             \/ /\ q[a].kind \in NodeKinds /\ q[a].len = TextLen(h, q[a].kids)
                /\ \A i \in DOMAIN q[a].kids : q[a].kids[i] \in Used(h) \ {a}
      PROVE  \/ q[g].kind \in TokenKinds /\ q[g].kids = <<>>
             \/ q[g].kind \in NodeKinds /\ q[g].len = TextLen(q, q[g].kids)
  <2>1. CASE g = a
    <3>1. CASE \A i \in DOMAIN q[a].kids : q[a].kids[i] \in Used(h) \ {a}
      <4>1. TextLen(q, q[a].kids) = TextLen(h, q[a].kids)
        BY <1>3, <3>1, TextLenKept DEF Alike, Used
      <4> QED BY <1>3, <2>1, <3>1, <4>1
    <3> QED BY <1>3, <2>1, <3>1
  <2>2. CASE g # a
    BY <1>1, <1>3, <2>2 DEF Used
  <2> QED BY <2>1, <2>2
<1> QED BY <1>2, <1>3

(* The tables after a step in which interned elements stay what they are. *)
LEMMA StaysDistinct ==
  ASSUME Distinct, NEW g,
         \A x \in Interned : heap'[x].kind = heap[x].kind /\ heap'[x].kids = heap[x].kids
                             /\ heap'[x].len = heap[x].len,
         \/ nodes' \subseteq nodes
         \/ /\ nodes' = nodes \cup {g} /\ heap'[g].kind \in NodeKinds
            /\ \A x \in nodes : ~ (heap[x].kind = heap'[g].kind /\ heap[x].kids = heap'[g].kids),
         \/ tokens' \subseteq tokens
         \/ /\ tokens' = tokens \cup {g} /\ heap'[g].kind \in TokenKinds
            /\ \A x \in tokens : ~ (heap[x].kind = heap'[g].kind /\ heap[x].len = heap'[g].len)
  PROVE  Distinct'
<1>1. PICK q : q = heap'
  OBVIOUS
<1>2. \A x \in nodes' : x \in nodes \/ x = g
  OBVIOUS
<1>3. \A x \in tokens' : x \in tokens \/ x = g
  OBVIOUS
<1>4. \A x \in nodes : q[x].kind = heap[x].kind /\ q[x].kids = heap[x].kids
  BY <1>1 DEF Interned
<1>5. \A x \in tokens : q[x].kind = heap[x].kind /\ q[x].len = heap[x].len
  BY <1>1 DEF Interned
<1>6. /\ \A x \in nodes' : q[x].kind \in NodeKinds
      /\ \A x \in tokens' : q[x].kind \in TokenKinds
  BY <1>1, <1>2, <1>3, <1>4, <1>5 DEF Distinct
<1>7. ASSUME NEW x \in nodes', NEW y \in nodes', q[x].kind = q[y].kind, q[x].kids = q[y].kids
      PROVE  x = y
  BY <1>1, <1>4, <1>7 DEF Distinct
<1>8. ASSUME NEW x \in tokens', NEW y \in tokens', q[x].kind = q[y].kind, q[x].len = q[y].len
      PROVE  x = y
  BY <1>1, <1>5, <1>8 DEF Distinct
<1> QED BY <1>1, <1>6, <1>7, <1>8 DEF Distinct

(* What makes trees of the heap is kept by every step. *)
LEMMA ShapeStep ==
  ASSUME NestedInv, OwnInv, ShapeInv, [Next]_vars
  PROVE  ShapeInv'
<1>1. PICK q : q = heap'
  OBVIOUS
<1>2. /\ \A g \in Greens : \A i \in DOMAIN heap[g].kids : heap[g].kids[i] \in Used(heap)
      /\ \A i \in DOMAIN children : children[i].green \in Used(heap)
      /\ Interned \subseteq Used(heap)
  BY OwnedIsUsed
<1>3. Founded(heap) /\ Formed(heap) /\ Distinct
  BY DEF ShapeInv
<1>4. ASSUME heap' = heap, nodes' \subseteq nodes, tokens' \subseteq tokens PROVE ShapeInv'
  <2>1. Distinct'
    BY <1>3, <1>4, StaysDistinct
  <2> QED BY <1>3, <1>4, <2>1 DEF ShapeInv
<1>5. ASSUME Unchanging(heap, q) PROVE Founded(q) /\ Formed(q)
  <2>1. Formed(q)
    BY <1>2, <1>3, <1>5, StaysFormed
  <2>2. Founded(q)
    BY <1>3, <1>5 DEF Founded, Unchanging, Alike
  <2> QED BY <2>1, <2>2
<1>6. ASSUME NEW a \in Greens, Makes(heap, q, a)
      PROVE  /\ a \notin Used(heap) /\ a \notin Interned
             /\ \A g \in Greens : \A i \in DOMAIN heap[g].kids : heap[g].kids[i] # a
  BY <1>2, <1>6 DEF Makes, FreeGreens, Used
<1>7. ASSUME NEW kind \in TokenKinds, NEW text, Token(kind, text) PROVE ShapeInv'
  <2>1. nodes' = nodes
    BY <1>7 DEF Token
  <2>2. PICK g \in Greens :
           /\ q[g].kind = kind /\ q[g].len = text
           /\ \/ g \in tokens /\ Unchanging(heap, q) /\ tokens' = tokens
              \/ /\ Makes(heap, q, g) /\ q[g].kids = <<>>
                 /\ tokens' = tokens \cup {g} /\ SameToken(kind, text) = {}
    <3>1. \E g \in Greens :
           /\ children' = Push(children, g, TRUE)
           /\ heap'[g].kind = kind /\ heap'[g].len = text
           /\ \/ g \in tokens /\ Unchanging(heap, heap') /\ tokens' = tokens
              \/ /\ Makes(heap, heap', g) /\ heap'[g].kids = <<>>
                 /\ tokens' = tokens \cup {g} /\ SameToken(kind, text) = {}
      BY <1>7, TokenForms
    <3> QED BY <1>1, <3>1
  <2>3. CASE Unchanging(heap, q) /\ tokens' = tokens
    <3>1. Distinct'
      <4>1. \A x \in Interned : x \in Greens
        BY DEF Interned, NestedInv, StackType
      <4> QED BY <1>1, <1>3, <2>1, <2>3, <4>1, StaysDistinct DEF Unchanging, Alike
    <3> QED BY <1>1, <1>5, <2>3, <3>1 DEF ShapeInv
  <2>4. CASE /\ Makes(heap, q, g) /\ q[g].kids = <<>>
             /\ tokens' = tokens \cup {g} /\ SameToken(kind, text) = {}
    <3>1. /\ g \notin Interned /\ \A x \in Greens \ {g} : Alike(heap, q, x)
          /\ \A x \in Greens : \A i \in DOMAIN heap[x].kids : heap[x].kids[i] # g
      BY <1>6, <2>4 DEF Makes
    <3>2. Formed(q)
      BY <1>2, <1>3, <2>2, <2>4, <3>1, StaysFormed
    <3>3. Founded(q)
      BY <1>3, <2>4, <3>1, StaysFounded DEF Alike
    <3>4. Distinct'
      <4>1. \A x \in Interned : x \in Greens \ {g}
        BY <3>1 DEF Interned, NestedInv, StackType
      <4>2. \A x \in tokens : ~ (heap[x].kind = q[g].kind /\ heap[x].len = q[g].len)
        BY <2>2, <2>4 DEF SameToken
      <4> QED BY <1>1, <1>3, <2>1, <2>2, <2>4, <3>1, <4>1, <4>2, StaysDistinct DEF Alike
    <3> QED BY <1>1, <3>2, <3>3, <3>4 DEF ShapeInv
  <2> QED BY <2>2, <2>3, <2>4
<1>8. ASSUME FinishNode PROVE ShapeInv'
  <2>1. tokens' = tokens
    BY <1>8 DEF FinishNode
  <2>2. PICK n \in 0 .. Len(children), kind \in NodeKinds, r \in Seq(Elements), g \in Greens :
           /\ r = SubSeq(children, n + 1, Len(children))
           /\ q[g].kind = kind /\ q[g].kids = Greenery(r)
           /\ \/ /\ g \in nodes /\ Unchanging(heap, q) /\ nodes' = nodes
              \/ /\ Makes(heap, q, g) /\ q[g].len = TextLen(heap, Greenery(r))
                 /\ \/ nodes' = nodes
                    \/ nodes' = nodes \cup {g} /\ SameNode(kind, Greenery(r)) = {}
    BY <1>1, <1>8, FinishNodeForms
  <2>3. CASE Unchanging(heap, q) /\ nodes' = nodes
    <3>1. Distinct'
      <4>1. \A x \in Interned : x \in Greens
        BY DEF Interned, NestedInv, StackType
      <4> QED BY <1>1, <1>3, <2>1, <2>3, <4>1, StaysDistinct DEF Unchanging, Alike
    <3> QED BY <1>1, <1>5, <2>3, <3>1 DEF ShapeInv
  <2>4. CASE /\ Makes(heap, q, g) /\ q[g].len = TextLen(heap, Greenery(r))
             /\ \/ nodes' = nodes
                \/ nodes' = nodes \cup {g} /\ SameNode(kind, Greenery(r)) = {}
    <3>1. /\ g \notin Interned /\ \A x \in Greens \ {g} : Alike(heap, q, x) /\ g \notin Used(heap)
          /\ \A x \in Greens : \A i \in DOMAIN heap[x].kids : heap[x].kids[i] # g
      BY <1>6, <2>4 DEF Makes
    <3>2. \A i \in DOMAIN q[g].kids : q[g].kids[i] \in Used(heap) \ {g}
      <4>1. children \in Seq(Elements)
        BY DEF NestedInv, StackType
      <4>2. ASSUME NEW i \in DOMAIN r PROVE r[i].green \in Used(heap)
        <5>1. i + n \in DOMAIN children /\ r[i] = children[i + n]
          BY <2>2, <4>1
        <5> QED BY <1>2, <5>1
      <4>3. DOMAIN Greenery(r) = DOMAIN r /\ \A i \in DOMAIN r : Greenery(r)[i] = r[i].green
        BY DEF Greenery
      <4>4. g \notin Used(heap)
        BY <1>6, <2>4
      <4> QED BY <2>2, <4>2, <4>3, <4>4
    <3>3. Formed(q)
      BY <1>2, <1>3, <2>2, <2>4, <3>1, <3>2, StaysFormed
    <3>4. Founded(q)
      <4>1. \A x \in Greens : \A i \in DOMAIN q[x].kids : q[x].kids[i] # g
        <5>1. ASSUME NEW x \in Greens PROVE \A i \in DOMAIN q[x].kids : q[x].kids[i] # g
          <6>1. CASE x = g
            BY <3>2, <6>1
          <6>2. CASE x # g
            BY <3>1, <6>2 DEF Alike
          <6> QED BY <6>1, <6>2
        <5> QED BY <5>1
      <4> QED BY <1>3, <3>1, <4>1, StaysFounded DEF Alike
    <3>5. Distinct'
      <4>1. \A x \in Interned : x \in Greens \ {g}
        BY <3>1 DEF Interned, NestedInv, StackType
      <4>2. nodes' \subseteq nodes \/
              (nodes' = nodes \cup {g} /\ \A x \in nodes : ~ (heap[x].kind = q[g].kind /\ heap[x].kids = q[g].kids))
        BY <2>2, <2>4 DEF SameNode
      <4> QED BY <1>1, <1>3, <2>1, <2>2, <3>1, <4>1, <4>2, StaysDistinct DEF Alike
    <3> QED BY <1>1, <3>3, <3>4, <3>5 DEF ShapeInv
  <2> QED BY <2>2, <2>3, <2>4
<1>9. ASSUME DropHere \/ DropElsewhere PROVE ShapeInv'
  <2>1. nodes' = nodes /\ tokens' = tokens
    BY <1>9, DropForms
  <2>2. CASE Unchanging(heap, q)
    <3>1. Distinct'
      <4>1. \A x \in Interned : x \in Greens
        BY DEF Interned, NestedInv, StackType
      <4> QED BY <1>1, <1>3, <2>1, <2>2, <4>1, StaysDistinct DEF Unchanging, Alike
    <3> QED BY <1>1, <1>5, <2>2, <3>1 DEF ShapeInv
  <2>3. ASSUME NEW g \in Greens \ Interned, Frees(heap, q, g),
               \A p \in Greens : \A i \in DOMAIN heap[p].kids : heap[p].kids[i] # g
        PROVE  ShapeInv'
    <3>1. Formed(q)
      <4>1. g \notin Used(q) /\ \A x \in Greens \ {g} : Alike(heap, q, x)
        BY <2>3 DEF Frees, Used
      <4> QED BY <1>2, <1>3, <2>3, <4>1, StaysFormed
    <3>2. Founded(q)
      BY <1>3, <2>3, StaysFounded DEF Frees, Alike
    <3>3. Distinct'
      <4>1. \A x \in Interned : x \in Greens \ {g}
        BY <2>3 DEF Interned, NestedInv, StackType
      <4> QED BY <1>1, <1>3, <2>1, <2>3, <4>1, StaysDistinct DEF Frees, Alike
    <3> QED BY <1>1, <3>1, <3>2, <3>3 DEF ShapeInv
  <2> QED BY <1>1, <1>9, <2>2, <2>3, DropForms
<1>10. ASSUME NEW kind, NEW first, Open(kind, first) PROVE ShapeInv'
  BY <1>4, <1>10 DEF Open
<1>11. CASE Finish
  BY <1>4, <1>11 DEF Finish
<1>12. CASE Abandon
  BY <1>4, <1>12 DEF Abandon
<1>13. CASE DropCache
  BY <1>4, <1>13 DEF DropCache
<1>14. CASE DropTree
  BY <1>4, <1>14 DEF DropTree
<1>15. CASE UNCHANGED vars
  BY <1>4, <1>15 DEF vars
<1> QED BY <1>7, <1>8, <1>9, <1>10, <1>11, <1>12, <1>13, <1>14, <1>15 DEF Next, StartNode, StartNodeAt

(* Founded, formed and distinct, at all times. *)
LEMMA ShapeInvHolds == Spec => []ShapeInv
<1>1. Init => ShapeInv
  <2> SUFFICES ASSUME Init PROVE ShapeInv
    OBVIOUS
  <2>1. \A g \in Greens : heap[g].kids = <<>> /\ heap[g].cnt = 0
    BY DEF Init, Free
  <2>2. Founded(heap) /\ Formed(heap)
    BY <2>1 DEF Founded, Formed, Used
  <2> QED BY <2>2 DEF Init, ShapeInv, Distinct
<1>2. NestedInv /\ OwnInv /\ ShapeInv /\ [Next]_vars => ShapeInv'
  BY ShapeStep
<1> QED BY <1>1, <1>2, NestedInvHolds, OwnInvHolds, PTL DEF Spec

(***************************************************************************)
(* Two interned elements with equal trees are one element: the cache never *)
(* holds a subtree twice, which the comparison of children by address in   *)
(* NodeCache::node relies on (node_cache.rs).  The smallest tree with two  *)
(* addresses would have children that are the same addresses, and be found *)
(* by the lookup instead of being made again.                              *)
(***************************************************************************)
THEOREM EqualTreesAreOne == Spec => []EqualIsSame
<1>1. NestedInv /\ OwnInv /\ ShapeInv => EqualIsSame
  <2> SUFFICES ASSUME NestedInv, OwnInv, ShapeInv PROVE EqualIsSame
    OBVIOUS
  <2>1. ShapeEq
    BY ShapeIsShape DEF OwnInv, DataType, ShapeInv
  <2>2. Interned \subseteq Greens /\ HeapType(heap) /\ ChildrenInterned
    BY DEF NestedInv, StackType, OwnInv, DataType, Interned
  <2> DEFINE Bad == {g \in Interned : \E k \in Interned : Shape[g] = Shape[k] /\ g # k}
  <2>3. Bad = {}
    <3> SUFFICES ASSUME Bad # {} PROVE FALSE
      OBVIOUS
    <3>1. PICK g \in Bad : \A i \in DOMAIN heap[g].kids : heap[g].kids[i] \notin Bad
      BY <2>2 DEF ShapeInv, Founded
    <3>2. PICK k \in Interned : Shape[g] = Shape[k] /\ g # k
      OBVIOUS
    <3>3. /\ heap[g].kind = heap[k].kind /\ heap[g].len = heap[k].len
          /\ DOMAIN heap[g].kids = DOMAIN heap[k].kids
          /\ \A i \in DOMAIN heap[g].kids : Shape[heap[g].kids[i]] = Shape[heap[k].kids[i]]
      <4> DEFINE S(x) == [kind |-> heap[x].kind, len |-> heap[x].len,
                          kids |-> [i \in DOMAIN heap[x].kids |-> Shape[heap[x].kids[i]]]]
      <4>1. S(g) = S(k)
        BY <2>1, <2>2, <3>2 DEF ShapeEq, ShapeOf
      <4>2. S(g).kids = S(k).kids
        BY <4>1
      <4>3. [i \in DOMAIN heap[g].kids |-> Shape[heap[g].kids[i]]] = [i \in DOMAIN heap[k].kids |-> Shape[heap[k].kids[i]]]
        BY <4>2
      <4>4. DOMAIN heap[g].kids = DOMAIN heap[k].kids
        BY <4>3
      <4> QED BY <4>1, <4>3, <4>4
    <3>4. CASE g \in tokens /\ k \in tokens
      BY <3>2, <3>3, <3>4 DEF ShapeInv, Distinct
    <3>5. CASE g \in nodes /\ k \in nodes
      <4>1. ASSUME NEW i \in DOMAIN heap[g].kids PROVE heap[g].kids[i] = heap[k].kids[i]
        <5>1. heap[g].kids[i] \in Interned /\ heap[k].kids[i] \in Interned
          BY <2>2, <3>3, <3>5 DEF ChildrenInterned, Range
        <5>2. heap[g].kids[i] \notin Bad
          BY <3>1
        <5> QED BY <3>3, <5>1, <5>2
      <4>2. heap[g].kids = heap[k].kids
        <5>1. heap[g].kids \in Seq(Greens) /\ heap[k].kids \in Seq(Greens)
          BY <2>2, <3>5 DEF HeapType, Interned
        <5>2. Len(heap[g].kids) = Len(heap[k].kids)
          BY <3>3, <5>1
        <5> QED BY <3>3, <4>1, <5>1, <5>2, SeqEqual
      <4> QED BY <3>2, <3>3, <3>5, <4>2 DEF ShapeInv, Distinct
    <3>6. ~ (g \in nodes /\ k \in tokens) /\ ~ (g \in tokens /\ k \in nodes)
      BY <3>3, KindsAssumption DEF ShapeInv, Distinct
    <3> QED BY <3>4, <3>5, <3>6 DEF Interned
  <2> QED BY <2>3 DEF EqualIsSame
<1> QED BY <1>1, NestedInvHolds, OwnInvHolds, ShapeInvHolds, PTL

-----------------------------------------------------------------------------
(***************************************************************************)
(* The builder implements the plain one.  The trees of the elements are kept *)
(* by every step, and what a call does to the stack it does to the trees.  *)
(***************************************************************************)

(***************************************************************************)
(* The length of a plain node is that of the node in the heap: both are    *)
(* folds over the children, whose steps are the same.                      *)
(***************************************************************************)
LEMMA SumsAgree ==
  ASSUME NEW h, NEW t, NEW kids \in Seq(Greens), DOMAIN t = DOMAIN kids,
         \A i \in DOMAIN kids : t[i].len = h[kids[i]].len
  PROVE  Plain!LenOf(t) = TextLen(h, kids)
<1> DEFINE D == DOMAIN kids
           lens == Lens(h, kids)
           A(it) == [s \in SUBSET D |-> IF s = {} THEN 0 ELSE it[s \ {Max(s)}] + t[Max(s)].len]
           B(it) == [s \in SUBSET D |-> IF s = {} THEN 0 ELSE it[s \ {Max(s)}] + lens[Max(s)]]
           ItA == CHOOSE it : it = A(it)
           ItB == CHOOSE it : it = B(it)
<1>1. DOMAIN lens = D /\ \A i \in D : lens[i] = t[i].len
  BY DEF Lens
<1>2. IsFiniteSet(D) /\ D \subseteq Nat
  <2>1. Len(kids) \in Nat /\ D = 1 .. Len(kids)
    OBVIOUS
  <2> QED BY <2>1, FS_Interval
<1>3. Plain!LenOf(t) = ItA[D]
  BY DEF Plain!LenOf, Plain!FoldLeft, Plain!MapThenFoldSet, Plain!Max, Max
<1>4. TextLen(h, kids) = ItB[D]
  <2>1. TextLen(h, kids) = FoldLeft(LAMBDA sum, len : sum + len, 0, lens)
    BY DEF TextLen
  <2> HIDE DEF lens
  <2> QED BY <1>1, <2>1 DEF FoldLeft, MapThenFoldSet
<1>5. ASSUME NEW s \in SUBSET D, s # {} PROVE Max(s) \in D
  <2>1. s \subseteq Nat /\ IsFiniteSet(s)
    BY <1>2, FS_Subset
  <2>2. Max(s) \in s
    BY <1>5, <2>1, MaxMember
  <2> QED BY <2>2
<1>6. \A it : A(it) = B(it)
  <2> HIDE DEF lens
  <2> QED BY <1>1, <1>5
<1>7. ItA = ItB
  <2> HIDE DEF A, B
  <2> QED BY <1>6
<1> QED BY <1>3, <1>4, <1>7

(***************************************************************************)
(* The trees of two heaps, s and t, at elements both have in common.       *)
(***************************************************************************)
LEMMA ShapesKept ==
  ASSUME NEW h, NEW q, NEW s, NEW t, HeapType(h), Founded(h), ShapeOf(h, s), ShapeOf(q, t),
         NEW K \in SUBSET Greens,
         \A g \in K : Alike(h, q, g) /\ \A i \in DOMAIN h[g].kids : h[g].kids[i] \in K
  PROVE  \A g \in K : t[g] = s[g]
<1> DEFINE Bad == {g \in K : t[g] # s[g]}
<1>1. Bad = {}
  <2> SUFFICES ASSUME Bad # {} PROVE FALSE
    OBVIOUS
  <2>1. PICK g \in Bad : \A i \in DOMAIN h[g].kids : h[g].kids[i] \notin Bad
    BY DEF Founded
  <2>2. \A i \in DOMAIN h[g].kids : t[h[g].kids[i]] = s[h[g].kids[i]]
    BY <2>1
  <2>3. t[g] = [kind |-> h[g].kind, len |-> h[g].len,
                kids |-> [i \in DOMAIN h[g].kids |-> t[h[g].kids[i]]]]
    BY DEF ShapeOf, Alike
  <2>4. s[g] = [kind |-> h[g].kind, len |-> h[g].len,
                kids |-> [i \in DOMAIN h[g].kids |-> s[h[g].kids[i]]]]
    BY DEF ShapeOf
  <2>5. t[g] = s[g]
    BY <2>2, <2>3, <2>4
  <2> QED BY <2>1, <2>5
<1> QED BY <1>1

(* The plain trees of a stack, with s for the trees at the addresses. *)
TreesOf(s, stack) == [i \in DOMAIN stack |-> s[stack[i].green]]

(* The trees of a stack are a sequence, as long as the stack. *)
LEMMA TreesType ==
  ASSUME NEW s, NEW T, \A g \in Greens : s[g] \in T, NEW stack \in Seq(Elements)
  PROVE  /\ TreesOf(s, stack) \in Seq(T)
         /\ Len(TreesOf(s, stack)) = Len(stack)
         /\ \A i \in 1 .. Len(stack) : TreesOf(s, stack)[i] = s[stack[i].green]
<1>1. Len(stack) \in Nat /\ DOMAIN stack = 1 .. Len(stack)
  OBVIOUS
<1>2. ASSUME NEW i \in 1 .. Len(stack) PROVE s[stack[i].green] \in T
  <2>1. stack[i] \in Elements
    BY <1>1
  <2> QED BY <2>1 DEF Elements
<1>3. TreesOf(s, stack) = [i \in 1 .. Len(stack) |-> s[stack[i].green]]
  BY <1>1 DEF TreesOf
<1>4. TreesOf(s, stack) \in Seq(T) /\ Len(TreesOf(s, stack)) = Len(stack)
  BY <1>1, <1>2, <1>3
<1> QED BY <1>3, <1>4

(* Pushing an element pushes its tree. *)
LEMMA TreesPush ==
  ASSUME NEW s, NEW stack \in Seq(Elements), NEW g \in Greens, NEW hashed \in BOOLEAN
  PROVE  TreesOf(s, Push(stack, g, hashed)) = Append(TreesOf(s, stack), s[g])
<1> DEFINE e == [green |-> g, hashed |-> hashed]
<1>0. PICK T : T = {s[k] : k \in Greens}
  OBVIOUS
<1>00. \A k \in Greens : s[k] \in T
  BY <1>0
<1>1. e \in Elements /\ e.green = g
  BY DEF Elements
<1> HIDE DEF e
<1>2. PICK p : p = Append(stack, e)
  OBVIOUS
<1>3. /\ p \in Seq(Elements) /\ Len(p) = Len(stack) + 1 /\ p[Len(stack) + 1] = e
      /\ \A i \in 1 .. Len(stack) : p[i] = stack[i]
  BY <1>1, <1>2, AppendProperties
<1>4. PICK u : u = TreesOf(s, stack)
  OBVIOUS
<1>5. /\ u \in Seq(T) /\ Len(u) = Len(stack) /\ \A i \in 1 .. Len(stack) : u[i] = s[stack[i].green]
  BY <1>00, <1>4, TreesType
<1>6. s[g] \in T
  BY <1>0
<1>7. PICK v : v = TreesOf(s, p)
  OBVIOUS
<1>8. /\ v \in Seq(T) /\ Len(v) = Len(stack) + 1 /\ \A i \in 1 .. Len(stack) + 1 : v[i] = s[p[i].green]
  <2>1. p \in Seq(Elements)
    BY <1>3
  <2>2. v \in Seq(T) /\ Len(v) = Len(p) /\ \A i \in 1 .. Len(p) : v[i] = s[p[i].green]
    BY <1>00, <1>7, <2>1, TreesType
  <2> QED BY <1>3, <2>2
<1>9. PICK w : w = Append(u, s[g])
  OBVIOUS
<1>10. /\ w \in Seq(T) /\ Len(w) = Len(stack) + 1 /\ w[Len(stack) + 1] = s[g]
       /\ \A i \in 1 .. Len(stack) : w[i] = u[i]
  BY <1>5, <1>6, <1>9, AppendProperties
<1>11. Len(stack) \in Nat
  OBVIOUS
<1>12. ASSUME NEW i \in 1 .. Len(stack) + 1 PROVE v[i] = w[i]
  <2>1. CASE i = Len(stack) + 1
    BY <1>1, <1>3, <1>8, <1>10, <1>11, <2>1
  <2>2. CASE i \in 1 .. Len(stack)
    BY <1>3, <1>5, <1>8, <1>10, <1>11, <2>2
  <2> QED BY <1>11, <2>1, <2>2
<1>13. v = w
  BY <1>8, <1>10, <1>12, SeqEqual
<1> QED BY <1>2, <1>4, <1>7, <1>9, <1>13 DEF Push, e

(* The trees of a part of the stack are that part of the trees. *)
LEMMA TreesPart ==
  ASSUME NEW s, NEW stack \in Seq(Elements), NEW m \in 1 .. Len(stack) + 1, NEW n \in 0 .. Len(stack)
  PROVE  TreesOf(s, SubSeq(stack, m, n)) = SubSeq(TreesOf(s, stack), m, n)
<1>0. PICK T : T = {s[k] : k \in Greens}
  OBVIOUS
<1>00. \A k \in Greens : s[k] \in T
  BY <1>0
<1>1. PICK p : p = SubSeq(stack, m, n)
  OBVIOUS
<1>2. Len(stack) \in Nat /\ m \in Nat /\ n \in Nat
  OBVIOUS
<1>3. /\ p \in Seq(Elements) /\ Len(p) = (IF m <= n THEN n - m + 1 ELSE 0)
      /\ \A i \in 1 .. Len(p) : p[i] = stack[m + i - 1]
  BY <1>1, <1>2
<1>4. PICK u : u = TreesOf(s, stack)
  OBVIOUS
<1>5. /\ u \in Seq(T) /\ Len(u) = Len(stack) /\ \A i \in 1 .. Len(stack) : u[i] = s[stack[i].green]
  BY <1>00, <1>4, TreesType
<1>6. PICK v : v = TreesOf(s, p)
  OBVIOUS
<1>7. v \in Seq(T) /\ Len(v) = Len(p) /\ \A i \in 1 .. Len(p) : v[i] = s[p[i].green]
  BY <1>00, <1>3, <1>6, TreesType
<1>8. PICK w : w = SubSeq(u, m, n)
  OBVIOUS
<1>9. /\ w \in Seq(T) /\ Len(w) = (IF m <= n THEN n - m + 1 ELSE 0)
      /\ \A i \in 1 .. Len(w) : w[i] = u[m + i - 1]
  BY <1>2, <1>5, <1>8
<1>10. ASSUME NEW i \in 1 .. Len(p) PROVE v[i] = w[i]
  <2>1. m + i - 1 \in 1 .. Len(stack) /\ i \in 1 .. Len(w)
    BY <1>2, <1>3, <1>9
  <2> QED BY <1>3, <1>5, <1>7, <1>9, <2>1
<1>11. v = w
  BY <1>3, <1>7, <1>9, <1>10, SeqEqual
<1> QED BY <1>1, <1>4, <1>6, <1>8, <1>11

(* A step that changes one element, which is no child, keeps all other trees. *)
LEMMA TreesStay ==
  ASSUME HeapType(heap), Founded(heap), ShapeEq, NEW q, NEW t, ShapeOf(q, t)
  PROVE  /\ Unchanging(heap, q) => \A x \in Greens : t[x] = Shape[x]
         /\ \A a \in Greens :
              /\ \A x \in Greens \ {a} : Alike(heap, q, x)
              /\ \A p \in Greens : \A i \in DOMAIN heap[p].kids : heap[p].kids[i] # a
              => \A x \in Greens \ {a} : t[x] = Shape[x]
<1>1. \A g \in Greens : \A i \in DOMAIN heap[g].kids : heap[g].kids[i] \in Greens
  BY DEF HeapType
<1>2. PICK h, s : h = heap /\ s = Shape
  OBVIOUS
<1>3. HeapType(h) /\ Founded(h) /\ ShapeOf(h, s)
  BY <1>2 DEF ShapeEq
<1>4. ASSUME NEW K \in SUBSET Greens,
             \A g \in K : Alike(h, q, g) /\ \A i \in DOMAIN h[g].kids : h[g].kids[i] \in K
      PROVE  \A g \in K : t[g] = s[g]
  BY <1>3, <1>4, ShapesKept
<1>5. ASSUME Unchanging(heap, q) PROVE \A x \in Greens : t[x] = Shape[x]
  BY <1>1, <1>2, <1>4, <1>5 DEF Unchanging
<1>6. ASSUME NEW a \in Greens, \A x \in Greens \ {a} : Alike(heap, q, x),
             \A p \in Greens : \A i \in DOMAIN heap[p].kids : heap[p].kids[i] # a
      PROVE  \A x \in Greens \ {a} : t[x] = Shape[x]
  <2>1. PICK K \in SUBSET Greens : K = Greens \ {a}
    OBVIOUS
  <2>2. \A g \in K : Alike(h, q, g) /\ \A i \in DOMAIN h[g].kids : h[g].kids[i] \in K
    BY <1>1, <1>2, <1>6, <2>1
  <2> QED BY <1>2, <1>4, <2>1, <2>2
<1> QED BY <1>5, <1>6

(* The result of a builder as a plain tree. *)
ResultOf(s, result) == IF result = NoTree THEN NoTree ELSE s[result]

(* A stack whose elements have the same trees in both heaps. *)
LEMMA TreesSame ==
  ASSUME NEW s, NEW t, NEW stack, \A i \in DOMAIN stack : t[stack[i].green] = s[stack[i].green]
  PROVE  TreesOf(t, stack) = TreesOf(s, stack)
BY DEF TreesOf

(* The empty stack has no trees. *)
LEMMA EmptyTrees ==
  ASSUME NEW t PROVE TreesOf(t, <<>>) = <<>>
<1>1. PICK u, e : u = TreesOf(t, e) /\ e = <<>>
  OBVIOUS
<1>2. DOMAIN e = {} /\ u = [i \in DOMAIN e |-> t[e[i].green]]
  BY <1>1 DEF TreesOf
<1>3. u = [i \in 1 .. 0 |-> t[e[i].green]]
  BY <1>2
<1>4. u \in Seq({0}) /\ Len(u) = 0
  BY <1>3
<1> QED BY <1>1, <1>4

(* The trees of a step that makes at most one element: as before, but for the new one. *)
LEMMA TreesAfter ==
  ASSUME NestedInv, OwnInv, ShapeInv, ShapeEq, NEW q, NEW t, ShapeOf(q, t),
         NEW a \in Greens, Unchanging(heap, q) \/ Makes(heap, q, a)
  PROVE  \A x \in Used(heap) : t[x] = Shape[x]
<1>1. /\ HeapType(heap) /\ Founded(heap)
      /\ \A g \in Greens : \A i \in DOMAIN heap[g].kids : heap[g].kids[i] \in Used(heap)
  BY OwnedIsUsed DEF OwnInv, DataType, ShapeInv
<1>2. CASE Unchanging(heap, q)
  BY <1>1, <1>2, TreesStay DEF Used
<1>3. CASE Makes(heap, q, a)
  <2>1. a \notin Used(heap)
    BY <1>3 DEF Makes, FreeGreens, Used
  <2>2. \A p \in Greens : \A i \in DOMAIN heap[p].kids : heap[p].kids[i] # a
    BY <1>1, <2>1
  <2>3. \A x \in Greens \ {a} : t[x] = Shape[x]
    BY <1>1, <1>3, <2>2, TreesStay DEF Makes
  <2> QED BY <2>1, <2>3 DEF Used
<1> QED BY <1>2, <1>3

(* A token is a leaf. *)
LEMMA TokenIsLeaf ==
  ASSUME NEW q, NEW t, ShapeOf(q, t), NEW g \in Greens, q[g].kids = <<>>
  PROVE  t[g] = Plain!Leaf(q[g].kind, q[g].len)
<1>1. PICK k : k = [i \in DOMAIN q[g].kids |-> t[q[g].kids[i]]]
  OBVIOUS
<1>2. k = <<>>
  <2>1. DOMAIN q[g].kids = {}
    OBVIOUS
  <2>2. k = [i \in {} |-> t[q[g].kids[i]]]
    BY <1>1, <2>1
  <2>3. k \in Seq({0}) /\ Len(k) = 0
    <3>1. k = [i \in 1 .. 0 |-> t[q[g].kids[i]]]
      BY <2>2
    <3> QED BY <3>1
  <2> QED BY <2>3
<1>3. t[g] = [kind |-> q[g].kind, len |-> q[g].len, kids |-> k]
  BY <1>1 DEF ShapeOf
<1> QED BY <1>2, <1>3 DEF Plain!Leaf

(* A node that knows its length is a branch of its children's trees. *)
LEMMA NodeIsBranch ==
  ASSUME NEW h, NEW s, ShapeOf(h, s), NEW q, NEW t, ShapeOf(q, t),
         NEW g \in Greens, NEW r \in Seq(Elements), q[g].kids = Greenery(r),
         q[g].len = TextLen(h, Greenery(r)),
         \A i \in DOMAIN r : t[r[i].green] = s[r[i].green]
  PROVE  t[g] = Plain!Branch(q[g].kind, TreesOf(s, r))
<1>1. PICK k : k = Greenery(r)
  OBVIOUS
<1>2. k \in Seq(Greens) /\ DOMAIN k = DOMAIN r /\ \A i \in DOMAIN r : k[i] = r[i].green /\ k[i] \in Greens
  <2>1. /\ k \in Seq(Greens) /\ Len(k) = Len(r) /\ \A j \in 1 .. Len(r) : k[j] = r[j].green
    BY <1>1, GreeneryType
  <2>2. DOMAIN k = 1 .. Len(k) /\ DOMAIN r = 1 .. Len(r)
    BY <2>1
  <2> QED BY <2>1, <2>2
<1>3. PICK u : u = TreesOf(s, r)
  OBVIOUS
<1>4. DOMAIN u = DOMAIN k /\ \A i \in DOMAIN k : u[i] = s[k[i]]
  BY <1>2, <1>3 DEF TreesOf
<1>5. Plain!LenOf(u) = TextLen(h, k)
  <2>1. \A i \in DOMAIN k : u[i].len = h[k[i]].len
    <3>1. ASSUME NEW x \in Greens PROVE s[x].len = h[x].len
      <4>1. PICK m : m = [i \in DOMAIN h[x].kids |-> s[h[x].kids[i]]]
        OBVIOUS
      <4>2. s[x] = [kind |-> h[x].kind, len |-> h[x].len, kids |-> m]
        BY <4>1 DEF ShapeOf
      <4> QED BY <4>2
    <3> QED BY <1>2, <1>4, <3>1
  <2> QED BY <1>2, <1>4, <2>1, SumsAgree
<1>6. u = [i \in DOMAIN k |-> t[k[i]]]
  BY <1>2, <1>3 DEF TreesOf
<1>7. t[g] = [kind |-> q[g].kind, len |-> q[g].len, kids |-> [i \in DOMAIN k |-> t[k[i]]]]
  BY <1>1 DEF ShapeOf
<1>8. t[g] = [kind |-> q[g].kind, len |-> Plain!LenOf(u), kids |-> u]
  BY <1>1, <1>5, <1>6, <1>7
<1> QED BY <1>3, <1>8 DEF Plain!Branch

(***************************************************************************)
(* The steps of the plain builder: what the stack and the result are after *)
(* a step, as trees.                                                       *)
(***************************************************************************)
PlainStep(s, t) ==
  LET before == TreesOf(s, children)
      after == TreesOf(t, children')
      result == ResultOf(s, tree)
      result2 == ResultOf(t, tree')
  IN  \/ \E kind \in TokenKinds, text \in Texts :
           after = Append(before, Plain!Leaf(kind, text)) /\ parents' = parents /\ result2 = result
      \/ \E kind \in NodeKinds, at \in 0 .. Len(before) :
           /\ at <= Len(before) /\ (parents # <<>> => at >= Last(parents).first)
           /\ parents' = Append(parents, [kind |-> kind, first |-> at])
           /\ after = before /\ result2 = result
      \/ /\ parents # <<>>
         /\ LET first == Last(parents).first
            IN  after = Append(SubSeq(before, 1, first),
                               Plain!Branch(Last(parents).kind, SubSeq(before, first + 1, Len(before))))
         /\ parents' = Front(parents) /\ result2 = result
      \/ /\ result = NoTree /\ Len(before) = 1 /\ before[1].kind \in NodeKinds
         /\ result2 = before[1] /\ parents' = <<>> /\ after = <<>>
      \/ parents' = <<>> /\ after = <<>> /\ result2 = result
      \/ result2 = NoTree /\ parents' = parents /\ after = before
      \/ parents' = parents /\ after = before /\ result2 = result

(* Such a step is one of the plain builder's, or a stutter. *)
LEMMA PlainStepIsStep ==
  ASSUME NEW s, NEW t, s = Shape, t = Shape', PlainStep(s, t)
  PROVE  [Plain!Next]_(Plain!vars)
<1>1. TreesOf(s, children) = [i \in DOMAIN children |-> Shape[children[i].green]]
  BY DEF TreesOf
<1>2. TreesOf(t, children') = [i \in DOMAIN children |-> Shape[children[i].green]]'
  BY DEF TreesOf
<1>3. ResultOf(s, tree) = (IF tree = NoTree THEN NoTree ELSE Shape[tree])
  BY DEF ResultOf
<1>4. ResultOf(t, tree') = (IF tree = NoTree THEN NoTree ELSE Shape[tree])'
  BY DEF ResultOf
<1>5. PICK b, a, r, r2 : /\ b = TreesOf(s, children) /\ a = TreesOf(t, children')
                         /\ r = ResultOf(s, tree) /\ r2 = ResultOf(t, tree')
  OBVIOUS
<1>6. CASE \E kind \in TokenKinds, text \in Texts :
             a = Append(b, Plain!Leaf(kind, text)) /\ parents' = parents /\ r2 = r
  BY <1>1, <1>2, <1>3, <1>4, <1>5, <1>6 DEF Plain!Next, Plain!Token
<1>7. CASE \E kind \in NodeKinds, at \in 0 .. Len(b) :
             /\ at <= Len(b) /\ (parents # <<>> => at >= Last(parents).first)
             /\ parents' = Append(parents, [kind |-> kind, first |-> at])
             /\ a = b /\ r2 = r
  BY <1>1, <1>2, <1>3, <1>4, <1>5, <1>7 DEF Plain!Next, Plain!StartNodeAt, Plain!Last, Last
<1>8. CASE /\ parents # <<>>
           /\ a = Append(SubSeq(b, 1, Last(parents).first),
                         Plain!Branch(Last(parents).kind, SubSeq(b, Last(parents).first + 1, Len(b))))
           /\ parents' = Front(parents) /\ r2 = r
  BY <1>1, <1>2, <1>3, <1>4, <1>5, <1>8
  DEF Plain!Next, Plain!FinishNode, Plain!Last, Last, Plain!Front, Front
<1>9. CASE /\ r = NoTree /\ Len(b) = 1 /\ b[1].kind \in NodeKinds
           /\ r2 = b[1] /\ parents' = <<>> /\ a = <<>>
  BY <1>1, <1>2, <1>3, <1>4, <1>5, <1>9 DEF Plain!Next, Plain!Finish
<1>10. CASE parents' = <<>> /\ a = <<>> /\ r2 = r
  BY <1>1, <1>2, <1>3, <1>4, <1>5, <1>10 DEF Plain!Next, Plain!Abandon
<1>11. CASE r2 = NoTree /\ parents' = parents /\ a = b
  BY <1>1, <1>2, <1>3, <1>4, <1>5, <1>11 DEF Plain!Next, Plain!DropTree
<1>12. CASE parents' = parents /\ a = b /\ r2 = r
  BY <1>1, <1>2, <1>3, <1>4, <1>5, <1>12 DEF Plain!vars
<1> QED BY <1>5, <1>6, <1>7, <1>8, <1>9, <1>10, <1>11, <1>12 DEF PlainStep

(***************************************************************************)
(* Every step of the builder, its cache and the reference counts is one of *)
(* the plain builder's.                                                    *)
(***************************************************************************)
LEMMA PlainHolds ==
  ASSUME NestedInv, OwnInv, ShapeInv, ShapeEq, ShapeEq', [Next]_vars
  PROVE  [Plain!Next]_(Plain!vars)
<1>1. PICK q, s, t : q = heap' /\ s = Shape /\ t = Shape'
  OBVIOUS
<1>2. ShapeOf(heap, s) /\ ShapeOf(q, t)
  BY <1>1 DEF ShapeEq
<1>3. /\ \A g \in Greens : \A i \in DOMAIN heap[g].kids : heap[g].kids[i] \in Used(heap)
      /\ \A i \in DOMAIN children : children[i].green \in Used(heap)
      /\ Interned \subseteq Used(heap)
      /\ tree # NoTree => tree \in Used(heap)
  BY OwnedIsUsed
<1>4. /\ StackType /\ HeapType(heap) /\ Founded(heap) /\ Formed(heap)
      /\ children \in Seq(Elements) /\ parents \in Seq(Branches) /\ Len(children) \in Nat
  BY DEF NestedInv, StackType, OwnInv, DataType, ShapeInv
<1>5. PICK T : T = {s[g] : g \in Greens}
  OBVIOUS
<1>6. PICK b : b = TreesOf(s, children)
  OBVIOUS
<1>7. b \in Seq(T) /\ Len(b) = Len(children) /\ \A i \in 1 .. Len(children) : b[i] = s[children[i].green]
  <2>1. \A g \in Greens : s[g] \in T
    BY <1>5
  <2> QED BY <1>4, <1>6, <2>1, TreesType
<1>8. ASSUME \A x \in Used(heap) : t[x] = s[x]
      PROVE  TreesOf(t, children) = b /\ (tree' = tree => ResultOf(t, tree') = ResultOf(s, tree))
  BY <1>3, <1>6, <1>8, TreesSame DEF ResultOf
<1>9. ASSUME heap' = heap PROVE \A x \in Greens : t[x] = s[x]
  <2>1. Unchanging(heap, q)
    BY <1>1, <1>9 DEF Unchanging, Alike
  <2> QED BY <1>1, <1>2, <1>4, <2>1, TreesStay
<1>10. ASSUME NEW kind \in TokenKinds, NEW text \in Texts, Token(kind, text) PROVE PlainStep(s, t)
  <2>1. parents' = parents /\ tree' = tree
    BY <1>10 DEF Token
  <2>2. PICK g \in Greens :
           /\ children' = Push(children, g, TRUE)
           /\ q[g].kind = kind /\ q[g].len = text
           /\ \/ g \in tokens /\ Unchanging(heap, q)
              \/ Makes(heap, q, g) /\ q[g].kids = <<>>
    <3>1. \E g \in Greens :
           /\ children' = Push(children, g, TRUE)
           /\ heap'[g].kind = kind /\ heap'[g].len = text
           /\ \/ g \in tokens /\ Unchanging(heap, heap') /\ tokens' = tokens
              \/ /\ Makes(heap, heap', g) /\ heap'[g].kids = <<>>
                 /\ tokens' = tokens \cup {g} /\ SameToken(kind, text) = {}
      BY <1>10, TokenForms
    <3> QED BY <1>1, <3>1
  <2>3. q[g].kids = <<>>
    <3>1. CASE g \in tokens /\ Unchanging(heap, q)
      <4>1. g \in Used(heap) /\ heap[g].kind \notin NodeKinds
        BY <1>3, <2>2, <3>1, KindsAssumption DEF Interned, Unchanging, Alike
      <4> QED BY <1>4, <3>1, <4>1 DEF Formed, Unchanging, Alike
    <3> QED BY <2>2, <3>1
  <2>4. t[g] = Plain!Leaf(kind, text)
    BY <1>2, <2>2, <2>3, TokenIsLeaf
  <2>5. \A x \in Used(heap) : t[x] = s[x]
    BY <1>1, <1>2, <2>2, TreesAfter
  <2>6. TreesOf(t, children') = Append(TreesOf(t, children), t[g])
    BY <1>4, <2>2, TreesPush
  <2>7. TreesOf(t, children') = Append(b, Plain!Leaf(kind, text)) /\ ResultOf(t, tree') = ResultOf(s, tree)
    BY <1>8, <2>1, <2>4, <2>5, <2>6
  <2> QED BY <1>6, <2>1, <2>7 DEF PlainStep
<1>11. ASSUME NEW kind \in NodeKinds, NEW at \in 0 .. Len(children), Open(kind, at),
              parents # <<>> => at >= Last(parents).first
       PROVE  PlainStep(s, t)
  <2>1. /\ heap' = heap /\ children' = children /\ tree' = tree
        /\ parents' = Append(parents, [kind |-> kind, first |-> at])
    BY <1>11 DEF Open
  <2>2. TreesOf(t, children') = b /\ ResultOf(t, tree') = ResultOf(s, tree)
    BY <1>8, <1>9, <2>1 DEF Used
  <2>3. at \in 0 .. Len(b) /\ at <= Len(b)
    BY <1>4, <1>7
  <2> QED BY <1>6, <1>11, <2>1, <2>2, <2>3 DEF PlainStep
<1>12. ASSUME FinishNode PROVE PlainStep(s, t)
  <2>1. parents' = Front(parents) /\ tree' = tree
    BY <1>12 DEF FinishNode
  <2>2. PICK n \in 0 .. Len(children), kind \in NodeKinds, r \in Seq(Elements), g \in Greens, hashed \in BOOLEAN :
           /\ parents # <<>> /\ n = Last(parents).first /\ kind = Last(parents).kind
           /\ r = SubSeq(children, n + 1, Len(children))
           /\ children' = Push(SubSeq(children, 1, n), g, hashed)
           /\ q[g].kind = kind /\ q[g].kids = Greenery(r)
           /\ \/ g \in nodes /\ Unchanging(heap, q)
              \/ Makes(heap, q, g) /\ q[g].len = TextLen(heap, Greenery(r))
    BY <1>1, <1>12, FinishNodeForms
  <2>3. q[g].len = TextLen(heap, Greenery(r))
    <3>1. CASE g \in nodes /\ Unchanging(heap, q)
      <4>1. /\ g \in Used(heap) /\ heap[g].kind \notin TokenKinds
            /\ heap[g].kids = Greenery(r) /\ heap[g].len = q[g].len
        BY <1>3, <2>2, <3>1, KindsAssumption DEF Interned, Unchanging, Alike
      <4> QED BY <1>4, <4>1 DEF Formed
    <3> QED BY <2>2, <3>1
  <2>4. \A x \in Used(heap) : t[x] = s[x]
    BY <1>1, <1>2, <2>2, TreesAfter
  <2>5. PICK p : p = SubSeq(children, 1, n)
    OBVIOUS
  <2>6. p \in Seq(Elements) /\ DOMAIN p = 1 .. n /\ \A i \in 1 .. n : p[i] = children[i] /\ i \in DOMAIN children
    BY <1>4, <2>5
  <2>7. \A i \in DOMAIN r : \E j \in DOMAIN children : r[i] = children[j]
    <3>1. ASSUME NEW i \in DOMAIN r PROVE i + n \in DOMAIN children /\ r[i] = children[i + n]
      <4>1. Len(r) = Len(children) - n /\ DOMAIN r = 1 .. Len(r)
        BY <1>4, <2>2
      <4>2. i \in 1 .. Len(r) /\ r[i] = children[n + 1 + i - 1]
        BY <1>4, <2>2, <4>1
      <4> QED BY <1>4, <4>1, <4>2
    <3> QED BY <3>1
  <2>8. /\ \A i \in DOMAIN p : t[p[i].green] = s[p[i].green]
        /\ \A i \in DOMAIN r : t[r[i].green] = s[r[i].green]
    BY <1>3, <2>4, <2>6, <2>7
  <2>9. t[g] = Plain!Branch(kind, TreesOf(s, r))
    <3>1. t[g] = Plain!Branch(q[g].kind, TreesOf(s, r))
      <4>1. PICK h : h = heap
        OBVIOUS
      <4>2. ShapeOf(h, s) /\ ShapeOf(q, t) /\ q[g].kids = Greenery(r) /\ q[g].len = TextLen(h, Greenery(r))
        BY <1>2, <2>2, <2>3, <4>1
      <4>3. \A i \in DOMAIN r : t[r[i].green] = s[r[i].green]
        BY <2>8
      <4>4. g \in Greens /\ r \in Seq(Elements)
        OBVIOUS
      <4> QED BY ONLY <4>2, <4>3, <4>4, NodeIsBranch
    <3> QED BY <2>2, <3>1
  <2>10. TreesOf(s, r) = SubSeq(b, n + 1, Len(b))
    <3>1. n + 1 \in 1 .. Len(children) + 1 /\ Len(children) \in 0 .. Len(children)
      BY <1>4
    <3>2. TreesOf(s, SubSeq(children, n + 1, Len(children))) = SubSeq(TreesOf(s, children), n + 1, Len(children))
      BY <1>4, <3>1, TreesPart
    <3> QED BY <1>6, <1>7, <2>2, <3>2
  <2>11. TreesOf(t, p) = SubSeq(b, 1, n)
    <3>1. 1 \in 1 .. Len(children) + 1
      BY <1>4
    <3>2. TreesOf(s, p) = SubSeq(b, 1, n)
      BY <1>4, <1>6, <2>5, <3>1, TreesPart
    <3> QED BY <2>8, <3>2, TreesSame
  <2>12. TreesOf(t, children') = Append(TreesOf(t, p), t[g])
    BY <2>2, <2>5, <2>6, TreesPush
  <2>13. TreesOf(t, children') = Append(SubSeq(b, 1, n), Plain!Branch(kind, SubSeq(b, n + 1, Len(b))))
    BY <2>9, <2>10, <2>11, <2>12
  <2>14. ResultOf(t, tree') = ResultOf(s, tree)
    BY <1>8, <2>1, <2>4
  <2> QED BY <1>6, <2>1, <2>2, <2>13, <2>14 DEF PlainStep
<1>13. ASSUME Finish PROVE PlainStep(s, t)
  <2>1. /\ heap' = heap /\ tree = NoTree /\ Len(children) = 1 /\ ~IsToken(heap, children[1].green)
        /\ tree' = children[1].green /\ parents' = <<>> /\ children' = <<>>
    BY <1>13 DEF Finish
  <2>2. children[1].green \in Used(heap) /\ children[1].green \in Greens
    BY <1>3, <1>4, <2>1 DEF Used
  <2>3. heap[children[1].green].kind \in NodeKinds
    BY <1>4, <2>1, <2>2 DEF Formed, IsToken
  <2>4. Len(b) = 1 /\ b[1] = s[children[1].green]
    BY <1>7, <2>1
  <2>5. b[1].kind \in NodeKinds
    <3>1. PICK g \in Greens : g = children[1].green
      BY <2>2
    <3>2. PICK k : k = [i \in DOMAIN heap[g].kids |-> s[heap[g].kids[i]]]
      OBVIOUS
    <3>3. s[g] = [kind |-> heap[g].kind, len |-> heap[g].len, kids |-> k]
      BY <1>2, <3>2 DEF ShapeOf
    <3>4. s[g].kind = heap[g].kind
      BY <3>3
    <3> QED BY <2>3, <2>4, <3>1, <3>4
  <2>6. ResultOf(s, tree) = NoTree /\ ResultOf(t, tree') = b[1]
    BY <1>9, <2>1, <2>2, <2>4, TreeAssumption DEF ResultOf
  <2>7. TreesOf(t, children') = <<>>
    BY <2>1, EmptyTrees
  <2> QED BY <1>6, <2>1, <2>4, <2>5, <2>6, <2>7 DEF PlainStep
<1>14. ASSUME Abandon PROVE PlainStep(s, t)
  <2>1. heap' = heap /\ tree' = tree /\ parents' = <<>> /\ children' = <<>>
    BY <1>14 DEF Abandon
  <2>2. TreesOf(t, children') = <<>>
    BY <2>1, EmptyTrees
  <2>3. ResultOf(t, tree') = ResultOf(s, tree)
    BY <1>8, <1>9, <2>1 DEF Used
  <2> QED BY <2>1, <2>2, <2>3 DEF PlainStep
<1>15. ASSUME DropTree PROVE PlainStep(s, t)
  <2>1. heap' = heap /\ tree' = NoTree /\ parents' = parents /\ children' = children
    BY <1>15 DEF DropTree
  <2>2. TreesOf(t, children') = b
    BY <1>8, <1>9, <2>1 DEF Used
  <2>3. ResultOf(t, tree') = NoTree
    BY <2>1 DEF ResultOf
  <2> QED BY <1>6, <2>1, <2>2, <2>3 DEF PlainStep
<1>16. ASSUME DropHere \/ DropElsewhere PROVE PlainStep(s, t)
  <2>1. UNCHANGED <<parents, children, tree>>
    BY <1>16, DropForms
  <2>2. CASE Unchanging(heap, q)
    <3>1. \A x \in Used(heap) : t[x] = s[x]
      BY <1>1, <1>2, <1>4, <2>2, TreesStay DEF Used
    <3> QED BY <1>6, <1>8, <2>1, <3>1 DEF PlainStep
  <2>3. ASSUME NEW g \in Greens, Frees(heap, q, g), g # tree,
               \A i \in DOMAIN children : children[i].green # g,
               \A p \in Greens : \A i \in DOMAIN heap[p].kids : heap[p].kids[i] # g
        PROVE  PlainStep(s, t)
    <3>1. \A x \in Greens \ {g} : t[x] = s[x]
      BY <1>1, <1>2, <1>4, <2>3, TreesStay DEF Frees
    <3>2. TreesOf(t, children) = b
      BY <1>3, <1>6, <2>3, <3>1, TreesSame DEF Used
    <3>3. ResultOf(t, tree) = ResultOf(s, tree)
      BY <1>3, <2>3, <3>1 DEF ResultOf, Used
    <3> QED BY <1>6, <2>1, <3>2, <3>3 DEF PlainStep
  <2> QED BY <1>1, <1>16, <2>2, <2>3, DropForms
<1>17. ASSUME heap' = heap, parents' = parents, children' = children, tree' = tree PROVE PlainStep(s, t)
  BY <1>6, <1>8, <1>9, <1>17 DEF PlainStep, Used
<1>18. ASSUME DropCache PROVE PlainStep(s, t)
  BY <1>17, <1>18 DEF DropCache
<1>19. ASSUME UNCHANGED vars PROVE PlainStep(s, t)
  BY <1>17, <1>19 DEF vars
<1>20. ASSUME NEW kind \in NodeKinds, StartNode(kind) PROVE PlainStep(s, t)
  <2>1. parents # <<>> => Len(children) >= Last(parents).first
    <3>1. ASSUME parents # <<>> PROVE Len(parents) \in DOMAIN parents /\ Last(parents) = parents[Len(parents)]
      BY <1>4, <3>1 DEF Last
    <3>2. ASSUME NEW i \in DOMAIN parents PROVE parents[i].first \in Nat /\ parents[i].first <= Len(children)
      BY <1>4, BranchFirst DEF NestedInv, Nested
    <3> QED BY <1>4, <3>1, <3>2
  <2>2. Len(children) \in 0 .. Len(children)
    BY <1>4
  <2> QED BY <1>11, <1>20, <2>1, <2>2 DEF StartNode
<1>21. ASSUME NEW kind \in NodeKinds, NEW at \in 0 .. MaxStack, StartNodeAt(kind, at) PROVE PlainStep(s, t)
  <2>1. at \in 0 .. Len(children)
    BY <1>4, <1>21, BoundsAssumption DEF StartNodeAt
  <2> QED BY <1>11, <1>21, <2>1 DEF StartNodeAt, StillValid
<1>22. PlainStep(s, t)
  BY <1>10, <1>12, <1>13, <1>14, <1>15, <1>16, <1>18, <1>19, <1>20, <1>21 DEF Next
<1> QED BY <1>1, <1>22, PlainStepIsStep

(***************************************************************************)
(* The builder implements the plain one, which makes a new tree at every   *)
(* call: interning, reuse, reference counts and the drops of other threads *)
(* cannot be seen in the tree that finish returns (builder.rs).            *)
(***************************************************************************)
THEOREM BuilderImplementsPlain == Spec => Transparent
<1>1. Init => Plain!Init
  BY DEF Init, Plain!Init
<1>2. NestedInv /\ OwnInv /\ ShapeInv => ShapeEq
  BY ShapeIsShape DEF OwnInv, DataType, ShapeInv
<1>3. NestedInv /\ OwnInv /\ ShapeInv /\ ShapeEq /\ ShapeEq' /\ [Next]_vars => [Plain!Next]_(Plain!vars)
  BY PlainHolds
<1> QED BY <1>1, <1>2, <1>3, NestedInvHolds, OwnInvHolds, ShapeInvHolds, PTL DEF Spec, Transparent, Plain!Spec
=============================================================================

---------------------------- MODULE LookupProofs ----------------------------
(***************************************************************************)
(* Lookups in every tree there is, with any number of children and of      *)
(* empty elements: what covering_element finds is the deepest element that *)
(* covers the range, a pointer to a node with text leads back to it,       *)
(* token_at_offset finds the tokens that touch the offset, and next_token  *)
(* and prev_token step over no token.                                      *)
(*                                                                         *)
(* First the elements and where they start; then one child_at_range and    *)
(* the loops; token_at_offset; the order of the tokens.                    *)
(***************************************************************************)
EXTENDS Lookup, GreenNodeProofs

(* Sequences with the same elements are the same. *)
LEMMA SamePath ==
  ASSUME NEW p \in Seq(Nat), NEW q \in Seq(Nat), Len(p) = Len(q), \A i \in 1 .. Len(p) : p[i] = q[i]
  PROVE  p = q
OBVIOUS

(***************************************************************************)
(* The elements of a tree.  The layers Elements speaks of exist; an        *)
(* element is the root or the child of an element, and its children are    *)
(* elements.                                                               *)
(***************************************************************************)
NextLayer(t, f, d) == IF d = 0 THEN {<<>>} ELSE UNION {Children(t, p) : p \in f[d - 1]}

Layers(t, n, f) == f = [d \in 0 .. n |-> NextLayer(t, f, d)]

Layer(t) == CHOOSE f : Layers(t, Depth, f)

LEMMA LayersExist == ASSUME NEW t PROVE Layers(t, Depth, Layer(t))
<1> DEFINE Bad == {n \in Nat : ~ \E f : Layers(t, n, f)}
<1>1. Bad = {}
  <2> SUFFICES ASSUME Bad # {} PROVE FALSE
    OBVIOUS
  <2>1. PICK n \in Bad : \A k \in Bad : n <= k
    <3>1. Bad \subseteq Nat
      OBVIOUS
    <3> QED BY <3>1, LeastNumber
  <2>2. CASE n = 0
    <3>1. PICK f : f = [d \in 0 .. 0 |-> {<<>>}]
      OBVIOUS
    <3>2. f = [d \in 0 .. 0 |-> NextLayer(t, f, d)]
      BY <3>1 DEF NextLayer
    <3>3. Layers(t, 0, f)
      BY <3>2 DEF Layers
    <3> QED BY <2>1, <2>2, <3>3
  <2>3. CASE n # 0
    <3>1. PICK k \in Nat : n = k + 1
      <4>1. n - 1 \in Nat /\ n = (n - 1) + 1
        BY <2>3
      <4> QED BY <4>1
    <3>2. k \notin Bad
      BY <2>1, <3>1
    <3>3. PICK f : Layers(t, k, f)
      BY <3>2
    <3>4. PICK e : e = [d \in 0 .. n |-> IF d = n THEN NextLayer(t, f, n) ELSE f[d]]
      OBVIOUS
    <3>5. ASSUME NEW d \in 0 .. n PROVE e[d] = NextLayer(t, e, d)
      <4>1. d # 0 => d - 1 \in 0 .. n /\ d - 1 # n
        BY <3>1
      <4>2. d # 0 => e[d - 1] = f[d - 1]
        BY <3>4, <4>1
      <4>3. NextLayer(t, e, d) = NextLayer(t, f, d)
        BY <4>2 DEF NextLayer
      <4>4. CASE d = n
        BY <3>4, <4>3, <4>4
      <4>5. CASE d # n
        <5>1. d \in 0 .. k /\ e[d] = f[d]
          BY <3>1, <3>4, <4>5
        <5> QED BY <3>3, <4>3, <5>1 DEF Layers
      <4> QED BY <4>4, <4>5
    <3>6. e = [d \in 0 .. n |-> e[d]]
      BY <3>4
    <3>7. Layers(t, n, e)
      BY <3>5, <3>6 DEF Layers
    <3> QED BY <2>1, <3>7
  <2> QED BY <2>2, <2>3
<1>2. \E f : Layers(t, Depth, f)
  BY <1>1, DepthAssumption
<1> QED BY <1>2 DEF Layer

LEMMA ElementsAreLayers ==
  ASSUME NEW t
  PROVE  /\ Elements(t, Depth) = UNION {Layer(t)[d] : d \in 0 .. Depth}
         /\ Layer(t)[0] = {<<>>}
         /\ \A d \in 1 .. Depth : Layer(t)[d] = UNION {Children(t, p) : p \in Layer(t)[d - 1]}
<1>1. Layers(t, Depth, Layer(t))
  BY LayersExist
<1>2. \A d \in 0 .. Depth : Layer(t)[d] = NextLayer(t, Layer(t), d)
  BY <1>1 DEF Layers
<1>3. Elements(t, Depth) = UNION {Layer(t)[d] : d \in 0 .. Depth}
  BY DEF Elements, Layer, Layers, NextLayer
<1>4. Layer(t)[0] = {<<>>}
  <2>1. 0 \in 0 .. Depth
    BY DepthAssumption
  <2> QED BY <1>2, <2>1 DEF NextLayer
<1>5. ASSUME NEW d \in 1 .. Depth PROVE Layer(t)[d] = UNION {Children(t, p) : p \in Layer(t)[d - 1]}
  <2>1. d \in 0 .. Depth /\ d # 0
    BY DepthAssumption
  <2> QED BY <1>2, <2>1 DEF NextLayer
<1> QED BY <1>3, <1>4, <1>5

(* An element is a path as long as its layer is deep. *)
IsPath(p) == p \in Seq(Nat) /\ Len(p) \in 0 .. Depth

LEMMA KidsAre ==
  ASSUME NEW t \in Trees, NEW p \in Elements(t, Depth)
  PROVE  /\ WellFormed(At(t, p))
         /\ Len(p) = Depth => Kids(t, p) = <<>>
         /\ Kids(t, p) \in Seq(Range(Kids(t, p)))
         /\ Len(Kids(t, p)) \in Nat
         /\ DOMAIN Kids(t, p) = 1 .. Len(Kids(t, p))
BY TreesAssumption DEF WellFormed, Kids

LEMMA LayerPaths ==
  ASSUME NEW t \in Trees, NEW n \in 0 .. Depth, NEW p \in Layer(t)[n]
  PROVE  p \in Seq(Nat) /\ Len(p) = n
<1> DEFINE Bad == {d \in 0 .. Depth : \E q \in Layer(t)[d] : ~ (q \in Seq(Nat) /\ Len(q) = d)}
<1>1. Bad = {}
  <2> SUFFICES ASSUME Bad # {} PROVE FALSE
    OBVIOUS
  <2>1. PICK d \in Bad : \A k \in Bad : d <= k
    <3>1. Bad \subseteq Nat
      BY DepthAssumption
    <3> QED BY <3>1, LeastNumber
  <2>2. PICK q \in Layer(t)[d] : ~ (q \in Seq(Nat) /\ Len(q) = d)
    OBVIOUS
  <2>3. d # 0
    <3>1. << >> \in Seq(Nat) /\ Len(<< >>) = 0
      OBVIOUS
    <3>2. Layer(t)[0] = {<<>>}
      BY ElementsAreLayers
    <3> QED BY <2>2, <3>1, <3>2
  <2>4. d \in 1 .. Depth /\ d - 1 \in 0 .. Depth /\ d - 1 < d
    BY <2>3, DepthAssumption
  <2>5. PICK r \in Layer(t)[d - 1] : q \in Children(t, r)
    BY <2>2, <2>4, ElementsAreLayers
  <2>6. r \in Seq(Nat) /\ Len(r) = d - 1
    BY <2>1, <2>4, <2>5
  <2>7. r \in Elements(t, Depth)
    BY <2>4, <2>5, ElementsAreLayers
  <2>8. PICK i \in DOMAIN Kids(t, r) : q = Append(r, i)
    BY <2>5 DEF Children
  <2>9. i \in Nat
    BY <2>7, KidsAre
  <2> QED BY <2>2, <2>4, <2>6, <2>8, <2>9
<1> QED BY <1>1

LEMMA ElementIs ==
  ASSUME NEW t \in Trees, NEW p \in Elements(t, Depth)
  PROVE  /\ IsPath(p)
         /\ \A i \in DOMAIN Kids(t, p) : Append(p, i) \in Elements(t, Depth)
         /\ p = <<>> \/ \E q \in Elements(t, Depth) : \E i \in DOMAIN Kids(t, q) : p = Append(q, i)
<1>1. PICK d \in 0 .. Depth : p \in Layer(t)[d]
  BY ElementsAreLayers
<1>2. p \in Seq(Nat) /\ Len(p) = d
  BY <1>1, LayerPaths
<1>3. ASSUME NEW i \in DOMAIN Kids(t, p) PROVE Append(p, i) \in Elements(t, Depth)
  <2>1. d # Depth
    BY <1>2, KidsAre
  <2>2. d + 1 \in 1 .. Depth /\ (d + 1) - 1 = d /\ d + 1 \in 0 .. Depth
    BY <2>1, DepthAssumption
  <2>3. Append(p, i) \in Children(t, p)
    BY DEF Children
  <2>4. Append(p, i) \in Layer(t)[d + 1]
    BY <1>1, <2>2, <2>3, ElementsAreLayers
  <2> QED BY <2>2, <2>4, ElementsAreLayers
<1>4. CASE d = 0
  <2>1. p = <<>>
    BY <1>1, <1>4, ElementsAreLayers
  <2> QED BY <1>2, <1>3, <2>1 DEF IsPath
<1>5. CASE d # 0
  <2>1. d \in 1 .. Depth /\ d - 1 \in 0 .. Depth
    BY <1>5, DepthAssumption
  <2>2. PICK r \in Layer(t)[d - 1] : p \in Children(t, r)
    BY <1>1, <2>1, ElementsAreLayers
  <2>3. r \in Elements(t, Depth)
    BY <2>1, <2>2, ElementsAreLayers
  <2>4. PICK i \in DOMAIN Kids(t, r) : p = Append(r, i)
    BY <2>2 DEF Children
  <2> QED BY <1>2, <1>3, <2>3, <2>4 DEF IsPath
<1> QED BY <1>4, <1>5

LEMMA RootIsElement == ASSUME NEW t PROVE <<>> \in Elements(t, Depth)
<1>1. 0 \in 0 .. Depth
  BY DepthAssumption
<1> QED BY <1>1, ElementsAreLayers

-----------------------------------------------------------------------------
(***************************************************************************)
(* Down by one: the element at a longer path, and where it starts.         *)
(***************************************************************************)
LEMMA AtRoot == ASSUME NEW t PROVE At(t, <<>>) = t
<1>1. DOMAIN << >> = 1 .. 0 /\ 0 \in Nat
  OBVIOUS
<1>2. At(t, <<>>) = ChildAt(t, <<>>, 0)
  BY <1>1, FoldIsChild DEF At
<1> QED BY <1>2, ChildZero

LEMMA AtAppend ==
  ASSUME NEW t, NEW p \in Seq(Nat), NEW i \in Nat
  PROVE  At(t, Append(p, i)) = Kids(t, p)[i]
<1>1. PICK n, q : n = Len(p) /\ q = Append(p, i)
  OBVIOUS
<1>2. /\ n \in Nat /\ n + 1 \in Nat /\ DOMAIN p = 1 .. n /\ DOMAIN q = 1 .. (n + 1)
      /\ q[n + 1] = i /\ \A j \in 1 .. n : q[j] = p[j]
  BY <1>1
<1>3. At(t, p) = ChildAt(t, p, n)
  BY <1>2, FoldIsChild DEF At
<1>4. At(t, q) = ChildAt(t, q, n + 1)
  BY <1>2, FoldIsChild DEF At
<1>5. ChildAt(t, q, n) = ChildAt(t, p, n)
  BY <1>2, ChildAgrees
<1>6. ChildAt(t, q, n + 1) = ChildAt(t, q, n).kids[q[n + 1]]
  BY <1>2, ChildNext
<1> QED BY <1>1, <1>2, <1>3, <1>4, <1>5, <1>6 DEF Kids

(* The lengths of the first children, added up. *)
KidLens(kids) == [i \in DOMAIN kids |-> kids[i].len]

LEMMA LenIsSum ==
  ASSUME NEW U, NEW kids \in Seq(U)
  PROVE  LenOf(kids) = SumTo(KidLens(kids), Len(kids))
<1> DEFINE D == DOMAIN kids
           lens == KidLens(kids)
           A(it) == [s \in SUBSET D |-> IF s = {} THEN 0 ELSE it[s \ {Max(s)}] + kids[Max(s)].len]
           B(it) == [s \in SUBSET D |-> IF s = {} THEN 0 ELSE it[s \ {Max(s)}] + lens[Max(s)]]
           ItA == CHOOSE it : it = A(it)
           ItB == CHOOSE it : it = B(it)
<1>1. DOMAIN lens = D /\ \A i \in D : lens[i] = kids[i].len
  BY DEF KidLens
<1>2. Len(kids) \in Nat /\ D = 1 .. Len(kids)
  OBVIOUS
<1>3. IsFiniteSet(D) /\ D \subseteq Nat
  BY <1>2, FS_Interval
<1>4. LenOf(kids) = ItA[D]
  BY DEF LenOf, FoldLeft, MapThenFoldSet
<1>5. SumTo(lens, Len(kids)) = ItB[D]
  <2> HIDE DEF lens
  <2> QED BY <1>2 DEF SumTo, FoldTo, Folded, Folds, FoldStep
<1>6. ASSUME NEW s \in SUBSET D, s # {} PROVE Max(s) \in D
  <2>1. s \subseteq Nat /\ IsFiniteSet(s)
    BY <1>3, FS_Subset
  <2>2. Max(s) \in s
    BY <1>6, <2>1, MaxMember
  <2> QED BY <2>2
<1>7. \A it : A(it) = B(it)
  <2> HIDE DEF lens
  <2> QED BY <1>1, <1>6
<1>8. ItA = ItB
  <2> HIDE DEF A, B
  <2> QED BY <1>7
<1> QED BY <1>4, <1>5, <1>8

(* The offset of an element is the sum of its own relative offset and those of its ancestors. *)
Rels(t, p) ==
  [d \in DOMAIN p |-> LenOf(SubSeq(Kids(t, SubSeq(p, 1, d - 1)), 1, p[d] - 1))]

LEMMA StartIsSum ==
  ASSUME NEW t, NEW p \in Seq(Nat)
  PROVE  Start(t, p) = SumTo(Rels(t, p), Len(p))
<1> DEFINE D == DOMAIN p
           rels == Rels(t, p)
           pos == [d \in D |-> d]
           A(it) == [s \in SUBSET D |->
                       IF s = {} THEN 0
                       ELSE it[s \ {Max(s)}]
                            + LenOf(SubSeq(Kids(t, SubSeq(p, 1, pos[Max(s)] - 1)), 1, p[pos[Max(s)]] - 1))]
           B(it) == [s \in SUBSET D |-> IF s = {} THEN 0 ELSE it[s \ {Max(s)}] + rels[Max(s)]]
           ItA == CHOOSE it : it = A(it)
           ItB == CHOOSE it : it = B(it)
<1>1. DOMAIN pos = D /\ \A d \in D : pos[d] = d
  OBVIOUS
<1>2. Len(p) \in Nat /\ D = 1 .. Len(p)
  OBVIOUS
<1>3. IsFiniteSet(D) /\ D \subseteq Nat
  BY <1>2, FS_Interval
<1>4. Start(t, p) = ItA[D]
  BY DEF Start, FoldLeft, MapThenFoldSet
<1>5. SumTo(rels, Len(p)) = ItB[D]
  <2> HIDE DEF rels
  <2> QED BY <1>2 DEF SumTo, FoldTo, Folded, Folds, FoldStep
<1>6. ASSUME NEW s \in SUBSET D, s # {} PROVE Max(s) \in D
  <2>1. s \subseteq Nat /\ IsFiniteSet(s)
    BY <1>3, FS_Subset
  <2>2. Max(s) \in s
    BY <1>6, <2>1, MaxMember
  <2> QED BY <2>2
<1>7. ASSUME NEW d \in D PROVE LenOf(SubSeq(Kids(t, SubSeq(p, 1, pos[d] - 1)), 1, p[pos[d]] - 1)) = rels[d]
  BY <1>7 DEF Rels
<1>8. \A it : A(it) = B(it)
  <2> HIDE DEF rels, pos
  <2> QED BY <1>6, <1>7
<1>9. ItA = ItB
  <2> HIDE DEF A, B
  <2> QED BY <1>8
<1> QED BY <1>4, <1>5, <1>9

LEMMA StartRoot == ASSUME NEW t PROVE Start(t, <<>>) = 0
<1>1. << >> \in Seq(Nat) /\ Len(<< >>) = 0
  OBVIOUS
<1> QED BY <1>1, StartIsSum, SumZero

LEMMA StartAppend ==
  ASSUME NEW t, NEW p \in Seq(Nat), NEW i \in Nat
  PROVE  Start(t, Append(p, i)) = Start(t, p) + LenOf(SubSeq(Kids(t, p), 1, i - 1))
<1>1. PICK n, q : n = Len(p) /\ q = Append(p, i)
  OBVIOUS
<1>2. /\ n \in Nat /\ n + 1 \in Nat /\ q \in Seq(Nat) /\ Len(q) = n + 1
      /\ DOMAIN p = 1 .. n /\ DOMAIN q = 1 .. (n + 1)
      /\ q[n + 1] = i /\ \A j \in 1 .. n : q[j] = p[j]
  BY <1>1
<1>3. ASSUME NEW d \in 1 .. (n + 1) PROVE SubSeq(q, 1, d - 1) = SubSeq(p, 1, d - 1)
  BY <1>1, <1>2
<1>4. SubSeq(p, 1, n) = p
  BY <1>1, <1>2
<1>5. PICK v, w : v = Rels(t, q) /\ w = Rels(t, p)
  OBVIOUS
<1>6. ASSUME NEW d \in 1 .. n PROVE v[d] = w[d]
  <2>1. d \in DOMAIN p /\ d \in DOMAIN q /\ d \in 1 .. (n + 1) /\ q[d] = p[d]
    BY <1>2
  <2>2. SubSeq(q, 1, d - 1) = SubSeq(p, 1, d - 1)
    BY <1>3, <2>1
  <2>3. v[d] = LenOf(SubSeq(Kids(t, SubSeq(q, 1, d - 1)), 1, q[d] - 1))
    BY <1>5, <2>1 DEF Rels
  <2>4. w[d] = LenOf(SubSeq(Kids(t, SubSeq(p, 1, d - 1)), 1, p[d] - 1))
    BY <1>5, <2>1 DEF Rels
  <2> QED BY <2>1, <2>2, <2>3, <2>4
<1>7. v[n + 1] = LenOf(SubSeq(Kids(t, p), 1, i - 1))
  <2>1. n + 1 \in 1 .. (n + 1) /\ (n + 1) - 1 = n
    BY <1>2
  <2>2. SubSeq(q, 1, (n + 1) - 1) = p
    BY <1>3, <1>4, <2>1
  <2> QED BY <1>2, <1>5, <2>1, <2>2 DEF Rels
<1>8. SumTo(v, n + 1) = SumTo(v, n) + v[n + 1]
  BY <1>2, SumNext
<1>9. SumTo(v, n) = SumTo(w, n)
  BY <1>2, <1>6, SumAgrees
<1>10. Start(t, q) = SumTo(v, n + 1) /\ Start(t, p) = SumTo(w, n)
  BY <1>1, <1>2, <1>5, StartIsSum
<1> QED BY <1>1, <1>7, <1>8, <1>9, <1>10

-----------------------------------------------------------------------------
(***************************************************************************)
(* Where the children of an element are: one behind the other, from its    *)
(* start to its end.                                                       *)
(***************************************************************************)
LEMMA KidStart ==
  ASSUME NEW t \in Trees, NEW p \in Elements(t, Depth), NEW i \in DOMAIN Kids(t, p)
  PROVE  /\ Start(t, Append(p, i)) = Start(t, p) + SumTo(KidLens(Kids(t, p)), i - 1)
         /\ At(t, Append(p, i)).len = KidLens(Kids(t, p))[i]
         /\ KidLens(Kids(t, p))[i] \in Nat
<1>1. PICK k, U : k = Kids(t, p) /\ U = Range(k)
  OBVIOUS
<1>2. k \in Seq(U) /\ Len(k) \in Nat /\ DOMAIN k = 1 .. Len(k)
  BY <1>1, KidsAre
<1>3. i \in 1 .. Len(k) /\ i \in Nat /\ i - 1 \in Nat
  BY <1>1, <1>2
<1>4. p \in Seq(Nat) /\ Append(p, i) \in Elements(t, Depth)
  BY ElementIs DEF IsPath
<1>5. At(t, Append(p, i)) = k[i]
  BY <1>1, <1>3, <1>4, AtAppend
<1>6. k[i].len = KidLens(k)[i]
  BY <1>2, <1>3 DEF KidLens
<1>7. k[i].len \in Nat
  BY <1>4, <1>5, KidsAre DEF WellFormed
<1>8. PICK s : s = SubSeq(k, 1, i - 1)
  OBVIOUS
<1>9. s \in Seq(U) /\ Len(s) = i - 1 /\ DOMAIN s = 1 .. (i - 1) /\ \A j \in 1 .. (i - 1) : s[j] = k[j]
  BY <1>2, <1>3, <1>8
<1>10. LenOf(s) = SumTo(KidLens(s), i - 1)
  BY <1>9, LenIsSum
<1>11. SumTo(KidLens(s), i - 1) = SumTo(KidLens(k), i - 1)
  <2>1. PICK v, w : v = KidLens(s) /\ w = KidLens(k)
    OBVIOUS
  <2>2. \A j \in 1 .. (i - 1) : j \in DOMAIN k /\ j \in DOMAIN s
    BY <1>2, <1>3, <1>9
  <2>3. \A j \in 1 .. (i - 1) : v[j] = w[j]
    BY <1>9, <2>1, <2>2 DEF KidLens
  <2>4. SumTo(v, i - 1) = SumTo(w, i - 1)
    BY <1>3, <2>3, SumAgrees
  <2> QED BY <2>1, <2>4
<1>12. Start(t, Append(p, i)) = Start(t, p) + LenOf(s)
  BY <1>1, <1>3, <1>4, <1>8, StartAppend
<1> QED BY <1>1, <1>5, <1>6, <1>7, <1>10, <1>11, <1>12

LEMMA KidSums ==
  ASSUME NEW t \in Trees, NEW p \in Elements(t, Depth), NEW v, v = KidLens(Kids(t, p)),
         NEW n, n = Len(Kids(t, p))
  PROVE  /\ n \in Nat
         /\ \A i \in 1 .. n : v[i] \in Nat
         /\ \A j \in 0 .. n : SumTo(v, j) \in Nat
         /\ \A j \in 0 .. n : \A i \in 1 .. j : SumTo(v, i - 1) + v[i] <= SumTo(v, j)
         /\ n > 0 => At(t, p).len = SumTo(v, n)
<1>1. n \in Nat /\ DOMAIN Kids(t, p) = 1 .. n
  BY KidsAre
<1>2. \A i \in 1 .. n : v[i] \in Nat
  BY <1>1, KidStart
<1>3. /\ \A j \in 0 .. n : SumTo(v, j) \in Nat
      /\ \A j \in 0 .. n : \A i \in 1 .. j : SumTo(v, i - 1) + v[i] <= SumTo(v, j)
  BY <1>1, <1>2, SumsGrow
<1>4. ASSUME n > 0 PROVE At(t, p).len = SumTo(v, n)
  <2>1. PICK k, U : k = Kids(t, p) /\ U = Range(k)
    OBVIOUS
  <2>2. k \in Seq(U) /\ k # <<>> /\ WellFormed(At(t, p)) /\ At(t, p).kids = k
    BY <1>4, <2>1, KidsAre DEF Kids
  <2>3. At(t, p).len = LenOf(k)
    BY <2>2 DEF WellFormed
  <2>4. LenOf(k) = SumTo(KidLens(k), Len(k))
    BY <2>2, LenIsSum
  <2> QED BY <2>1, <2>3, <2>4
<1> QED BY <1>1, <1>2, <1>3, <1>4

(* Positions in the text are natural numbers. *)
LEMMA StartIsNat ==
  ASSUME NEW t \in Trees, NEW q \in Elements(t, Depth)
  PROVE  Start(t, q) \in Nat
<1> DEFINE Bad == {l \in Nat : \E p \in Elements(t, Depth) : l = Len(p) /\ Start(t, p) \notin Nat}
<1>1. Bad = {}
  <2> SUFFICES ASSUME Bad # {} PROVE FALSE
    OBVIOUS
  <2>1. PICK l \in Bad : \A k \in Bad : l <= k
    <3>1. Bad \subseteq Nat
      OBVIOUS
    <3> QED BY <3>1, LeastNumber
  <2>2. PICK p \in Elements(t, Depth) : l = Len(p) /\ Start(t, p) \notin Nat
    OBVIOUS
  <2>3. CASE p = <<>>
    BY <2>2, <2>3, StartRoot
  <2>4. CASE p # <<>>
    <3>1. PICK r \in Elements(t, Depth) : \E j \in DOMAIN Kids(t, r) : p = Append(r, j)
      BY <2>4, ElementIs
    <3> PICK i \in DOMAIN Kids(t, r) : p = Append(r, i)
      BY <3>1
    <3>2. r \in Seq(Nat) /\ Len(r) \in Nat /\ i \in Nat
      BY KidsAre, ElementIs DEF IsPath
    <3>3. Len(r) < l
      BY <2>2, <3>2
    <3>4. Start(t, r) \in Nat
      BY <2>1, <3>2, <3>3
    <3>5. i - 1 \in 0 .. Len(Kids(t, r))
      BY KidsAre
    <3>6. SumTo(KidLens(Kids(t, r)), i - 1) \in Nat
      BY <3>5, KidSums
    <3> QED BY <2>2, <3>4, <3>6, KidStart
  <2> QED BY <2>3, <2>4
<1>2. Len(q) \in Nat
  BY ElementIs DEF IsPath
<1> QED BY <1>1, <1>2

LEMMA KidRanges ==
  ASSUME NEW t \in Trees, NEW p \in Elements(t, Depth)
  PROVE  /\ Start(t, p) \in Nat /\ End(t, p) \in Nat /\ Start(t, p) <= End(t, p)
         /\ \A i \in DOMAIN Kids(t, p) :
              /\ Append(p, i) \in Elements(t, Depth)
              /\ Start(t, Append(p, i)) \in Nat /\ End(t, Append(p, i)) \in Nat
              /\ Start(t, p) <= Start(t, Append(p, i))
              /\ Start(t, Append(p, i)) <= End(t, Append(p, i))
              /\ End(t, Append(p, i)) <= End(t, p)
              /\ i = 1 => Start(t, Append(p, i)) = Start(t, p)
              /\ i = Len(Kids(t, p)) => End(t, Append(p, i)) = End(t, p)
         /\ \A i, j \in DOMAIN Kids(t, p) :
              /\ i < j => End(t, Append(p, i)) <= Start(t, Append(p, j))
              /\ j = i + 1 => End(t, Append(p, i)) = Start(t, Append(p, j))
<1>1. PICK v, n : v = KidLens(Kids(t, p)) /\ n = Len(Kids(t, p))
  OBVIOUS
<1>2. DOMAIN Kids(t, p) = 1 .. n /\ At(t, p).len \in Nat
  BY <1>1, KidsAre DEF WellFormed
<1>3. /\ n \in Nat
      /\ \A i \in 1 .. n : v[i] \in Nat
      /\ \A j \in 0 .. n : SumTo(v, j) \in Nat
      /\ \A j \in 0 .. n : \A i \in 1 .. j : SumTo(v, i - 1) + v[i] <= SumTo(v, j)
      /\ n > 0 => At(t, p).len = SumTo(v, n)
  BY <1>1, KidSums
<1>4. Start(t, p) \in Nat
  BY StartIsNat
<1>5. ASSUME NEW i \in 1 .. n
      PROVE  /\ Append(p, i) \in Elements(t, Depth)
             /\ i \in Nat /\ i - 1 \in 0 .. n /\ i - 1 \in Nat /\ i \in 0 .. n
             /\ Start(t, Append(p, i)) = Start(t, p) + SumTo(v, i - 1)
             /\ End(t, Append(p, i)) = Start(t, p) + SumTo(v, i - 1) + v[i]
             /\ End(t, Append(p, i)) = Start(t, p) + SumTo(v, i)
  <2>1. Append(p, i) \in Elements(t, Depth)
    BY <1>2, ElementIs
  <2>2. i \in Nat /\ i - 1 \in 0 .. n /\ i - 1 \in Nat /\ i \in 0 .. n /\ (i - 1) + 1 = i
    BY <1>3
  <2>3. Start(t, Append(p, i)) = Start(t, p) + SumTo(v, i - 1) /\ At(t, Append(p, i)).len = v[i]
    BY <1>1, <1>2, KidStart
  <2>4. SumTo(v, i) = SumTo(v, i - 1) + v[i]
    <3>1. PICK j \in Nat : j = i - 1
      BY <2>2
    <3>2. j + 1 = i /\ SumTo(v, j + 1) = SumTo(v, j) + v[j + 1]
      BY <2>2, <3>1, SumNext
    <3> QED BY <3>1, <3>2
  <2>5. SumTo(v, i - 1) \in Nat /\ v[i] \in Nat
    BY <1>3, <2>2
  <2> QED BY <1>4, <2>1, <2>2, <2>3, <2>4, <2>5 DEF End
<1>6. End(t, p) = Start(t, p) + At(t, p).len
  BY DEF End
<1>7. ASSUME NEW i \in 1 .. n
      PROVE  /\ Start(t, Append(p, i)) \in Nat /\ End(t, Append(p, i)) \in Nat
             /\ Start(t, p) <= Start(t, Append(p, i))
             /\ Start(t, Append(p, i)) <= End(t, Append(p, i))
             /\ End(t, Append(p, i)) <= End(t, p)
             /\ i = 1 => Start(t, Append(p, i)) = Start(t, p)
             /\ i = n => End(t, Append(p, i)) = End(t, p)
  <2>1. n \in 0 .. n /\ n > 0
    BY <1>3
  <2>2. SumTo(v, i - 1) \in Nat /\ v[i] \in Nat /\ SumTo(v, i) \in Nat /\ SumTo(v, n) \in Nat
    BY <1>3, <1>5, <2>1
  <2>3. SumTo(v, i - 1) + v[i] <= SumTo(v, n)
    BY <1>3, <2>1
  <2>4. i = 1 => SumTo(v, i - 1) = 0
    BY SumZero
  <2> QED BY <1>3, <1>4, <1>5, <1>6, <2>1, <2>2, <2>3, <2>4
<1>8. ASSUME NEW i \in 1 .. n, NEW j \in 1 .. n
      PROVE  /\ i < j => End(t, Append(p, i)) <= Start(t, Append(p, j))
             /\ j = i + 1 => End(t, Append(p, i)) = Start(t, Append(p, j))
  <2>1. i < j => i \in 1 .. (j - 1) /\ j - 1 \in 0 .. n
    BY <1>3
  <2>2. i < j => SumTo(v, i - 1) + v[i] <= SumTo(v, j - 1)
    BY <1>3, <2>1
  <2>3. SumTo(v, i - 1) \in Nat /\ v[i] \in Nat /\ SumTo(v, j - 1) \in Nat
    BY <1>3, <1>5
  <2>4. j = i + 1 => j - 1 = i
    BY <1>3
  <2>5. /\ End(t, Append(p, i)) = Start(t, p) + SumTo(v, i - 1) + v[i]
        /\ End(t, Append(p, i)) = Start(t, p) + SumTo(v, i)
        /\ Start(t, Append(p, j)) = Start(t, p) + SumTo(v, j - 1)
    BY <1>5
  <2>6. i < j => End(t, Append(p, i)) <= Start(t, Append(p, j))
    BY <1>4, <2>2, <2>3, <2>5
  <2> QED BY <2>4, <2>5, <2>6
<1>9. End(t, p) \in Nat /\ Start(t, p) <= End(t, p)
  BY <1>2, <1>4, <1>6
<1> QED BY <1>1, <1>2, <1>4, <1>5, <1>7, <1>8, <1>9

-----------------------------------------------------------------------------
(***************************************************************************)
(* Elements below an element: their paths begin with its own, and they are *)
(* inside of its range.                                                    *)
(***************************************************************************)
LEMMA PrefixIs ==
  ASSUME NEW p \in Seq(Nat), NEW q \in Seq(Nat)
  PROVE  IsPrefix(p, q) <=> Len(p) <= Len(q) /\ \A j \in 1 .. Len(p) : p[j] = q[j]
<1>1. ASSUME Len(p) <= Len(q)
      PROVE  SubSeq(p, 1, Len(p)) = SubSeq(q, 1, Len(p)) <=> \A j \in 1 .. Len(p) : p[j] = q[j]
  <2>1. PICK s, n : s = SubSeq(q, 1, n) /\ n = Len(p)
    OBVIOUS
  <2>2. n \in Nat /\ s \in Seq(Nat) /\ Len(s) = n /\ \A j \in 1 .. n : s[j] = q[j]
    BY <1>1, <2>1
  <2>3. SubSeq(p, 1, Len(p)) = p
    OBVIOUS
  <2>4. (\A j \in 1 .. n : p[j] = s[j]) => p = s
    BY <2>1, <2>2, SamePath
  <2> QED BY <2>1, <2>2, <2>3, <2>4
<1> QED BY <1>1 DEF IsPrefix

LEMMA PrefixUp ==
  ASSUME NEW p \in Seq(Nat), NEW r \in Seq(Nat), NEW i \in Nat
  PROVE  /\ IsPrefix(p, Append(r, i)) <=> p = Append(r, i) \/ IsPrefix(p, r)
         /\ IsPrefix(r, Append(r, i))
<1>1. PICK q, n : q = Append(r, i) /\ n = Len(r)
  OBVIOUS
<1>2. n \in Nat /\ q \in Seq(Nat) /\ Len(q) = n + 1 /\ q[n + 1] = i /\ \A j \in 1 .. n : q[j] = r[j]
  BY <1>1
<1>3. Len(p) \in Nat
  OBVIOUS
<1>4. ASSUME IsPrefix(p, q), p # q PROVE IsPrefix(p, r)
  <2>1. Len(p) <= n + 1 /\ \A j \in 1 .. Len(p) : p[j] = q[j]
    BY <1>2, <1>4, PrefixIs
  <2>2. Len(p) # n + 1
    BY <1>2, <1>4, <2>1, SamePath
  <2>3. Len(p) <= n /\ \A j \in 1 .. Len(p) : p[j] = r[j]
    BY <1>2, <1>3, <2>1, <2>2
  <2> QED BY <1>1, <2>3, PrefixIs
<1>5. ASSUME IsPrefix(p, r) PROVE IsPrefix(p, q)
  <2>1. Len(p) <= n /\ \A j \in 1 .. Len(p) : p[j] = r[j]
    BY <1>1, <1>5, PrefixIs
  <2>2. Len(p) <= n + 1 /\ \A j \in 1 .. Len(p) : p[j] = q[j]
    BY <1>2, <1>3, <2>1
  <2> QED BY <1>2, <2>2, PrefixIs
<1>6. IsPrefix(q, q)
  BY <1>2, PrefixIs
<1>7. IsPrefix(r, q)
  <2>1. Len(r) <= Len(q) /\ \A j \in 1 .. Len(r) : r[j] = q[j]
    BY <1>1, <1>2
  <2> QED BY <1>2, <2>1, PrefixIs
<1> QED BY <1>1, <1>4, <1>5, <1>6, <1>7

LEMMA BelowIsBelowChild ==
  ASSUME NEW t \in Trees, NEW p \in Elements(t, Depth), NEW x \in Elements(t, Depth),
         IsPrefix(p, x), p # x
  PROVE  \E i \in DOMAIN Kids(t, p) : IsPrefix(Append(p, i), x)
<1> DEFINE Fails(q) == IsPrefix(p, q) /\ p # q /\ ~ \E i \in DOMAIN Kids(t, p) : IsPrefix(Append(p, i), q)
           Bad == {l \in Nat : \E q \in Elements(t, Depth) : l = Len(q) /\ Fails(q)}
<1>1. p \in Seq(Nat) /\ x \in Seq(Nat)
  BY ElementIs DEF IsPath
<1>2. Bad = {}
  <2> SUFFICES ASSUME Bad # {} PROVE FALSE
    OBVIOUS
  <2>1. PICK l \in Bad : \A k \in Bad : l <= k
    <3>1. Bad \subseteq Nat
      OBVIOUS
    <3> QED BY <3>1, LeastNumber
  <2>2. PICK q \in Elements(t, Depth) : l = Len(q) /\ Fails(q)
    OBVIOUS
  <2>3. q # <<>>
    <3>1. << >> \in Seq(Nat) /\ Len(<< >>) = 0
      OBVIOUS
    <3>2. IsPrefix(p, <<>>) => Len(p) <= 0
      BY <1>1, <3>1, PrefixIs
    <3>3. Len(p) <= 0 => p = <<>>
      BY <1>1
    <3> QED BY <2>2, <3>2, <3>3
  <2>4. PICK r \in Elements(t, Depth) : \E j \in DOMAIN Kids(t, r) : q = Append(r, j)
    BY <2>3, ElementIs
  <2> PICK j \in DOMAIN Kids(t, r) : q = Append(r, j)
    BY <2>4
  <2>5. r \in Seq(Nat) /\ Len(r) \in Nat /\ j \in Nat /\ Len(r) < l
    <3>1. r \in Seq(Nat) /\ Len(r) \in Nat /\ j \in Nat
      BY KidsAre, ElementIs DEF IsPath
    <3> QED BY <2>2, <3>1
  <2>6. IsPrefix(p, r)
    BY <1>1, <2>2, <2>5, PrefixUp
  <2>7. CASE p = r
    <3>1. IsPrefix(Append(p, j), q)
      <4>1. Append(p, j) \in Seq(Nat) /\ q = Append(p, j)
        BY <1>1, <2>5, <2>7
      <4>2. PICK u : u = Append(p, j)
        OBVIOUS
      <4>3. u \in Seq(Nat) /\ Len(u) <= Len(u) /\ \A k \in 1 .. Len(u) : u[k] = u[k]
        BY <4>1, <4>2
      <4>4. IsPrefix(u, u)
        BY <4>3, PrefixIs
      <4> QED BY <4>1, <4>2, <4>4
    <3> QED BY <2>2, <2>7, <3>1
  <2>8. CASE p # r
    <3>1. ~ Fails(r)
      BY <2>1, <2>5
    <3>2. PICK i \in DOMAIN Kids(t, p) : IsPrefix(Append(p, i), r)
      BY <2>6, <2>8, <3>1
    <3>3. Append(p, i) \in Seq(Nat)
      BY ElementIs DEF IsPath
    <3>4. IsPrefix(Append(p, i), q)
      BY <2>5, <3>2, <3>3, PrefixUp
    <3> QED BY <2>2, <3>4
  <2> QED BY <2>7, <2>8
<1>3. Len(x) \in Nat
  BY <1>1
<1> QED BY <1>2, <1>3

LEMMA BelowIsInside ==
  ASSUME NEW t \in Trees, NEW p \in Elements(t, Depth), NEW x \in Elements(t, Depth), IsPrefix(p, x)
  PROVE  Start(t, p) <= Start(t, x) /\ End(t, x) <= End(t, p)
<1> DEFINE Fails(q) == IsPrefix(p, q) /\ ~ (Start(t, p) <= Start(t, q) /\ End(t, q) <= End(t, p))
           Bad == {l \in Nat : \E q \in Elements(t, Depth) : l = Len(q) /\ Fails(q)}
<1>1. p \in Seq(Nat) /\ x \in Seq(Nat)
  BY ElementIs DEF IsPath
<1>2. Bad = {}
  <2> SUFFICES ASSUME Bad # {} PROVE FALSE
    OBVIOUS
  <2>1. PICK l \in Bad : \A k \in Bad : l <= k
    <3>1. Bad \subseteq Nat
      OBVIOUS
    <3> QED BY <3>1, LeastNumber
  <2>2. PICK q \in Elements(t, Depth) : l = Len(q) /\ Fails(q)
    OBVIOUS
  <2>3. p # q
    BY <2>2, KidRanges
  <2>4. q # <<>>
    <3>1. << >> \in Seq(Nat) /\ Len(<< >>) = 0
      OBVIOUS
    <3>2. IsPrefix(p, <<>>) => Len(p) <= 0
      BY <1>1, <3>1, PrefixIs
    <3>3. Len(p) <= 0 => p = <<>>
      BY <1>1
    <3> QED BY <2>2, <2>3, <3>2, <3>3
  <2>5. PICK r \in Elements(t, Depth) : \E j \in DOMAIN Kids(t, r) : q = Append(r, j)
    BY <2>4, ElementIs
  <2> PICK j \in DOMAIN Kids(t, r) : q = Append(r, j)
    BY <2>5
  <2>6. r \in Seq(Nat) /\ Len(r) \in Nat /\ j \in Nat /\ Len(r) < l
    <3>1. r \in Seq(Nat) /\ Len(r) \in Nat /\ j \in Nat
      BY KidsAre, ElementIs DEF IsPath
    <3> QED BY <2>2, <3>1
  <2>7. IsPrefix(p, r)
    BY <1>1, <2>2, <2>3, <2>6, PrefixUp
  <2>8. Start(t, p) <= Start(t, r) /\ End(t, r) <= End(t, p)
    BY <2>1, <2>6, <2>7
  <2>9. /\ Start(t, p) \in Nat /\ Start(t, r) \in Nat /\ Start(t, q) \in Nat
        /\ End(t, p) \in Nat /\ End(t, r) \in Nat /\ End(t, q) \in Nat
        /\ Start(t, r) <= Start(t, q) /\ End(t, q) <= End(t, r)
    BY KidRanges
  <2> QED BY <2>2, <2>8, <2>9
<1>3. Len(x) \in Nat
  BY <1>1
<1> QED BY <1>2, <1>3

-----------------------------------------------------------------------------
(***************************************************************************)
(* The search.  If a child contains the range, then every child the binary *)
(* search may return contains it; and if the range is not empty, there is  *)
(* one only.                                                               *)
(***************************************************************************)
(* The children before the range are the first ones. *)
LEMMA BeforeIsInitial ==
  ASSUME tree \in Trees, NEW p \in All, NEW first \in Nat
  PROVE  \E m \in 0 .. Len(Kids(tree, p)) :
           /\ \A i \in DOMAIN Kids(tree, p) : Before(Append(p, i), first) <=> i <= m
           /\ Cardinality({c \in Children(tree, p) : Before(c, first)}) = m
<1>1. PICK n : n = Len(Kids(tree, p))
  OBVIOUS
<1>2. p \in Elements(tree, Depth) /\ n \in Nat /\ DOMAIN Kids(tree, p) = 1 .. n /\ p \in Seq(Nat)
  BY <1>1, KidsAre, ElementIs DEF All, IsPath
<1>3. \A i \in 1 .. n : End(tree, Append(p, i)) \in Nat
  BY <1>2, KidRanges
<1> DEFINE Behind == {k \in 1 .. (n + 1) : k = n + 1 \/ ~ Before(Append(p, k), first)}
<1>4. PICK k \in Behind : \A j \in Behind : k <= j
  <2>1. Behind \subseteq Nat /\ n + 1 \in Behind
    BY <1>2
  <2> QED BY <2>1, LeastNumber
<1>5. PICK m \in 0 .. n : k = m + 1
  <2>1. k - 1 \in 0 .. n /\ k = (k - 1) + 1
    BY <1>2
  <2> QED BY <2>1
<1>6. ASSUME NEW i \in 1 .. n PROVE Before(Append(p, i), first) <=> i <= m
  <2>1. ASSUME i <= m PROVE Before(Append(p, i), first)
    <3>1. i \in 1 .. (n + 1) /\ i # n + 1 /\ ~ (k <= i)
      BY <1>2, <1>5, <2>1
    <3> QED BY <1>4, <3>1
  <2>2. ASSUME ~ (i <= m) PROVE ~ Before(Append(p, i), first)
    <3>1. k \in 1 .. n /\ k <= i
      BY <1>2, <1>5, <2>2
    <3>2. ~ Before(Append(p, k), first)
      BY <1>2, <1>4, <3>1
    <3>3. End(tree, Append(p, k)) <= End(tree, Append(p, i))
      <4>1. CASE k = i
        BY <1>3, <4>1
      <4>2. CASE k # i
        <5>1. k < i
          BY <3>1, <4>2
        <5>2. End(tree, Append(p, k)) <= Start(tree, Append(p, i))
          BY <1>2, <3>1, <5>1, KidRanges
        <5>3. Start(tree, Append(p, i)) <= End(tree, Append(p, i)) /\ Start(tree, Append(p, i)) \in Nat
          BY <1>2, KidRanges
        <5> QED BY <1>3, <3>1, <5>2, <5>3
      <4> QED BY <4>1, <4>2
    <3>4. End(tree, Append(p, k)) \in Nat /\ End(tree, Append(p, i)) \in Nat
      BY <1>3, <3>1
    <3> QED BY <3>2, <3>3, <3>4 DEF Before
  <2> QED BY <2>1, <2>2
<1>7. Cardinality({c \in Children(tree, p) : Before(c, first)}) = m
  <2>1. PICK S, D : S = {c \in Children(tree, p) : Before(c, first)} /\ D = 1 .. m
    OBVIOUS
  <2>2. PICK f : f = [i \in D |-> Append(p, i)]
    OBVIOUS
  <2>3. \A i \in D : i \in 1 .. n /\ i \in Nat /\ i <= m
    BY <1>2, <2>1
  <2>4. \A i \in D : f[i] = Append(p, i)
    BY <2>2
  <2>5. \A i \in D : f[i] \in S
    BY <1>2, <1>6, <2>1, <2>3, <2>4 DEF Children
  <2>6. f \in [D -> S]
    BY <2>2, <2>5
  <2>7. ASSUME NEW i \in D, NEW j \in D, f[i] = f[j] PROVE i = j
    BY <1>2, <2>3, <2>4, <2>7
  <2>8. ASSUME NEW c \in S PROVE \E i \in D : f[i] = c
    <3>1. PICK i \in DOMAIN Kids(tree, p) : c = Append(p, i) /\ Before(c, first)
      BY <2>1 DEF Children
    <3>2. i \in D
      BY <1>2, <1>6, <2>1, <3>1
    <3> QED BY <2>4, <3>1, <3>2
  <2>9. f \in Bijection(D, S)
    BY <2>6, <2>7, <2>8 DEF Bijection, Injection, Surjection, IsInjective
  <2>10. IsFiniteSet(D) /\ Cardinality(D) = m
    BY <1>2, <2>1, FS_Interval
  <2>11. Cardinality(S) = Cardinality(D)
    BY <2>9, <2>10, FS_Bijection DEF ExistsBijection
  <2> QED BY <2>1, <2>10, <2>11
<1> QED BY <1>1, <1>2, <1>6, <1>7

LEMMA SearchFinds ==
  ASSUME tree \in Trees, NEW p \in All, NEW first \in Nat, NEW last \in Nat, first <= last,
         NEW i \in DOMAIN Kids(tree, p), ContainsRange(tree, Append(p, i), first, last)
  PROVE  /\ ~ NoChildAtRange(p, first, last)
         /\ first < last => Searched(p, first, last) = {Append(p, i)}
<1> DEFINE C(j) == Append(p, j)
           S(j) == Start(tree, C(j))
           E(j) == End(tree, C(j))
<1>1. PICK n : n = Len(Kids(tree, p))
  OBVIOUS
<1>2. p \in Elements(tree, Depth) /\ n \in Nat /\ DOMAIN Kids(tree, p) = 1 .. n
  BY <1>1, KidsAre DEF All
<1>3. ASSUME NEW j \in 1 .. n
      PROVE  /\ S(j) \in Nat /\ E(j) \in Nat /\ S(j) <= E(j)
             /\ j < i => E(j) <= S(i)
             /\ i < j => E(i) <= S(j)
             /\ i = j + 1 => E(j) = S(i)
  BY <1>2, KidRanges
<1>4. i \in 1 .. n /\ S(i) <= first /\ last <= E(i)
  BY <1>2 DEF ContainsRange
<1>5. Children(tree, p) = {C(j) : j \in 1 .. n}
  BY <1>2 DEF Children
<1> HIDE DEF C, S, E
<1>6. ASSUME NEW c \in Overlapping(p, first, last) PROVE c = C(i)
  <2>1. PICK j \in 1 .. n : c = C(j) /\ ~ (E(j) <= first) /\ S(j) < last
    BY <1>5 DEF Overlapping, Before, S, E
  <2>2. ~ (j < i)
    BY <1>3, <1>4, <2>1
  <2>3. ~ (i < j)
    BY <1>3, <1>4, <2>1
  <2> QED BY <1>2, <1>4, <2>1, <2>2, <2>3
<1>7. ASSUME ~ (E(i) <= first), S(i) < last PROVE C(i) \in Overlapping(p, first, last)
  BY <1>4, <1>5, <1>7 DEF Overlapping, Before, S, E
<1>8. CASE Overlapping(p, first, last) # {}
  <2>1. Searched(p, first, last) = {C(i)}
    BY <1>6, <1>8 DEF Searched
  <2>2. ~ NoChildAtRange(p, first, last)
    BY <2>1 DEF NoChildAtRange, C
  <2> QED BY <2>1, <2>2 DEF C
<1>9. CASE Overlapping(p, first, last) = {}
  <2>1. PICK m \in 0 .. n : /\ \A j \in 1 .. n : E(j) <= first <=> j <= m
                            /\ Cardinality({c \in Children(tree, p) : Before(c, first)}) = m
    BY <1>1, <1>2, BeforeIsInitial DEF Before, E, C
  <2>2. PICK k : k = IF m = 0 THEN 1 ELSE m
    OBVIOUS
  <2>3. k \in 1 .. n
    BY <1>2, <1>4, <2>1, <2>2
  <2>4. Searched(p, first, last) = {C(k)}
    <3>1. LastBefore(p, first) = {Append(p, j) : j \in {k} \cap DOMAIN Kids(tree, p)}
      BY <2>1, <2>2 DEF LastBefore
    <3> QED BY <1>2, <1>9, <2>3, <3>1 DEF Searched, C
  <2>5. E(i) <= first \/ S(i) >= last
    BY <1>3, <1>4, <1>7, <1>9
  <2>6. first = last
    BY <1>3, <1>4, <2>5
  <2>7. S(k) <= first /\ last <= E(k)
    <3>1. CASE E(i) <= first
      <4>1. i <= m /\ k = m /\ E(k) <= first
        BY <1>2, <1>4, <2>1, <2>2, <2>3, <3>1
      <4>2. E(i) <= E(k)
        BY <1>2, <1>3, <1>4, <2>3, <4>1
      <4> QED BY <1>3, <1>4, <2>3, <2>6, <4>1, <4>2
    <3>2. CASE ~ (E(i) <= first)
      <4>1. S(i) = first /\ m < i
        BY <1>2, <1>3, <1>4, <2>1, <2>5, <2>6, <3>2
      <4>2. CASE i = 1
        <5>1. k = i
          BY <2>1, <2>2, <4>1, <4>2
        <5> QED BY <1>4, <5>1
      <4>3. CASE i # 1
        <5>1. PICK j \in 1 .. n : i = j + 1
          <6>1. i - 1 \in 1 .. n /\ i = (i - 1) + 1
            BY <1>2, <1>4, <4>3
          <6> QED BY <6>1
        <5>2. E(j) = first
          BY <1>3, <4>1, <5>1
        <5>3. j <= m
          BY <1>3, <2>1, <5>2
        <5>4. k = j
          BY <1>2, <2>1, <2>2, <4>1, <5>1, <5>3
        <5> QED BY <1>3, <2>6, <5>1, <5>2, <5>4
      <4> QED BY <4>2, <4>3
    <3> QED BY <3>1, <3>2
  <2>8. ~ NoChildAtRange(p, first, last)
    BY <2>4, <2>7 DEF NoChildAtRange, ContainsRange, S, E
  <2> QED BY <2>6, <2>8
<1> QED BY <1>8, <1>9

-----------------------------------------------------------------------------
(***************************************************************************)
(* The loops.  What was asked stays what it was; the element the loop has  *)
(* come to contains the range, and while a pointer to a node with text is  *)
(* resolved it is the node, or above it.                                   *)
(***************************************************************************)
Sought ==
  /\ at \in All
  /\ call.op \in {"cover", "resolve"}
  /\ call.first \in Nat /\ call.last \in Nat /\ call.first <= call.last
  /\ ContainsRange(tree, at, call.first, call.last)

Pointed ==
  call.op = "resolve" =>
    /\ call.of \in Nodes
    /\ call.first = Start(tree, call.of) /\ call.last = End(tree, call.of)
    /\ call.kind = At(tree, call.of).kind
    /\ call.first < call.last => IsPrefix(at, call.of) /\ status # "none"

Answered ==
  status = "found" =>
    \/ call.op = "cover" /\ (IsLeaf(tree, at) \/ NoChildAtRange(at, call.first, call.last))
    \/ call.op = "resolve" /\ Matches(at)

LookupInv ==
  /\ tree \in Trees
  /\ IF status = "idle" THEN call = NoCall ELSE Sought /\ Pointed /\ Answered

(* On the way to a node with text the search does not fail. *)
LEMMA PointerIsBelow ==
  ASSUME LookupInv, status = "searching", call.op = "resolve", call.first < call.last, ~ Goal
  PROVE  /\ ~ IsLeaf(tree, at)
         /\ ~ NoChildAtRange(at, call.first, call.last)
         /\ \A c \in ChildAtRange(at, call.first, call.last) : IsPrefix(c, call.of)
<1>1. /\ tree \in Trees /\ at \in All /\ call.of \in All /\ ~ IsLeaf(tree, call.of)
      /\ call.first \in Nat /\ call.last \in Nat /\ call.first <= call.last
      /\ call.first = Start(tree, call.of) /\ call.last = End(tree, call.of)
      /\ call.kind = At(tree, call.of).kind /\ IsPrefix(at, call.of)
  BY DEF LookupInv, Sought, Pointed, Nodes
<1>2. at # call.of
  BY <1>1 DEF Goal, Matches
<1>3. PICK i \in DOMAIN Kids(tree, at) : IsPrefix(Append(at, i), call.of)
  BY <1>1, <1>2, BelowIsBelowChild DEF All
<1>4. Append(at, i) \in All
  BY <1>1, ElementIs DEF All
<1>5. ContainsRange(tree, Append(at, i), call.first, call.last)
  BY <1>1, <1>3, <1>4, BelowIsInside DEF All, ContainsRange
<1>6. /\ ~ NoChildAtRange(at, call.first, call.last)
      /\ Searched(at, call.first, call.last) = {Append(at, i)}
  BY <1>1, <1>5, SearchFinds
<1>7. ~ IsLeaf(tree, at)
  <2>1. WellFormed(At(tree, at)) /\ Kids(tree, at) # <<>>
    BY <1>1, KidsAre DEF All
  <2> QED BY <2>1 DEF WellFormed, IsLeaf, Kids
<1>8. \A c \in ChildAtRange(at, call.first, call.last) : IsPrefix(c, call.of)
  BY <1>3, <1>6 DEF ChildAtRange
<1> QED BY <1>6, <1>7, <1>8

LEMMA SearchedAreChildren ==
  ASSUME NEW p, NEW first, NEW last, NEW c \in ChildAtRange(p, first, last)
  PROVE  c \in Children(tree, p) /\ ContainsRange(tree, c, first, last)
<1>1. c \in Searched(p, first, last) /\ ContainsRange(tree, c, first, last)
  BY DEF ChildAtRange
<1>2. \A x \in LastBefore(p, first) : x \in Children(tree, p)
  BY DEF LastBefore, Children
<1> QED BY <1>1, <1>2 DEF Searched, Overlapping

LEMMA LookupStep == LookupInv /\ [Next]_vars => LookupInv'
<1> SUFFICES ASSUME LookupInv, [Next]_vars PROVE LookupInv'
  OBVIOUS
<1>1. tree \in Trees
  BY DEF LookupInv
<1>2. ASSUME NEW op \in {"cover", "resolve"}, NEW of \in Nodes, NEW from \in All, NEW first, NEW last,
             Ask(op, of, from, first, last), first \in Nat, last \in Nat, first <= last,
             ContainsRange(tree, from, first, last),
             op = "resolve" => first = Start(tree, of) /\ last = End(tree, of) /\ IsPrefix(from, of)
      PROVE  LookupInv'
  <2>1. tree' = tree /\ at' = from /\ status' = "searching"
    BY <1>2 DEF Ask
  <2>2. /\ call'.op = op /\ call'.of = of /\ call'.kind = At(tree, of).kind
        /\ call'.first = first /\ call'.last = last
    BY <1>2 DEF Ask
  <2>3. All' = All /\ Nodes' = Nodes
    BY <2>1 DEF All, Nodes
  <2>4. Sought'
    BY <1>2, <2>1, <2>2, <2>3 DEF Sought
  <2>5. Pointed'
    BY <1>2, <2>1, <2>2, <2>3 DEF Pointed
  <2>6. Answered'
    BY <2>1 DEF Answered
  <2> QED BY <1>1, <2>1, <2>4, <2>5, <2>6 DEF LookupInv
<1>3. ASSUME tree' = tree, call' = call, status # "idle", status' # "idle",
             at' \in All, ContainsRange(tree, at', call.first, call.last),
             call.op = "resolve" /\ call.first < call.last => IsPrefix(at', call.of) /\ status' # "none",
             Answered'
      PROVE  LookupInv'
  <2>1. Sought /\ Pointed
    BY <1>3 DEF LookupInv
  <2>2. All' = All /\ Nodes' = Nodes
    BY <1>3 DEF All, Nodes
  <2>3. Sought'
    BY <1>3, <2>1, <2>2 DEF Sought
  <2>4. Pointed'
    BY <1>3, <2>1, <2>2 DEF Pointed
  <2> QED BY <1>1, <1>3, <2>3, <2>4 DEF LookupInv
<1>4. CASE CoveringElement
  <2>1. PICK p \in Nodes : \E first \in Start(tree, p) .. End(tree, p) : \E last \in first .. End(tree, p) :
               Ask("cover", p, p, first, last)
    BY <1>4 DEF CoveringElement
  <2>2. PICK first \in Start(tree, p) .. End(tree, p) :
               \E l \in first .. End(tree, p) : Ask("cover", p, p, first, l)
    BY <2>1
  <2> PICK last \in first .. End(tree, p) : Ask("cover", p, p, first, last)
    BY <2>2
  <2>3. Start(tree, p) \in Nat /\ End(tree, p) \in Nat /\ p \in All
    BY <1>1, KidRanges DEF Nodes, All
  <2>4. first \in Nat /\ last \in Nat /\ first <= last /\ ContainsRange(tree, p, first, last)
    BY <2>3 DEF ContainsRange
  <2> QED BY <1>2, <2>3, <2>4
<1>5. CASE TryToNode
  <2>1. PICK p \in Nodes : Ask("resolve", p, <<>>, Start(tree, p), End(tree, p))
    BY <1>5 DEF TryToNode
  <2>2. p \in All /\ <<>> \in All /\ p \in Seq(Nat)
    BY <1>1, RootIsElement, ElementIs DEF Nodes, All, IsPath
  <2>3. Start(tree, p) \in Nat /\ End(tree, p) \in Nat /\ Start(tree, p) <= End(tree, p)
    BY <1>1, <2>2, KidRanges DEF All
  <2>4. IsPrefix(<<>>, p)
    <3>1. << >> \in Seq(Nat) /\ Len(<< >>) = 0 /\ Len(p) \in Nat
      BY <2>2
    <3>2. Len(<< >>) <= Len(p) /\ \A j \in 1 .. Len(<< >>) : << >>[j] = p[j]
      BY <3>1
    <3> QED BY <2>2, <3>1, <3>2, PrefixIs
  <2>5. ContainsRange(tree, <<>>, Start(tree, p), End(tree, p))
    BY <1>1, <2>2, <2>4, BelowIsInside DEF All, ContainsRange
  <2> QED BY <1>2, <2>1, <2>2, <2>3, <2>4, <2>5
<1>6. CASE Descend
  <2>1. /\ status = "searching" /\ ~ Goal /\ ~ IsLeaf(tree, at)
        /\ at' \in ChildAtRange(at, call.first, call.last)
        /\ tree' = tree /\ call' = call /\ status' = status
    BY <1>6 DEF Descend
  <2>2. at \in All
    BY <2>1 DEF LookupInv, Sought
  <2>3. at' \in Children(tree, at) /\ ContainsRange(tree, at', call.first, call.last)
    BY <2>1, SearchedAreChildren
  <2>4. at' \in All
    BY <1>1, <2>2, <2>3, ElementIs DEF All, Children
  <2>5. call.op = "resolve" /\ call.first < call.last => IsPrefix(at', call.of)
    BY <2>1, PointerIsBelow
  <2>6. Answered'
    BY <2>1 DEF Answered
  <2> QED BY <1>3, <2>1, <2>3, <2>4, <2>5, <2>6
<1>7. CASE Arrive
  <2>1. status = "searching" /\ Goal /\ status' = "found" /\ tree' = tree /\ call' = call /\ at' = at
    BY <1>7 DEF Arrive
  <2>2. Answered'
    <3>1. call.op = "resolve" /\ Matches(at)
      BY <2>1 DEF Goal
    <3>2. Matches(at)' <=> Matches(at)
      BY <2>1 DEF Matches
    <3> QED BY <2>1, <3>1, <3>2 DEF Answered
  <2>3. Sought /\ Pointed
    BY <2>1 DEF LookupInv
  <2> QED BY <1>3, <2>1, <2>2, <2>3 DEF Sought, Pointed
<1>8. CASE Bottom
  <2>1. /\ status = "searching" /\ ~ Goal
        /\ IsLeaf(tree, at) \/ NoChildAtRange(at, call.first, call.last)
        /\ status' = IF call.op = "cover" THEN "found" ELSE "none"
        /\ tree' = tree /\ call' = call /\ at' = at
    BY <1>8 DEF Bottom
  <2>2. Sought /\ Pointed
    BY <2>1 DEF LookupInv
  <2>3. ~ (call.op = "resolve" /\ call.first < call.last)
    BY <2>1, PointerIsBelow
  <2>4. Answered'
    <3>1. status' = "found" => call'.op = "cover"
      BY <2>1
    <3>2. NoChildAtRange(at, call.first, call.last)' <=> NoChildAtRange(at, call.first, call.last)
      BY <2>1 DEF NoChildAtRange, Searched, Overlapping, LastBefore, Before
    <3>3. IsLeaf(tree, at)' <=> IsLeaf(tree, at)
      BY <2>1
    <3> QED BY <2>1, <3>1, <3>2, <3>3 DEF Answered
  <2> QED BY <1>3, <2>1, <2>2, <2>3, <2>4 DEF Sought
<1>9. CASE UNCHANGED vars
  <2>1. tree' = tree /\ call' = call /\ at' = at /\ status' = status
    BY <1>9 DEF vars
  <2>2. All' = All /\ Nodes' = Nodes
    BY <2>1 DEF All, Nodes
  <2>3. Answered <=> Answered'
    BY <2>1 DEF Answered, Matches, NoChildAtRange, Searched, Overlapping, LastBefore, Before
  <2> QED BY <2>1, <2>2, <2>3 DEF LookupInv, Sought, Pointed
<1> QED BY <1>4, <1>5, <1>6, <1>7, <1>8, <1>9 DEF Next

LEMMA LookupInvHolds == Spec => []LookupInv
<1>1. Init => LookupInv
  BY DEF Init, LookupInv
<1> QED BY <1>1, LookupStep, PTL DEF Spec

(***************************************************************************)
(* api.rs: covering_element returns the deepest element that contains the  *)
(* range, in any tree, with any number of empty elements.                  *)
(***************************************************************************)
THEOREM CoveringIsDeepest == Spec => []CoversDeepest
<1>1. LookupInv => CoversDeepest
  <2> SUFFICES ASSUME LookupInv, status = "found", call.op = "cover"
               PROVE  /\ ContainsRange(tree, at, call.first, call.last)
                      /\ \A p \in All : ContainsRange(tree, p, call.first, call.last) /\ IsPrefix(at, p)
                                          => p = at
    BY DEF CoversDeepest
  <2>1. tree \in Trees /\ Sought /\ Answered
    BY DEF LookupInv
  <2>2. IsLeaf(tree, at) \/ NoChildAtRange(at, call.first, call.last)
    BY <2>1 DEF Answered
  <2>3. ASSUME NEW p \in All, ContainsRange(tree, p, call.first, call.last), IsPrefix(at, p), p # at
        PROVE  FALSE
    <3>1. PICK i \in DOMAIN Kids(tree, at) : IsPrefix(Append(at, i), p)
      BY <2>1, <2>3, BelowIsBelowChild DEF Sought, All
    <3>2. Append(at, i) \in All
      BY <2>1, ElementIs DEF Sought, All
    <3>3. ContainsRange(tree, Append(at, i), call.first, call.last)
      <4>1. Start(tree, Append(at, i)) <= Start(tree, p) /\ End(tree, p) <= End(tree, Append(at, i))
        BY <2>1, <3>1, <3>2, BelowIsInside DEF All
      <4>2. /\ Start(tree, Append(at, i)) \in Nat /\ Start(tree, p) \in Nat
            /\ End(tree, p) \in Nat /\ End(tree, Append(at, i)) \in Nat
        BY <2>1, <3>2, KidRanges DEF All
      <4> QED BY <2>1, <2>3, <4>1, <4>2 DEF ContainsRange, Sought
    <3>4. ~ NoChildAtRange(at, call.first, call.last)
      BY <2>1, <3>3, SearchFinds DEF Sought
    <3>5. ~ IsLeaf(tree, at)
      <4>1. WellFormed(At(tree, at)) /\ Kids(tree, at) # <<>>
        BY <2>1, KidsAre DEF All, Sought
      <4> QED BY <4>1 DEF WellFormed, IsLeaf, Kids
    <3> QED BY <2>2, <3>4, <3>5
  <2> QED BY <2>1, <2>3 DEF Sought
<1> QED BY <1>1, LookupInvHolds, PTL

(***************************************************************************)
(* ast.rs: SyntaxNodePtr::try_to_node finds the node a pointer was made    *)
(* from, or an ancestor of the same kind and range, if the node has text.  *)
(***************************************************************************)
THEOREM PointersResolve == Spec => []PointerResolves
<1>1. LookupInv => PointerResolves
  <2> SUFFICES ASSUME LookupInv, call.op = "resolve", call.first < call.last
               PROVE  status # "none" /\ (status = "found" => IsPrefix(at, call.of) /\ Matches(at))
    BY DEF PointerResolves
  <2>1. status # "idle"
    <3>1. NoCall.op # "resolve"
      BY DEF NoCall
    <3> QED BY <3>1 DEF LookupInv
  <2>2. Sought /\ Pointed /\ Answered
    BY <2>1 DEF LookupInv
  <2> QED BY <2>2 DEF Pointed, Answered
<1> QED BY <1>1, LookupInvHolds, PTL

-----------------------------------------------------------------------------
(***************************************************************************)
(* token_at_offset.  The function that is asked exists: what it answers    *)
(* for an element depends on its children only.                            *)
(***************************************************************************)
AskOf(f, offset, p) ==
  LET hits == Hits(p, offset)
      left == f[Append(p, Min(hits))]
      right == f[Append(p, Max(hits))]
  IN  CASE ~Touches(p, offset) -> Panic
        [] Touches(p, offset) /\ IsLeaf(tree, p) -> Answer(<<p>>)
        [] Touches(p, offset) /\ ~IsLeaf(tree, p) /\ Empty(tree, p) -> Answer(<<>>)
        [] OTHER -> CASE Cardinality(hits) = 1 -> left
                      [] Cardinality(hits) = 2 -> Between(left, right)
                      [] OTHER -> Panic

Asks(f, offset) == f = [p \in All |-> AskOf(f, offset, p)]

LEMMA MinMember ==
  ASSUME NEW U, U \subseteq Nat, U # {}
  PROVE  Min(U) \in U /\ \A y \in U : Min(U) <= y
BY LeastNumber DEF Min

(* The children asked are children. *)
LEMMA HitsAre ==
  ASSUME tree \in Trees, NEW p \in All, NEW offset
  PROVE  /\ IsFiniteSet(Hits(p, offset)) /\ Hits(p, offset) \subseteq Nat
         /\ Hits(p, offset) \subseteq DOMAIN Kids(tree, p)
         /\ Hits(p, offset) # {} => Min(Hits(p, offset)) \in Hits(p, offset) /\ Max(Hits(p, offset)) \in Hits(p, offset)
<1>1. PICK H, D : H = Hits(p, offset) /\ D = DOMAIN Kids(tree, p)
  OBVIOUS
<1>2. H \subseteq D
  BY <1>1 DEF Hits
<1>3. D = 1 .. Len(Kids(tree, p)) /\ Len(Kids(tree, p)) \in Nat
  BY <1>1, KidsAre DEF All
<1>4. IsFiniteSet(D) /\ D \subseteq Nat
  BY <1>3, FS_Interval
<1>5. IsFiniteSet(H) /\ H \subseteq Nat
  BY <1>2, <1>4, FS_Subset
<1>6. H # {} => Min(H) \in H /\ Max(H) \in H
  BY <1>5, MinMember, MaxMember
<1> QED BY <1>1, <1>2, <1>5, <1>6

LEMMA AskAgrees ==
  ASSUME tree \in Trees, NEW p \in All, NEW offset, NEW f, NEW g,
         \A i \in DOMAIN Kids(tree, p) : f[Append(p, i)] = g[Append(p, i)]
  PROVE  AskOf(f, offset, p) = AskOf(g, offset, p)
<1>1. PICK H : H = Hits(p, offset)
  OBVIOUS
<1>2. IsFiniteSet(H) /\ (H # {} => Min(H) \in DOMAIN Kids(tree, p) /\ Max(H) \in DOMAIN Kids(tree, p))
  BY <1>1, HitsAre
<1>3. CASE H = {}
  <2>1. Cardinality(H) = 0
    BY <1>3, FS_EmptySet
  <2>2. Cardinality(H) # 1 /\ Cardinality(H) # 2
    BY <2>1
  <2> QED BY <1>1, <2>2 DEF AskOf
<1>4. CASE H # {}
  <2>1. f[Append(p, Min(H))] = g[Append(p, Min(H))] /\ f[Append(p, Max(H))] = g[Append(p, Max(H))]
    BY <1>2, <1>4
  <2> QED BY <1>1, <2>1 DEF AskOf
<1> QED BY <1>3, <1>4

(* The elements at most n layers above the lowest. *)
Low(n) == {p \in All : Depth <= Len(p) + n}

LEMMA LowAre ==
  ASSUME tree \in Trees
  PROVE  /\ Low(Depth) = All
         /\ \A n \in Nat : \A p \in Low(n) : \A i \in DOMAIN Kids(tree, p) :
              n # 0 /\ Append(p, i) \in Low(n - 1) /\ Append(p, i) \in Low(n)
<1>1. Low(Depth) = All
  <2>1. ASSUME NEW p \in All PROVE Depth <= Len(p) + Depth
    <3>1. Len(p) \in Nat
      BY ElementIs DEF All, IsPath
    <3> QED BY <3>1, DepthAssumption
  <2> QED BY <2>1 DEF Low
<1>2. ASSUME NEW n \in Nat, NEW p \in Low(n), NEW i \in DOMAIN Kids(tree, p)
      PROVE  n # 0 /\ Append(p, i) \in Low(n - 1) /\ Append(p, i) \in Low(n)
  <2>1. p \in Elements(tree, Depth) /\ Depth <= Len(p) + n
    BY DEF Low, All
  <2>2. p \in Seq(Nat) /\ Len(p) \in 0 .. Depth /\ i \in Nat /\ Append(p, i) \in All
    BY <2>1, ElementIs, KidsAre DEF All, IsPath
  <2>3. Len(p) # Depth
    BY <2>1, KidsAre
  <2>4. Len(Append(p, i)) = Len(p) + 1 /\ Len(p) < Depth /\ Len(p) \in Nat
    BY <2>2, <2>3, DepthAssumption
  <2>5. n # 0 /\ Depth <= (Len(p) + 1) + (n - 1) /\ Depth <= (Len(p) + 1) + n
    BY <2>1, <2>4, DepthAssumption
  <2> QED BY <2>2, <2>4, <2>5 DEF Low
<1> QED BY <1>1, <1>2

LEMMA AskedExists ==
  ASSUME tree \in Trees, NEW offset
  PROVE  \E f : Asks(f, offset)
<1> DEFINE Solves(f, n) == f = [p \in Low(n) |-> AskOf(f, offset, p)]
           Bad == {n \in Nat : ~ \E f : Solves(f, n)}
<1>1. Bad = {}
  <2> SUFFICES ASSUME Bad # {} PROVE FALSE
    OBVIOUS
  <2>1. PICK n \in Bad : \A k \in Bad : n <= k
    <3>1. Bad \subseteq Nat
      OBVIOUS
    <3> QED BY <3>1, LeastNumber
  <2>2. \E f : n # 0 => Solves(f, n - 1)
    <3>1. CASE n = 0
      BY <3>1
    <3>2. CASE n # 0
      <4>1. n - 1 \in Nat /\ ~ (n <= n - 1)
        BY <3>2
      <4> QED BY <2>1, <4>1
    <3> QED BY <3>1, <3>2
  <2>3. PICK f : n # 0 => Solves(f, n - 1)
    BY <2>2
  <2>4. PICK e : e = [p \in Low(n) |-> AskOf(f, offset, p)]
    OBVIOUS
  <2>5. ASSUME NEW p \in Low(n) PROVE e[p] = AskOf(e, offset, p)
    <3>1. ASSUME NEW i \in DOMAIN Kids(tree, p) PROVE e[Append(p, i)] = f[Append(p, i)]
      <4>1. n # 0 /\ Append(p, i) \in Low(n - 1) /\ Append(p, i) \in Low(n)
        BY LowAre
      <4>2. e[Append(p, i)] = AskOf(f, offset, Append(p, i))
        BY <2>4, <4>1
      <4>3. f[Append(p, i)] = AskOf(f, offset, Append(p, i))
        BY <2>3, <4>1
      <4> QED BY <4>2, <4>3
    <3>2. p \in All
      BY DEF Low
    <3>3. AskOf(e, offset, p) = AskOf(f, offset, p)
      BY <3>1, <3>2, AskAgrees
    <3> QED BY <2>4, <3>3
  <2>6. e = [p \in Low(n) |-> e[p]]
    BY <2>4
  <2>7. Solves(e, n)
    BY <2>5, <2>6
  <2> HIDE DEF Solves
  <2> QED BY <2>1, <2>7
<1>2. PICK f : Solves(f, Depth)
  BY <1>1, DepthAssumption
<1>3. f = [p \in All |-> AskOf(f, offset, p)]
  BY <1>2, LowAre
<1> QED BY <1>3 DEF Asks

LEMMA TokenAtOffsetAsks ==
  ASSUME tree \in Trees, NEW offset
  PROVE  \E f : Asks(f, offset) /\ \A p \in All : TokenAtOffset(p, offset) = f[p]
<1>1. PICK f : f = CHOOSE g : Asks(g, offset)
  OBVIOUS
<1>2. Asks(f, offset)
  BY <1>1, AskedExists
<1>3. ASSUME NEW p \in All PROVE TokenAtOffset(p, offset) = f[p]
  BY <1>1 DEF TokenAtOffset, Asks, AskOf
<1> QED BY <1>2, <1>3

(* Tokens with text below a node are below one of its children. *)
LEMMA PrefixTrans ==
  ASSUME NEW p \in Seq(Nat), NEW q \in Seq(Nat), NEW r \in Seq(Nat), IsPrefix(p, q), IsPrefix(q, r)
  PROVE  IsPrefix(p, r)
<1>1. Len(p) <= Len(q) /\ Len(q) <= Len(r) /\ Len(p) \in Nat /\ Len(q) \in Nat /\ Len(r) \in Nat
  BY PrefixIs
<1>2. \A j \in 1 .. Len(p) : p[j] = q[j]
  BY PrefixIs
<1>3. \A j \in 1 .. Len(q) : q[j] = r[j]
  BY PrefixIs
<1>4. Len(p) <= Len(r) /\ \A j \in 1 .. Len(p) : p[j] = r[j]
  BY <1>1, <1>2, <1>3
<1> QED BY <1>4, PrefixIs

LEMMA TouchingBelow ==
  ASSUME tree \in Trees, NEW p \in All, ~ IsLeaf(tree, p), NEW offset \in Nat
  PROVE  /\ \A x \in TokensTouching(p, offset) :
              \E i \in Hits(p, offset) : x \in TokensTouching(Append(p, i), offset)
         /\ \A i \in DOMAIN Kids(tree, p) : TokensTouching(Append(p, i), offset) \subseteq TokensTouching(p, offset)
<1>1. ASSUME NEW x \in TokensTouching(p, offset)
      PROVE  \E i \in Hits(p, offset) : x \in TokensTouching(Append(p, i), offset)
  <2>1. x \in All /\ IsPrefix(p, x) /\ IsLeaf(tree, x) /\ ~ Empty(tree, x) /\ Touches(x, offset) /\ x # p
    BY DEF TokensTouching
  <2>2. PICK i \in DOMAIN Kids(tree, p) : IsPrefix(Append(p, i), x)
    BY <2>1, BelowIsBelowChild DEF All
  <2>3. Append(p, i) \in All
    BY ElementIs DEF All
  <2>4. Start(tree, Append(p, i)) <= Start(tree, x) /\ End(tree, x) <= End(tree, Append(p, i))
    BY <2>1, <2>2, <2>3, BelowIsInside DEF All
  <2>5. /\ Start(tree, x) \in Nat /\ End(tree, x) \in Nat /\ At(tree, x).len \in Nat
        /\ Start(tree, Append(p, i)) \in Nat /\ End(tree, Append(p, i)) \in Nat /\ At(tree, Append(p, i)).len \in Nat
    BY <2>1, <2>3, KidRanges, KidsAre DEF All, WellFormed
  <2>6. Touches(Append(p, i), offset)
    BY <2>1, <2>4, <2>5 DEF Touches
  <2>7. ~ Empty(tree, Append(p, i))
    BY <2>1, <2>4, <2>5 DEF Empty, End
  <2> QED BY <2>1, <2>2, <2>6, <2>7 DEF Hits, TokensTouching
<1>2. ASSUME NEW i \in DOMAIN Kids(tree, p), NEW x \in TokensTouching(Append(p, i), offset)
      PROVE  x \in TokensTouching(p, offset)
  <2>1. x \in All /\ IsPrefix(Append(p, i), x)
    BY DEF TokensTouching
  <2>2. p \in Seq(Nat) /\ x \in Seq(Nat) /\ i \in Nat /\ Append(p, i) \in Seq(Nat)
    BY <2>1, ElementIs, KidsAre DEF All, IsPath
  <2>3. IsPrefix(p, Append(p, i))
    BY <2>2, PrefixUp
  <2>4. IsPrefix(p, x)
    BY <2>1, <2>2, <2>3, PrefixTrans
  <2> QED BY <2>4 DEF TokensTouching
<1> QED BY <1>1, <1>2

(***************************************************************************)
(* The children asked: one or two, and the two meet at the offset.         *)
(***************************************************************************)
LEMMA HitsMeet ==
  ASSUME tree \in Trees, NEW p \in All, NEW offset \in Nat,
         NEW i \in Hits(p, offset), NEW j \in Hits(p, offset), i < j
  PROVE  /\ End(tree, Append(p, i)) = offset /\ Start(tree, Append(p, j)) = offset
         /\ Hits(p, offset) = {i, j}
<1> DEFINE S(k) == Start(tree, Append(p, k))
           E(k) == End(tree, Append(p, k))
<1>1. ASSUME NEW k \in Hits(p, offset)
      PROVE  /\ k \in Nat /\ S(k) \in Nat /\ E(k) \in Nat /\ S(k) < E(k) /\ S(k) <= offset /\ offset <= E(k)
             /\ \A l \in Hits(p, offset) : k < l => E(k) <= S(l)
  <2>1. k \in DOMAIN Kids(tree, p) /\ k \in Nat /\ Hits(p, offset) \subseteq DOMAIN Kids(tree, p)
    BY HitsAre
  <2>2. ~ Empty(tree, Append(p, k)) /\ Touches(Append(p, k), offset)
    BY DEF Hits
  <2>3. S(k) \in Nat /\ E(k) \in Nat /\ S(k) <= E(k) /\ \A l \in Hits(p, offset) : k < l => E(k) <= S(l)
    BY <2>1, KidRanges DEF All
  <2>4. S(k) # E(k)
    <3>1. At(tree, Append(p, k)).len \in Nat /\ At(tree, Append(p, k)).len # 0
      BY <2>1, <2>2, ElementIs, KidsAre DEF All, Empty, WellFormed
    <3> QED BY <2>3, <3>1 DEF End
  <2> QED BY <2>1, <2>2, <2>3, <2>4 DEF Touches
<1> HIDE DEF S, E
<1>2. E(i) = offset /\ S(j) = offset
  BY <1>1
<1>3. ASSUME NEW k \in Hits(p, offset), k # i, k # j PROVE FALSE
  <2>1. ~ (k < i)
    BY <1>1, <1>2
  <2>2. ~ (j < k)
    BY <1>1, <1>2
  <2>3. ~ (i < k /\ k < j)
    BY <1>1, <1>2
  <2> QED BY <1>1, <1>3, <2>1, <2>2, <2>3
<1> QED BY <1>2, <1>3 DEF S, E

LEMMA SomeHit ==
  ASSUME tree \in Trees, NEW p \in All, NEW offset \in Nat,
         ~ IsLeaf(tree, p), ~ Empty(tree, p), Touches(p, offset)
  PROVE  Hits(p, offset) # {}
<1> DEFINE S(k) == Start(tree, Append(p, k))
           E(k) == End(tree, Append(p, k))
<1>1. PICK n : n = Len(Kids(tree, p))
  OBVIOUS
<1>2. p \in Elements(tree, Depth) /\ n \in Nat /\ DOMAIN Kids(tree, p) = 1 .. n /\ WellFormed(At(tree, p))
  BY <1>1, KidsAre DEF All
<1>3. n > 0
  <2>1. SUFFICES ASSUME n = 0 PROVE FALSE
    BY <1>2
  <2>2. Kids(tree, p) = <<>> /\ LenOf(<<>>) = 0
    <3>1. PICK k, U : k = Kids(tree, p) /\ U = Range(k)
      OBVIOUS
    <3>2. k \in Seq(U) /\ Len(k) = 0
      BY <1>1, <1>2, <2>1, <3>1, KidsAre
    <3>3. k = <<>>
      BY <3>2
    <3>4. LenOf(k) = SumTo(KidLens(k), 0)
      BY <3>2, LenIsSum
    <3> QED BY <3>1, <3>3, <3>4, SumZero
  <2> QED BY <1>2, <2>2 DEF WellFormed, IsLeaf, Empty, Kids
<1>4. /\ Start(tree, p) \in Nat /\ End(tree, p) \in Nat /\ Start(tree, p) < End(tree, p)
      /\ Start(tree, p) <= offset /\ offset <= End(tree, p)
  <2>1. At(tree, p).len \in Nat /\ At(tree, p).len # 0
    BY <1>2 DEF WellFormed, Empty
  <2> QED BY <1>2, <2>1, KidRanges DEF End, Touches
<1>5. ASSUME NEW k \in 1 .. n
      PROVE  /\ S(k) \in Nat /\ E(k) \in Nat /\ S(k) <= E(k)
             /\ k = 1 => S(k) = Start(tree, p)
             /\ k = n => E(k) = End(tree, p)
             /\ k # 1 => k - 1 \in 1 .. n /\ E(k - 1) = S(k)
  <2>1. /\ S(k) \in Nat /\ E(k) \in Nat /\ S(k) <= E(k)
        /\ k = 1 => S(k) = Start(tree, p)
        /\ k = n => E(k) = End(tree, p)
    BY <1>1, <1>2, KidRanges
  <2>2. ASSUME k # 1 PROVE k - 1 \in 1 .. n /\ E(k - 1) = S(k)
    <3>1. PICK l \in 1 .. n : k = l + 1
      <4>1. k - 1 \in 1 .. n /\ k = (k - 1) + 1
        BY <1>2, <2>2
      <4> QED BY <4>1
    <3>2. E(l) = S(k)
      BY <1>2, <3>1, KidRanges
    <3>3. k - 1 = l
      BY <3>1
    <3> QED BY <3>2, <3>3
  <2> HIDE DEF S, E
  <2> QED BY <2>1, <2>2
<1> HIDE DEF S, E
(* The first child that ends behind the offset, or at the end of the text. *)
<1> DEFINE Behind == {k \in 1 .. n : offset < E(k) \/ (offset = End(tree, p) /\ E(k) = offset)}
<1>6. PICK k \in Behind : \A l \in Behind : k <= l
  <2>1. n \in 1 .. n
    BY <1>2, <1>3
  <2>2. E(n) = End(tree, p)
    BY <1>5, <2>1
  <2>3. n \in Behind /\ Behind \subseteq Nat
    BY <1>4, <2>1, <2>2
  <2> QED BY <2>3, LeastNumber
<1>7. S(k) <= offset /\ S(k) < E(k) /\ offset <= E(k)
  <2>1. CASE k = 1
    BY <1>4, <1>5, <1>6, <2>1
  <2>2. CASE k # 1
    <3>1. k - 1 \in 1 .. n /\ k - 1 \notin Behind
      BY <1>5, <1>6, <2>2
    <3>2. E(k - 1) \in Nat /\ ~ (offset < E(k - 1)) /\ ~ (offset = End(tree, p) /\ E(k - 1) = offset)
      BY <1>5, <3>1
    <3> QED BY <1>4, <1>5, <1>6, <2>2, <3>2
  <2> QED BY <2>1, <2>2
<1>8. ~ Empty(tree, Append(p, k))
  BY <1>5, <1>7 DEF S, E, End, Empty
<1>9. k \in Hits(p, offset)
  BY <1>2, <1>7, <1>8 DEF Hits, Touches, S, E
<1> QED BY <1>9

(***************************************************************************)
(* The answer for an element: no token if it has no text; one token; or    *)
(* two, if the offset is neither its start nor its end.                    *)
(***************************************************************************)
Right(a, p, offset) ==
  \/ a = Answer(<<>>) /\ TokensTouching(p, offset) = {} /\ Empty(tree, p)
  \/ \E x \in All : /\ a = Answer(<<x>>) /\ TokensTouching(p, offset) = {x}
                    /\ offset = Start(tree, p) => Start(tree, x) = offset
                    /\ offset = End(tree, p) => End(tree, x) = offset
  \/ \E x, y \in All : /\ a = Answer(<<x, y>>) /\ TokensTouching(p, offset) = {x, y}
                       /\ End(tree, x) = offset /\ Start(tree, y) = offset
                       /\ Start(tree, p) < offset /\ offset < End(tree, p)

(* Of a leaf and of an empty element. *)
LEMMA RightAtOnce ==
  ASSUME tree \in Trees, NEW offset \in Nat, NEW f, Asks(f, offset), NEW p \in All, Touches(p, offset),
         IsLeaf(tree, p) <=> ~ Empty(tree, p)
  PROVE  Right(f[p], p, offset)
<1>1. f[p] = AskOf(f, offset, p)
  BY DEF Asks
<1>2. CASE IsLeaf(tree, p)
  <2>1. f[p] = Answer(<<p>>)
    BY <1>1, <1>2 DEF AskOf
  <2>2. Kids(tree, p) = <<>>
    BY <1>2, KidsAre DEF All, WellFormed, IsLeaf, Kids
  <2>3. ASSUME NEW x \in TokensTouching(p, offset) PROVE x = p
    <3>1. x \in All /\ IsPrefix(p, x)
      BY DEF TokensTouching
    <3>2. DOMAIN Kids(tree, p) = {}
      BY <2>2
    <3> QED BY <3>1, <3>2, BelowIsBelowChild DEF All
  <2>4. IsPrefix(p, p)
    <3>1. p \in Seq(Nat)
      BY ElementIs DEF All, IsPath
    <3> QED BY <3>1, PrefixIs
  <2>5. p \in TokensTouching(p, offset)
    BY <1>2, <2>4 DEF TokensTouching
  <2>6. TokensTouching(p, offset) = {p}
    BY <2>3, <2>5
  <2> QED BY <2>1, <2>6 DEF Right
<1>3. CASE ~ IsLeaf(tree, p)
  <2>1. f[p] = Answer(<<>>)
    BY <1>1, <1>3 DEF AskOf
  <2>2. ASSUME NEW x \in TokensTouching(p, offset) PROVE FALSE
    <3>1. x \in All /\ IsPrefix(p, x) /\ ~ Empty(tree, x)
      BY DEF TokensTouching
    <3>2. Start(tree, p) <= Start(tree, x) /\ End(tree, x) <= End(tree, p)
      BY <3>1, BelowIsInside DEF All
    <3>3. /\ Start(tree, p) \in Nat /\ Start(tree, x) \in Nat
          /\ At(tree, x).len \in Nat /\ At(tree, x).len # 0 /\ At(tree, p).len = 0
      BY <1>3, <3>1, KidsAre, KidRanges DEF All, WellFormed, Empty
    <3> QED BY <3>2, <3>3 DEF End
  <2> QED BY <1>3, <2>1, <2>2 DEF Right
<1> QED BY <1>2, <1>3

(* Of a node with text, by the answers for its children. *)
LEMMA RightAbove ==
  ASSUME tree \in Trees, NEW offset \in Nat, NEW f, Asks(f, offset), NEW p \in All, Touches(p, offset),
         ~ IsLeaf(tree, p), ~ Empty(tree, p),
         \A i \in Hits(p, offset) : Right(f[Append(p, i)], Append(p, i), offset)
  PROVE  Right(f[p], p, offset)
<1>1. PICK H : H = Hits(p, offset)
  OBVIOUS
<1>2. f[p] = CASE Cardinality(H) = 1 -> f[Append(p, Min(H))]
               [] Cardinality(H) = 2 -> Between(f[Append(p, Min(H))], f[Append(p, Max(H))])
               [] OTHER -> Panic
  BY <1>1 DEF Asks, AskOf
<1>3. /\ H # {} /\ H \subseteq Nat /\ H \subseteq DOMAIN Kids(tree, p)
      /\ \A i \in H : Right(f[Append(p, i)], Append(p, i), offset)
  BY <1>1, SomeHit, HitsAre
<1>4. ASSUME NEW i \in H
      PROVE  /\ Start(tree, Append(p, i)) \in Nat /\ End(tree, Append(p, i)) \in Nat
             /\ Start(tree, p) \in Nat /\ End(tree, p) \in Nat
             /\ Start(tree, p) <= Start(tree, Append(p, i)) /\ End(tree, Append(p, i)) <= End(tree, p)
             /\ Start(tree, Append(p, i)) <= offset /\ offset <= End(tree, Append(p, i))
             /\ Start(tree, Append(p, i)) < End(tree, Append(p, i))
             /\ ~ Empty(tree, Append(p, i))
  <2>1. i \in DOMAIN Kids(tree, p) /\ ~ Empty(tree, Append(p, i)) /\ Touches(Append(p, i), offset)
    BY <1>1 DEF Hits
  <2>2. At(tree, Append(p, i)).len \in Nat /\ At(tree, Append(p, i)).len # 0
    BY <2>1, ElementIs, KidsAre DEF All, WellFormed, Empty
  <2> QED BY <2>1, <2>2, KidRanges DEF All, Touches, End
<1>5. PICK i \in H : \A j \in H : i <= j
  BY <1>3, LeastNumber
<1>6. CASE H = {i}
  <2>1. Cardinality(H) = 1 /\ Min(H) = i
    BY <1>6, FS_Singleton DEF Min
  <2>2. f[p] = f[Append(p, i)]
    BY <1>2, <2>1
  <2>3. TokensTouching(p, offset) = TokensTouching(Append(p, i), offset)
    <3>1. TokensTouching(Append(p, i), offset) \subseteq TokensTouching(p, offset)
      BY <1>3, TouchingBelow
    <3>2. ASSUME NEW x \in TokensTouching(p, offset) PROVE x \in TokensTouching(Append(p, i), offset)
      <4>1. PICK k \in Hits(p, offset) : x \in TokensTouching(Append(p, k), offset)
        BY TouchingBelow
      <4>2. k = i
        BY <1>1, <1>6
      <4> QED BY <4>1, <4>2
    <3> QED BY <3>1, <3>2
  <2>4. Right(f[Append(p, i)], Append(p, i), offset)
    BY <1>3
  <2>5. CASE \E x \in All : /\ f[Append(p, i)] = Answer(<<x>>) /\ TokensTouching(Append(p, i), offset) = {x}
                            /\ offset = Start(tree, Append(p, i)) => Start(tree, x) = offset
                            /\ offset = End(tree, Append(p, i)) => End(tree, x) = offset
    <3>1. PICK x \in All : /\ f[Append(p, i)] = Answer(<<x>>) /\ TokensTouching(Append(p, i), offset) = {x}
                           /\ offset = Start(tree, Append(p, i)) => Start(tree, x) = offset
                           /\ offset = End(tree, Append(p, i)) => End(tree, x) = offset
      BY <2>5
    <3>2. offset = Start(tree, p) => Start(tree, x) = offset
      BY <1>4, <3>1
    <3>3. offset = End(tree, p) => End(tree, x) = offset
      BY <1>4, <3>1
    <3> QED BY <2>2, <2>3, <3>1, <3>2, <3>3 DEF Right
  <2>6. CASE \E x, y \in All :
               /\ f[Append(p, i)] = Answer(<<x, y>>) /\ TokensTouching(Append(p, i), offset) = {x, y}
               /\ End(tree, x) = offset /\ Start(tree, y) = offset
               /\ Start(tree, Append(p, i)) < offset /\ offset < End(tree, Append(p, i))
    <3>1. Start(tree, p) < offset /\ offset < End(tree, p)
      BY <1>4, <2>6
    <3> QED BY <2>2, <2>3, <2>6, <3>1 DEF Right
  <2> QED BY <1>4, <2>4, <2>5, <2>6 DEF Right
<1>7. CASE H # {i}
  <2>1. PICK j \in H : i < j
    <3>1. PICK j \in H : j # i
      BY <1>7
    <3>2. i \in Nat /\ j \in Nat /\ i <= j
      BY <1>3, <1>5
    <3> QED BY <3>1, <3>2
  <2>2. End(tree, Append(p, i)) = offset /\ Start(tree, Append(p, j)) = offset /\ H = {i, j}
    BY <1>1, <2>1, HitsMeet
  <2>3. Cardinality(H) = 2 /\ Min(H) = i /\ Max(H) = j
    <3>1. i \in Nat /\ j \in Nat
      BY <1>3
    <3>2. Cardinality({i, j}) = 2
      <4>1. IsFiniteSet({i}) /\ Cardinality({i}) = 1
        BY FS_Singleton
      <4>2. {i} \cup {j} = {i, j} /\ j \notin {i}
        BY <2>1, <3>1
      <4> QED BY <4>1, <4>2, FS_AddElement
    <3> QED BY <2>1, <2>2, <3>1, <3>2 DEF Min, Max
  <2>4. f[p] = Between(f[Append(p, i)], f[Append(p, j)])
    BY <1>2, <2>3
  <2>5. PICK x \in All : /\ f[Append(p, i)] = Answer(<<x>>) /\ TokensTouching(Append(p, i), offset) = {x}
                         /\ End(tree, x) = offset
    <3>1. Right(f[Append(p, i)], Append(p, i), offset)
      BY <1>3
    <3>2. /\ ~ Empty(tree, Append(p, i)) /\ offset = End(tree, Append(p, i))
          /\ ~ (offset < End(tree, Append(p, i)))
      BY <1>4, <2>2
    <3> QED BY <3>1, <3>2 DEF Right
  <2>6. PICK y \in All : /\ f[Append(p, j)] = Answer(<<y>>) /\ TokensTouching(Append(p, j), offset) = {y}
                         /\ Start(tree, y) = offset
    <3>1. Right(f[Append(p, j)], Append(p, j), offset)
      BY <1>3
    <3>2. /\ ~ Empty(tree, Append(p, j)) /\ offset = Start(tree, Append(p, j))
          /\ ~ (Start(tree, Append(p, j)) < offset)
      BY <1>4, <2>2
    <3> QED BY <3>1, <3>2 DEF Right
  <2>7. f[p] = Answer(<<x, y>>)
    <3>1. Answer(<<x>>).tokens = <<x>> /\ Answer(<<y>>).tokens = <<y>>
          /\ ~ Answer(<<x>>).panics /\ ~ Answer(<<y>>).panics
      BY DEF Answer
    <3>2. Len(<<x>>) = 1 /\ Len(<<y>>) = 1 /\ <<x>> \o <<y>> = <<x, y>>
      <4>1. x \in All /\ y \in All
        OBVIOUS
      <4> HIDE <2>5, <2>6
      <4>2. <<x>> \in Seq(All) /\ <<y>> \in Seq(All) /\ <<x, y>> \in Seq(All)
        BY <4>1
      <4>3. Len(<<x>>) = 1 /\ Len(<<y>>) = 1 /\ Len(<<x, y>>) = 2
        OBVIOUS
      <4>4. <<x>> \o <<y>> = <<x, y>>
        <5>1. PICK u, v, w : u = <<x>> /\ v = <<y>> /\ w = u \o v
          OBVIOUS
        <5>2. u \in Seq(All) /\ v \in Seq(All) /\ Len(u) = 1 /\ Len(v) = 1 /\ u[1] = x /\ v[1] = y
          BY <4>2, <5>1
        <5>3. w \in Seq(All) /\ Len(w) = 2 /\ w[1] = x /\ w[2] = y
          BY <5>1, <5>2
        <5>4. w = <<x, y>>
          BY <5>3
        <5> QED BY <5>1, <5>4
      <4> QED BY <4>3, <4>4
    <3>3. Between(Answer(<<x>>), Answer(<<y>>)) = Answer(<<x, y>>)
      BY <3>1, <3>2 DEF Between
    <3> QED BY <2>4, <2>5, <2>6, <3>3
  <2>8. TokensTouching(p, offset) = {x, y}
    <3>1. \A k \in H : TokensTouching(Append(p, k), offset) \subseteq TokensTouching(p, offset)
      BY <1>3, TouchingBelow
    <3>2. ASSUME NEW z \in TokensTouching(p, offset) PROVE \E k \in H : z \in TokensTouching(Append(p, k), offset)
      BY <1>1, TouchingBelow
    <3> QED BY <2>2, <2>5, <2>6, <3>1, <3>2
  <2>9. Start(tree, p) < offset /\ offset < End(tree, p)
    BY <1>4, <2>2
  <2> QED BY <2>5, <2>6, <2>7, <2>8, <2>9 DEF Right
<1> QED BY <1>6, <1>7

(* So the answer is right for every element that is asked. *)
LEMMA AllRight ==
  ASSUME tree \in Trees, NEW offset \in Nat, NEW f, Asks(f, offset), NEW q \in All, Touches(q, offset),
         ~ (IsLeaf(tree, q) /\ Empty(tree, q))
  PROVE  Right(f[q], q, offset)
<1> DEFINE Asked(p) == Touches(p, offset) /\ ~ (IsLeaf(tree, p) /\ Empty(tree, p))
           Bad == {n \in Nat : \E p \in Low(n) : Asked(p) /\ ~ Right(f[p], p, offset)}
<1>1. Bad = {}
  <2> SUFFICES ASSUME Bad # {} PROVE FALSE
    OBVIOUS
  <2>1. PICK n \in Bad : \A k \in Bad : n <= k
    <3>1. Bad \subseteq Nat
      OBVIOUS
    <3> QED BY <3>1, LeastNumber
  <2>2. PICK p \in Low(n) : Asked(p) /\ ~ Right(f[p], p, offset)
    OBVIOUS
  <2>3. p \in All
    BY DEF Low
  <2>4. ~ IsLeaf(tree, p) /\ ~ Empty(tree, p)
    BY <2>2, <2>3, RightAtOnce
  <2>5. ASSUME NEW i \in Hits(p, offset) PROVE Right(f[Append(p, i)], Append(p, i), offset)
    <3>1. i \in DOMAIN Kids(tree, p) /\ Asked(Append(p, i))
      BY DEF Hits
    <3>2. n # 0 /\ Append(p, i) \in Low(n - 1)
      BY <3>1, LowAre
    <3>3. n - 1 \in Nat /\ ~ (n <= n - 1)
      BY <3>2
    <3>4. n - 1 \notin Bad
      BY <2>1, <3>3
    <3> HIDE DEF Asked
    <3> QED BY <3>1, <3>2, <3>3, <3>4
  <2> QED BY <2>2, <2>3, <2>4, <2>5, RightAbove
<1>2. q \in Low(Depth)
  BY LowAre
<1> QED BY <1>1, <1>2, DepthAssumption

(***************************************************************************)
(* token_at_offset never panics inside of the node, and finds the tokens   *)
(* with text that touch the offset, in order; whatever empty elements      *)
(* there are.                                                              *)
(***************************************************************************)
THEOREM TouchingTokensFound == Spec => []TokensFound
<1>1. LookupInv => TokensFound
  <2> SUFFICES ASSUME LookupInv, NEW p \in Nodes, NEW offset \in Start(tree, p) .. End(tree, p),
                      NEW answer, answer = TokenAtOffset(p, offset)
               PROVE  /\ ~ answer.panics
                      /\ Range(answer.tokens) = TokensTouching(p, offset)
                      /\ Len(answer.tokens) = 2 =>
                           End(tree, answer.tokens[1]) = offset /\ Start(tree, answer.tokens[2]) = offset
    BY DEF TokensFound
  <2>1. tree \in Trees /\ p \in All /\ ~ IsLeaf(tree, p)
    BY DEF LookupInv, Nodes
  <2>2. offset \in Nat /\ Touches(p, offset)
    BY <2>1, KidRanges DEF All, Touches
  <2>3. PICK f : Asks(f, offset) /\ \A q \in All : TokenAtOffset(q, offset) = f[q]
    BY <2>1, TokenAtOffsetAsks
  <2>4. Right(answer, p, offset)
    BY <2>1, <2>2, <2>3, AllRight
  <2>5. CASE answer = Answer(<<>>) /\ TokensTouching(p, offset) = {}
    <3>1. answer.tokens = <<>> /\ ~ answer.panics
      BY <2>5 DEF Answer
    <3> QED BY <2>5, <3>1 DEF Range
  <2>6. ASSUME NEW x \in All, answer = Answer(<<x>>), TokensTouching(p, offset) = {x}
        PROVE  /\ ~ answer.panics /\ Range(answer.tokens) = {x} /\ Len(answer.tokens) # 2
    <3>1. answer.tokens = <<x>> /\ ~ answer.panics
      BY <2>6 DEF Answer
    <3> QED BY <3>1 DEF Range
  <2>7. ASSUME NEW x \in All, NEW y \in All, answer = Answer(<<x, y>>)
        PROVE  /\ ~ answer.panics /\ Range(answer.tokens) = {x, y}
               /\ answer.tokens[1] = x /\ answer.tokens[2] = y
    <3>1. answer.tokens = <<x, y>> /\ ~ answer.panics
      BY <2>7 DEF Answer
    <3>2. DOMAIN <<x, y>> = {1, 2} /\ <<x, y>>[1] = x /\ <<x, y>>[2] = y
      OBVIOUS
    <3> QED BY <3>1, <3>2 DEF Range
  <2> QED BY <2>4, <2>5, <2>6, <2>7 DEF Right
<1> QED BY <1>1, LookupInvHolds, PTL

-----------------------------------------------------------------------------
(***************************************************************************)
(* The order of the tokens.  Everything is said for both directions at     *)
(* once: from the left to the right, or back.                              *)
(***************************************************************************)
Earlier(back, x, y) == IF back THEN Precedes(y, x) ELSE Precedes(x, y)

(* x and y part at d, x to the side one comes from. *)
PartAt(back, x, y, d) ==
  /\ d \in 1 .. Len(x) /\ d <= Len(y)
  /\ \A e \in 1 .. (d - 1) : x[e] = y[e]
  /\ IF back THEN y[d] < x[d] ELSE x[d] < y[d]

(* The first n steps of a path. *)
LEMMA Initial ==
  ASSUME NEW p \in Seq(Nat), NEW n \in Nat, n <= Len(p)
  PROVE  /\ SubSeq(p, 1, n) \in Seq(Nat) /\ Len(SubSeq(p, 1, n)) = n
         /\ \A e \in 1 .. n : SubSeq(p, 1, n)[e] = p[e]
OBVIOUS

LEMMA EarlierParts ==
  ASSUME NEW back \in BOOLEAN, NEW x \in Seq(Nat), NEW y \in Seq(Nat)
  PROVE  Earlier(back, x, y) <=> \E d \in Nat : PartAt(back, x, y, d)
<1>1. ASSUME NEW p \in Seq(Nat), NEW q \in Seq(Nat), NEW d \in DOMAIN p \cap DOMAIN q
      PROVE  SubSeq(p, 1, d - 1) = SubSeq(q, 1, d - 1) <=> \A e \in 1 .. (d - 1) : p[e] = q[e]
  <2>1. d \in Nat /\ d <= Len(p) /\ d <= Len(q) /\ d - 1 \in Nat
    <3>1. d \in 1 .. Len(p) /\ d \in 1 .. Len(q) /\ Len(p) \in Nat /\ Len(q) \in Nat
      OBVIOUS
    <3> QED BY <3>1
  <2>2. PICK u, v : u = SubSeq(p, 1, d - 1) /\ v = SubSeq(q, 1, d - 1)
    OBVIOUS
  <2>3. /\ u \in Seq(Nat) /\ Len(u) = d - 1 /\ \A e \in 1 .. (d - 1) : u[e] = p[e]
        /\ v \in Seq(Nat) /\ Len(v) = d - 1 /\ \A e \in 1 .. (d - 1) : v[e] = q[e]
    <3>1. d - 1 <= Len(p) /\ d - 1 <= Len(q)
      BY <2>1
    <3> QED BY <2>1, <2>2, <3>1, Initial
  <2>4. (\A e \in 1 .. (d - 1) : u[e] = v[e]) => u = v
    BY <2>3, SamePath
  <2> QED BY <2>2, <2>3, <2>4
<1>2. ASSUME NEW p \in Seq(Nat), NEW q \in Seq(Nat)
      PROVE  Precedes(p, q) <=> \E d \in Nat : PartAt(FALSE, p, q, d)
  <2>1. DOMAIN p = 1 .. Len(p) /\ DOMAIN q = 1 .. Len(q) /\ Len(p) \in Nat /\ Len(q) \in Nat
    OBVIOUS
  <2>2. ASSUME NEW d \in DOMAIN p \cap DOMAIN q, SubSeq(p, 1, d - 1) = SubSeq(q, 1, d - 1), p[d] < q[d]
        PROVE  d \in Nat /\ PartAt(FALSE, p, q, d)
    <3>1. \A e \in 1 .. (d - 1) : p[e] = q[e]
      BY <1>1, <2>2
    <3>2. d \in Nat /\ d \in 1 .. Len(p) /\ d <= Len(q)
      BY <2>1
    <3> QED BY <2>2, <3>1, <3>2 DEF PartAt
  <2>3. ASSUME NEW d \in Nat, PartAt(FALSE, p, q, d)
        PROVE  d \in DOMAIN p \cap DOMAIN q /\ SubSeq(p, 1, d - 1) = SubSeq(q, 1, d - 1) /\ p[d] < q[d]
    <3>1. d \in DOMAIN p \cap DOMAIN q
      BY <2>1, <2>3 DEF PartAt
    <3>2. \A e \in 1 .. (d - 1) : p[e] = q[e]
      BY <2>3 DEF PartAt
    <3>3. SubSeq(p, 1, d - 1) = SubSeq(q, 1, d - 1)
      BY <1>1, <3>1, <3>2
    <3> QED BY <2>3, <3>1, <3>3 DEF PartAt
  <2> QED BY <2>2, <2>3 DEF Precedes
<1>3. CASE back
  <2>1. Earlier(back, x, y) <=> \E d \in Nat : PartAt(FALSE, y, x, d)
    BY <1>2, <1>3 DEF Earlier
  <2>2. ASSUME NEW d \in Nat PROVE PartAt(FALSE, y, x, d) <=> PartAt(back, x, y, d)
    <3>1. (\A e \in 1 .. (d - 1) : y[e] = x[e]) <=> (\A e \in 1 .. (d - 1) : x[e] = y[e])
      OBVIOUS
    <3>2. d \in 1 .. Len(y) /\ d <= Len(x) <=> d \in 1 .. Len(x) /\ d <= Len(y)
      OBVIOUS
    <3> QED BY <1>3, <3>1, <3>2 DEF PartAt
  <2> QED BY <2>1, <2>2
<1>4. CASE ~ back
  <2>1. Earlier(back, x, y) <=> \E d \in Nat : PartAt(FALSE, x, y, d)
    BY <1>2, <1>4 DEF Earlier
  <2>2. back = FALSE
    BY <1>4
  <2> QED BY <2>1, <2>2
<1> QED BY <1>3, <1>4

LEMMA EarlierIsOrder ==
  ASSUME NEW back \in BOOLEAN, NEW x \in Seq(Nat), NEW y \in Seq(Nat), Earlier(back, x, y)
  PROVE  x # y /\ ~ Earlier(back, y, x)
<1>1. PICK d \in Nat : PartAt(back, x, y, d)
  BY EarlierParts
<1>2. x[d] \in Nat /\ y[d] \in Nat /\ x[d] # y[d]
  BY <1>1 DEF PartAt
<1>3. ASSUME NEW e \in Nat, PartAt(back, y, x, e) PROVE FALSE
  <2>1. x[e] \in Nat /\ y[e] \in Nat /\ x[e] # y[e]
    BY <1>3 DEF PartAt
  <2>2. ~ (e < d)
    BY <1>1, <1>3, <2>1 DEF PartAt
  <2>3. ~ (d < e)
    BY <1>1, <1>2, <1>3 DEF PartAt
  <2>4. d = e
    BY <2>2, <2>3
  <2> QED BY <1>1, <1>2, <1>3, <2>4 DEF PartAt
<1> QED BY <1>2, <1>3, EarlierParts

(* The elements above an element. *)
LEMMA AboveIsElement ==
  ASSUME tree \in Trees, NEW x \in All, NEW d \in 1 .. Len(x)
  PROVE  /\ SubSeq(x, 1, d - 1) \in All
         /\ x[d] \in DOMAIN Kids(tree, SubSeq(x, 1, d - 1))
         /\ IsPrefix(Append(SubSeq(x, 1, d - 1), x[d]), x)
<1> DEFINE Holds(p) == \A e \in 1 .. Len(p) : /\ SubSeq(p, 1, e - 1) \in All
                                              /\ p[e] \in DOMAIN Kids(tree, SubSeq(p, 1, e - 1))
           Bad == {l \in Nat : \E p \in All : l = Len(p) /\ ~ Holds(p)}
<1>1. Bad = {}
  <2> SUFFICES ASSUME Bad # {} PROVE FALSE
    OBVIOUS
  <2>1. PICK l \in Bad : \A k \in Bad : l <= k
    <3>1. Bad \subseteq Nat
      OBVIOUS
    <3> QED BY <3>1, LeastNumber
  <2>2. PICK p \in All : l = Len(p) /\ ~ Holds(p)
    OBVIOUS
  <2>3. p # <<>>
    BY <2>2
  <2>4. PICK r \in All : \E j \in DOMAIN Kids(tree, r) : p = Append(r, j)
    BY <2>3, ElementIs DEF All
  <2> PICK j \in DOMAIN Kids(tree, r) : p = Append(r, j)
    BY <2>4
  <2>5. r \in Seq(Nat) /\ Len(r) \in Nat /\ j \in Nat /\ Len(p) = Len(r) + 1
    <3>1. r \in Elements(tree, Depth)
      BY DEF All
    <3>2. r \in Seq(Nat) /\ Len(r) \in Nat
      BY <3>1, ElementIs DEF IsPath
    <3>3. j \in Nat
      BY <3>1, KidsAre
    <3> QED BY <3>2, <3>3
  <2>6. Holds(r)
    <3> HIDE DEF Holds
    <3>1. Len(r) < l
      BY <2>2, <2>5
    <3>2. Len(r) \notin Bad
      BY <2>1, <2>5, <3>1
    <3> QED BY <2>5, <3>2
  <2>7. ASSUME NEW e \in 1 .. Len(p)
        PROVE  SubSeq(p, 1, e - 1) \in All /\ p[e] \in DOMAIN Kids(tree, SubSeq(p, 1, e - 1))
    <3>1. SubSeq(p, 1, e - 1) = SubSeq(r, 1, e - 1)
      BY <2>5
    <3>2. CASE e = Len(p)
      <4>1. SubSeq(r, 1, e - 1) = r /\ p[e] = j
        BY <2>5, <3>2
      <4> QED BY <3>1, <4>1
    <3>3. CASE e # Len(p)
      <4>1. e \in 1 .. Len(r) /\ p[e] = r[e]
        BY <2>5, <3>3
      <4> QED BY <2>6, <3>1, <4>1
    <3> QED BY <3>2, <3>3
  <2> QED BY <2>2, <2>7
<1>2. x \in Seq(Nat) /\ Len(x) \in Nat
  BY ElementIs DEF All, IsPath
<1>3. IsPrefix(Append(SubSeq(x, 1, d - 1), x[d]), x)
  <2>1. PICK q : q = Append(SubSeq(x, 1, d - 1), x[d])
    OBVIOUS
  <2>2. q \in Seq(Nat) /\ Len(q) = d /\ \A e \in 1 .. d : q[e] = x[e]
    <3>1. d \in Nat /\ d - 1 \in Nat /\ d - 1 <= Len(x) /\ x[d] \in Nat /\ (d - 1) + 1 = d
      BY <1>2
    <3>2. PICK u : u = SubSeq(x, 1, d - 1)
      OBVIOUS
    <3>3. u \in Seq(Nat) /\ Len(u) = d - 1 /\ \A e \in 1 .. (d - 1) : u[e] = x[e]
      BY <1>2, <3>1, <3>2, Initial
    <3>4. q = Append(u, x[d])
      BY <2>1, <3>2
    <3>5. q \in Seq(Nat) /\ Len(q) = d /\ q[d] = x[d] /\ \A e \in 1 .. (d - 1) : q[e] = u[e]
      BY ONLY <3>1, <3>3, <3>4
    <3> QED BY ONLY <3>1, <3>3, <3>5
  <2>3. Len(q) <= Len(x) /\ \A e \in 1 .. Len(q) : q[e] = x[e]
    BY <1>2, <2>2
  <2> QED BY <1>2, <2>1, <2>2, <2>3, PrefixIs
<1>4. Holds(x)
  BY <1>1, <1>2
<1> QED BY <1>3, <1>4

(* Nothing is below a token. *)
LEMMA BelowToken ==
  ASSUME tree \in Trees, NEW x \in Tokens(tree), NEW y \in All, IsPrefix(x, y)
  PROVE  x = y
<1>1. x \in All /\ IsLeaf(tree, x)
  BY DEF Tokens, All
<1>2. Kids(tree, x) = <<>>
  BY <1>1, KidsAre DEF All, WellFormed, IsLeaf, Kids
<1>3. DOMAIN Kids(tree, x) = {}
  BY <1>2
<1> QED BY <1>1, <1>3, BelowIsBelowChild DEF All

LEMMA TokensCompare ==
  ASSUME tree \in Trees, NEW back \in BOOLEAN, NEW x \in Tokens(tree), NEW y \in Tokens(tree), x # y
  PROVE  Earlier(back, x, y) \/ Earlier(back, y, x)
<1>1. x \in All /\ y \in All /\ x \in Seq(Nat) /\ y \in Seq(Nat) /\ Len(x) \in Nat /\ Len(y) \in Nat
  <2>1. x \in All /\ y \in All
    BY DEF Tokens, All
  <2> QED BY <2>1, ElementIs DEF All, IsPath
<1> DEFINE Differ == {d \in 1 .. Len(x) : d <= Len(y) /\ x[d] # y[d]}
<1>2. Differ # {}
  <2> SUFFICES ASSUME Differ = {} PROVE FALSE
    OBVIOUS
  <2>1. CASE Len(x) <= Len(y)
    <3>1. ASSUME NEW d \in 1 .. Len(x) PROVE x[d] = y[d]
      <4>1. d <= Len(y)
        BY <1>1, <2>1
      <4> QED BY <4>1
    <3>2. IsPrefix(x, y)
      BY <1>1, <2>1, <3>1, PrefixIs
    <3> QED BY <1>1, <3>2, BelowToken
  <2>2. CASE Len(y) <= Len(x)
    <3>1. ASSUME NEW d \in 1 .. Len(y) PROVE y[d] = x[d]
      <4>1. d \in 1 .. Len(x) /\ d <= Len(y)
        BY <1>1, <2>2
      <4> QED BY <4>1
    <3>2. IsPrefix(y, x)
      BY <1>1, <2>2, <3>1, PrefixIs
    <3> QED BY <1>1, <3>2, BelowToken
  <2> QED BY <1>1, <2>1, <2>2
<1>3. PICK d \in Differ : \A e \in Differ : d <= e
  <2>1. Differ \subseteq Nat
    OBVIOUS
  <2> QED BY <1>2, <2>1, LeastNumber
<1>4. ASSUME NEW e \in 1 .. (d - 1) PROVE x[e] = y[e]
  <2>1. e \in 1 .. Len(x) /\ e <= Len(y) /\ ~ (d <= e)
    BY <1>1
  <2> QED BY <1>3, <2>1
<1>5. d \in Nat /\ d \in 1 .. Len(x) /\ d \in 1 .. Len(y) /\ x[d] # y[d] /\ x[d] \in Nat /\ y[d] \in Nat
  BY <1>1
<1>6. PartAt(back, x, y, d) \/ PartAt(back, y, x, d)
  BY <1>4, <1>5 DEF PartAt
<1> QED BY <1>1, <1>5, <1>6, EarlierParts

(***************************************************************************)
(* first_token and last_token: the function they evaluate exists, and it   *)
(* gives the outermost token, if any.                                      *)
(***************************************************************************)
Slot(back, p) == IF back THEN Len(Kids(tree, p)) ELSE FirstSlot(tree, p)

EdgeOf(back, f, p) ==
  IF IsLeaf(tree, p) THEN {p}
  ELSE IF Kids(tree, p) = <<>> THEN {}
  ELSE f[Append(p, Slot(back, p))]

Edges(back, f) == f = [p \in All |-> EdgeOf(back, f, p)]

LEMMA SlotIs ==
  ASSUME tree \in Trees, NEW back \in BOOLEAN, NEW p \in All, Kids(tree, p) # <<>>
  PROVE  /\ Slot(back, p) \in DOMAIN Kids(tree, p)
         /\ \A i \in DOMAIN Kids(tree, p) : IF back THEN i <= Slot(back, p) ELSE Slot(back, p) <= i
<1>1. PICK n : n = Len(Kids(tree, p))
  OBVIOUS
<1>2. PICK k, U : k = Kids(tree, p) /\ U = Range(k)
  OBVIOUS
<1>3. k \in Seq(U) /\ k # <<>> /\ n = Len(k)
  BY <1>1, <1>2, KidsAre DEF All
<1>4. n \in Nat /\ n # 0 /\ DOMAIN Kids(tree, p) = 1 .. n
  BY <1>2, <1>3
<1> QED BY <1>1, <1>4 DEF Slot, FirstSlot

LEMMA EdgesExist ==
  ASSUME tree \in Trees, NEW back \in BOOLEAN
  PROVE  \E f : Edges(back, f)
<1> DEFINE Solves(f, n) == f = [p \in Low(n) |-> EdgeOf(back, f, p)]
           Bad == {n \in Nat : ~ \E f : Solves(f, n)}
<1>1. Bad = {}
  <2> SUFFICES ASSUME Bad # {} PROVE FALSE
    OBVIOUS
  <2>1. PICK n \in Bad : \A k \in Bad : n <= k
    <3>1. Bad \subseteq Nat
      OBVIOUS
    <3> QED BY <3>1, LeastNumber
  <2>2. \E f : n # 0 => Solves(f, n - 1)
    <3>1. CASE n = 0
      BY <3>1
    <3>2. CASE n # 0
      <4>1. n - 1 \in Nat /\ ~ (n <= n - 1)
        BY <3>2
      <4> QED BY <2>1, <4>1
    <3> QED BY <3>1, <3>2
  <2>3. PICK f : n # 0 => Solves(f, n - 1)
    BY <2>2
  <2>4. PICK e : e = [p \in Low(n) |-> EdgeOf(back, f, p)]
    OBVIOUS
  <2>5. ASSUME NEW p \in Low(n) PROVE e[p] = EdgeOf(back, e, p)
    <3>1. p \in All
      BY DEF Low
    <3>2. ASSUME Kids(tree, p) # <<>> PROVE e[Append(p, Slot(back, p))] = f[Append(p, Slot(back, p))]
      <4>1. Slot(back, p) \in DOMAIN Kids(tree, p)
        BY <3>1, <3>2, SlotIs
      <4>2. PICK c : c = Append(p, Slot(back, p))
        OBVIOUS
      <4>3. n # 0 /\ c \in Low(n - 1) /\ c \in Low(n)
        BY <4>1, <4>2, LowAre
      <4>4. e[c] = EdgeOf(back, f, c)
        BY <2>4, <4>3
      <4>5. f[c] = EdgeOf(back, f, c)
        BY <2>3, <4>3
      <4> QED BY <4>2, <4>4, <4>5
    <3>3. EdgeOf(back, e, p) = EdgeOf(back, f, p)
      BY <3>2 DEF EdgeOf
    <3> QED BY <2>4, <3>3
  <2>6. e = [p \in Low(n) |-> e[p]]
    BY <2>4
  <2>7. Solves(e, n)
    BY <2>5, <2>6
  <2> HIDE DEF Solves
  <2> QED BY <2>1, <2>7
<1>2. PICK f : Solves(f, Depth)
  BY <1>1, DepthAssumption
<1>3. f = [p \in All |-> EdgeOf(back, f, p)]
  BY <1>2, LowAre
<1> QED BY <1>3 DEF Edges

(* The first and the last token, as the values of one function each. *)
EdgeTokens(back, p) == IF back THEN LastToken(tree, p) ELSE FirstToken(tree, p)

LEMMA EdgeTokensAre ==
  ASSUME tree \in Trees, NEW back \in BOOLEAN
  PROVE  \E f : Edges(back, f) /\ \A p \in All : EdgeTokens(back, p) = f[p]
<1>1. PICK f : f = CHOOSE g : Edges(back, g)
  OBVIOUS
<1>2. Edges(back, f)
  BY <1>1, EdgesExist
<1>3. ASSUME NEW p \in All PROVE EdgeTokens(back, p) = f[p]
  <2>1. CASE back
    <3>1. back = TRUE
      BY <2>1
    <3> QED BY <1>1, <3>1 DEF EdgeTokens, LastToken, Edges, EdgeOf, Slot, All
  <2>2. CASE ~ back
    <3>1. back = FALSE
      BY <2>2
    <3> QED BY <1>1, <3>1 DEF EdgeTokens, FirstToken, Edges, EdgeOf, Slot, All
  <2> QED BY <2>1, <2>2
<1> QED BY <1>2, <1>3

(* What is below one child is before what is below a later one. *)
LEMMA KidsApart ==
  ASSUME NEW back \in BOOLEAN, NEW p \in Seq(Nat), NEW i \in Nat, NEW j \in Nat,
         IF back THEN j < i ELSE i < j,
         NEW x \in Seq(Nat), NEW y \in Seq(Nat), IsPrefix(Append(p, i), x), IsPrefix(Append(p, j), y)
  PROVE  Earlier(back, x, y)
<1>1. PICK n, u, v : n = Len(p) /\ u = Append(p, i) /\ v = Append(p, j)
  OBVIOUS
<1>2. /\ n \in Nat /\ u \in Seq(Nat) /\ v \in Seq(Nat) /\ Len(u) = n + 1 /\ Len(v) = n + 1
      /\ u[n + 1] = i /\ v[n + 1] = j /\ \A e \in 1 .. n : u[e] = p[e] /\ v[e] = p[e]
  BY <1>1
<1>3. n + 1 <= Len(x) /\ \A e \in 1 .. (n + 1) : u[e] = x[e]
  <2>1. IsPrefix(u, x)
    BY <1>1
  <2>2. Len(u) <= Len(x) /\ \A e \in 1 .. Len(u) : u[e] = x[e]
    BY <1>2, <2>1, PrefixIs
  <2> QED BY <1>2, <2>2
<1>4. n + 1 <= Len(y) /\ \A e \in 1 .. (n + 1) : v[e] = y[e]
  <2>1. IsPrefix(v, y)
    BY <1>1
  <2>2. Len(v) <= Len(y) /\ \A e \in 1 .. Len(v) : v[e] = y[e]
    BY <1>2, <2>1, PrefixIs
  <2> QED BY <1>2, <2>2
<1>5. x[n + 1] = i /\ y[n + 1] = j /\ \A e \in 1 .. n : x[e] = y[e]
  <2>1. n + 1 \in 1 .. (n + 1) /\ \A e \in 1 .. n : e \in 1 .. (n + 1)
    BY <1>2
  <2> QED BY ONLY <1>2, <1>3, <1>4, <2>1
<1>6. n + 1 \in Nat /\ n + 1 \in 1 .. Len(x) /\ (n + 1) - 1 = n
  BY <1>2, <1>3
<1>7. PartAt(back, x, y, n + 1)
  BY <1>4, <1>5, <1>6 DEF PartAt
<1> QED BY <1>6, <1>7, EarlierParts

LEMMA EdgeIs ==
  ASSUME tree \in Trees, NEW back \in BOOLEAN, NEW f, Edges(back, f), NEW q \in All
  PROVE  /\ \A r \in f[q] : /\ r \in Tokens(tree) /\ IsPrefix(q, r)
                            /\ \A x \in Tokens(tree) : IsPrefix(q, x) => x = r \/ Earlier(back, r, x)
         /\ NoEmptyNodes(tree) => f[q] # {}
<1> DEFINE Outer(p) ==
             /\ \A r \in f[p] : /\ r \in Tokens(tree) /\ IsPrefix(p, r)
                                /\ \A x \in Tokens(tree) : IsPrefix(p, x) => x = r \/ Earlier(back, r, x)
             /\ NoEmptyNodes(tree) => f[p] # {}
           Bad == {n \in Nat : \E p \in Low(n) : ~ Outer(p)}
<1>1. Bad = {}
  <2> SUFFICES ASSUME Bad # {} PROVE FALSE
    OBVIOUS
  <2>1. PICK n \in Bad : \A k \in Bad : n <= k
    <3>1. Bad \subseteq Nat
      OBVIOUS
    <3> QED BY <3>1, LeastNumber
  <2>2. PICK p \in Low(n) : ~ Outer(p)
    OBVIOUS
  <2>3. p \in All /\ p \in Seq(Nat)
    <3>1. p \in All
      BY DEF Low
    <3> QED BY <3>1, ElementIs DEF All, IsPath
  <2>4. f[p] = EdgeOf(back, f, p)
    BY <2>3 DEF Edges
  <2>5. CASE IsLeaf(tree, p)
    <3>1. f[p] = {p} /\ p \in Tokens(tree)
      BY <2>3, <2>4, <2>5 DEF EdgeOf, Tokens, All
    <3>2. IsPrefix(p, p)
      BY <2>3, PrefixIs
    <3>3. ASSUME NEW x \in Tokens(tree), IsPrefix(p, x) PROVE x = p
      <4>1. x \in All
        BY DEF Tokens, All
      <4> QED BY <3>1, <3>3, <4>1, BelowToken
    <3> QED BY <2>2, <3>1, <3>2, <3>3
  <2>6. CASE ~ IsLeaf(tree, p) /\ Kids(tree, p) = <<>>
    <3>1. f[p] = {} /\ ~ NoEmptyNodes(tree)
      BY <2>3, <2>4, <2>6 DEF EdgeOf, NoEmptyNodes, All
    <3> QED BY <2>2, <3>1
  <2>7. CASE ~ IsLeaf(tree, p) /\ Kids(tree, p) # <<>>
    <3>1. PICK s, c : s = Slot(back, p) /\ c = Append(p, s)
      OBVIOUS
    <3>2. /\ s \in DOMAIN Kids(tree, p)
          /\ \A i \in DOMAIN Kids(tree, p) : IF back THEN i <= s ELSE s <= i
      BY <2>3, <2>7, <3>1, SlotIs
    <3>3. f[p] = f[c]
      BY <2>4, <2>7, <3>1 DEF EdgeOf
    <3>4. Outer(c)
      <4>1. n # 0 /\ c \in Low(n - 1)
        BY <3>1, <3>2, LowAre
      <4>2. n - 1 \in Nat /\ ~ (n <= n - 1)
        BY <4>1
      <4>3. n - 1 \notin Bad
        BY <2>1, <4>2
      <4> HIDE DEF Outer
      <4> QED BY <4>1, <4>2, <4>3
    <3>5. s \in Nat /\ c \in Seq(Nat) /\ IsPrefix(p, c)
      <4>1. s \in Nat
        BY <2>3, <3>2, KidsAre DEF All
      <4> QED BY <2>3, <3>1, <4>1, PrefixUp
    <3>6. ASSUME NEW r \in f[p]
          PROVE  r \in Tokens(tree) /\ IsPrefix(p, r) /\ IsPrefix(c, r) /\ r \in Seq(Nat)
      <4>1. r \in Tokens(tree) /\ IsPrefix(c, r)
        BY <3>3, <3>4
      <4>2. r \in Seq(Nat)
        BY <4>1, ElementIs DEF Tokens, IsPath
      <4> QED BY <2>3, <3>5, <4>1, <4>2, PrefixTrans
    <3>7. ASSUME NEW r \in f[p], NEW x \in Tokens(tree), IsPrefix(p, x)
          PROVE  x = r \/ Earlier(back, r, x)
      <4>1. x \in All /\ x # p /\ x \in Seq(Nat)
        <5>1. x \in All /\ IsLeaf(tree, x)
          BY DEF Tokens, All
        <5> QED BY <2>7, <5>1, ElementIs DEF All, IsPath
      <4>2. PICK i \in DOMAIN Kids(tree, p) : IsPrefix(Append(p, i), x)
        BY <2>3, <3>7, <4>1, BelowIsBelowChild DEF All
      <4>3. CASE i = s
        BY <3>1, <3>3, <3>4, <4>2, <4>3
      <4>4. CASE i # s
        <5>1. i \in Nat
          BY <2>3, KidsAre DEF All
        <5>2. IF back THEN i < s ELSE s < i
          BY <3>2, <3>5, <4>4, <5>1
        <5> QED BY <2>3, <3>1, <3>5, <3>6, <4>1, <4>2, <5>1, <5>2, KidsApart
      <4> QED BY <4>3, <4>4
    <3>8. NoEmptyNodes(tree) => f[p] # {}
      BY <3>3, <3>4
    <3> QED BY <2>2, <3>6, <3>7, <3>8
  <2> QED BY <2>5, <2>6, <2>7
<1>2. q \in Low(Depth)
  BY LowAre
<1> QED BY <1>1, <1>2, DepthAssumption

(***************************************************************************)
(* next_token and prev_token: the sibling they go to, if any, is the one   *)
(* of the lowest element above the token that has one.                     *)
(***************************************************************************)
Step(back) == IF back THEN -1 ELSE 1

HasSibling(p, step, d) == p[d] + step \in DOMAIN Kids(tree, SubSeq(p, 1, d - 1))

SiblingAt(p, step, d) == Append(SubSeq(p, 1, d - 1), p[d] + step)

Lowest(p, step, d) ==
  /\ d \in 1 .. Len(p)
  /\ HasSibling(p, step, d)
  /\ \A e \in 1 .. Len(p) : d < e => ~ HasSibling(p, step, e)

LEMMA SiblingIs ==
  ASSUME NEW p \in Seq(Nat), NEW step, NEW d \in 1 .. Len(p)
  PROVE  /\ Len(SubSeq(p, 1, d)) = d
         /\ Sibling(tree, SubSeq(p, 1, d), step) =
              IF HasSibling(p, step, d) THEN {SiblingAt(p, step, d)} ELSE {}
<1>1. d \in Nat /\ d - 1 \in Nat /\ d <= Len(p) /\ d - 1 <= Len(p)
  OBVIOUS
<1>2. PICK q : q = SubSeq(p, 1, d)
  OBVIOUS
<1>3. q \in Seq(Nat) /\ Len(q) = d /\ q[d] = p[d]
  BY <1>1, <1>2, Initial
<1>4. Last(q) = p[d]
  BY <1>3 DEF Last
<1>5. Front(q) = SubSeq(p, 1, d - 1)
  <2>1. PICK u, v : u = Front(q) /\ v = SubSeq(p, 1, d - 1)
    OBVIOUS
  <2>2. u = SubSeq(q, 1, d - 1)
    BY <1>3, <2>1 DEF Front
  <2>3. u \in Seq(Nat) /\ Len(u) = d - 1 /\ \A e \in 1 .. (d - 1) : u[e] = q[e]
    BY <1>1, <1>3, <2>2, Initial
  <2>4. v \in Seq(Nat) /\ Len(v) = d - 1 /\ \A e \in 1 .. (d - 1) : v[e] = p[e]
    BY <1>1, <2>1, Initial
  <2>5. \A e \in 1 .. (d - 1) : q[e] = p[e]
    <3>1. \A e \in 1 .. d : q[e] = p[e]
      BY <1>1, <1>2, Initial
    <3> QED BY <1>1, <3>1
  <2>6. \A e \in 1 .. (d - 1) : u[e] = v[e]
    BY <2>3, <2>4, <2>5
  <2> QED BY <2>1, <2>3, <2>4, <2>6, SamePath
<1>6. Sibling(tree, q, step) =
        {Append(SubSeq(p, 1, d - 1), i) : i \in {p[d] + step} \cap DOMAIN Kids(tree, SubSeq(p, 1, d - 1))}
  BY <1>4, <1>5 DEF Sibling
<1> QED BY <1>2, <1>3, <1>6 DEF HasSibling, SiblingAt

LEMMA NeighbourIs ==
  ASSUME NEW p \in Seq(Nat), NEW step, NEW s
  PROVE  s \in Neighbour(tree, p, step) <=> \E d \in Nat : Lowest(p, step, d) /\ s = SiblingAt(p, step, d)
<1> DEFINE having == {q \in Upwards(p) : Sibling(tree, q, step) # {}}
<1>1. Len(p) \in Nat
  OBVIOUS
<1>2. ASSUME NEW d \in 1 .. Len(p), Lowest(p, step, d)
      PROVE  SiblingAt(p, step, d) \in Neighbour(tree, p, step)
  <2>1. PICK q : q = SubSeq(p, 1, d)
    OBVIOUS
  <2>2. Sibling(tree, q, step) = {SiblingAt(p, step, d)} /\ Len(q) = d /\ q \in Upwards(p)
    BY <1>2, <2>1, SiblingIs DEF Lowest, Upwards
  <2>3. ASSUME NEW r \in having PROVE Len(r) <= Len(q)
    <3>1. PICK e \in 1 .. Len(p) : r = SubSeq(p, 1, e)
      BY DEF Upwards
    <3>2. Len(r) = e /\ HasSibling(p, step, e)
      BY <3>1, SiblingIs
    <3>3. ~ (d < e)
      BY <1>2, <3>2 DEF Lowest
    <3> QED BY <2>2, <3>2, <3>3
  <2>4. q \in {z \in having : \A r \in having : Len(r) <= Len(z)}
    BY <2>2, <2>3
  <2> QED BY <2>2, <2>4 DEF Neighbour
<1>3. ASSUME s \in Neighbour(tree, p, step)
      PROVE  \E d \in Nat : Lowest(p, step, d) /\ s = SiblingAt(p, step, d)
  <2>1. PICK q \in having : (\A r \in having : Len(r) <= Len(q)) /\ s \in Sibling(tree, q, step)
    BY <1>3 DEF Neighbour
  <2>2. PICK d \in 1 .. Len(p) : q = SubSeq(p, 1, d)
    BY DEF Upwards
  <2>3. HasSibling(p, step, d) /\ s = SiblingAt(p, step, d) /\ Len(q) = d
    <3>1. Sibling(tree, q, step) = IF HasSibling(p, step, d) THEN {SiblingAt(p, step, d)} ELSE {}
      BY <2>2, SiblingIs
    <3>2. Len(q) = d
      BY <2>2, SiblingIs
    <3>3. s \in Sibling(tree, q, step)
      BY <2>1
    <3>4. s \in IF HasSibling(p, step, d) THEN {SiblingAt(p, step, d)} ELSE {}
      BY ONLY <3>1, <3>3
    <3> QED BY ONLY <3>2, <3>4
  <2>4. ASSUME NEW e \in 1 .. Len(p), d < e, HasSibling(p, step, e) PROVE FALSE
    <3>1. PICK r : r = SubSeq(p, 1, e)
      OBVIOUS
    <3>2. Sibling(tree, r, step) = {SiblingAt(p, step, e)} /\ Len(r) = e /\ r \in Upwards(p)
      BY <2>4, <3>1, SiblingIs DEF Upwards
    <3>3. r \in having
      BY <3>2
    <3>4. Len(r) <= Len(q)
      BY <2>1, <3>3
    <3> QED BY <2>3, <2>4, <3>2, <3>4
  <2> QED BY <2>3, <2>4 DEF Lowest
<1>4. \A d \in Nat : Lowest(p, step, d) => d \in 1 .. Len(p)
  BY DEF Lowest
<1> QED BY <1>2, <1>3, <1>4

(* Where a token parts from a later one it has a sibling. *)
LEMMA PartsAtSibling ==
  ASSUME tree \in Trees, NEW back \in BOOLEAN, NEW t \in All, NEW x \in All,
         NEW e \in Nat, PartAt(back, t, x, e)
  PROVE  HasSibling(t, Step(back), e)
<1>1. e \in 1 .. Len(t) /\ e <= Len(x) /\ t \in Seq(Nat) /\ x \in Seq(Nat)
  <2>1. e \in 1 .. Len(t) /\ e <= Len(x)
    BY DEF PartAt
  <2> QED BY <2>1, ElementIs DEF All, IsPath
<1>2. e \in 1 .. Len(x) /\ e - 1 \in Nat /\ e - 1 <= Len(t) /\ e - 1 <= Len(x)
  BY <1>1
<1>3. PICK u, v : u = SubSeq(t, 1, e - 1) /\ v = SubSeq(x, 1, e - 1)
  OBVIOUS
<1>4. u = v
  <2>1. u \in Seq(Nat) /\ Len(u) = e - 1 /\ \A d \in 1 .. (e - 1) : u[d] = t[d]
    BY <1>1, <1>2, <1>3, Initial
  <2>2. v \in Seq(Nat) /\ Len(v) = e - 1 /\ \A d \in 1 .. (e - 1) : v[d] = x[d]
    BY <1>1, <1>2, <1>3, Initial
  <2>3. \A d \in 1 .. (e - 1) : t[d] = x[d]
    BY DEF PartAt
  <2>4. \A d \in 1 .. (e - 1) : u[d] = v[d]
    BY <2>1, <2>2, <2>3
  <2> QED BY <2>1, <2>2, <2>4, SamePath
<1>5. u \in All /\ t[e] \in DOMAIN Kids(tree, u) /\ x[e] \in DOMAIN Kids(tree, u)
  BY <1>1, <1>2, <1>3, <1>4, AboveIsElement
<1>6. PICK n \in Nat : DOMAIN Kids(tree, u) = 1 .. n
  BY <1>5, KidsAre DEF All
<1>7. IF back THEN x[e] < t[e] ELSE t[e] < x[e]
  BY DEF PartAt
<1>8. t[e] + Step(back) \in 1 .. n
  <2>1. CASE back
    BY <1>5, <1>6, <1>7, <2>1 DEF Step
  <2>2. CASE ~ back
    BY <1>5, <1>6, <1>7, <2>2 DEF Step
  <2> QED BY <2>1, <2>2
<1> QED BY <1>3, <1>6, <1>8 DEF HasSibling

(* What is found is the next token. *)
Follows(back, t, r) ==
  /\ Earlier(back, t, r)
  /\ ~ \E x \in Tokens(tree) : Earlier(back, t, x) /\ Earlier(back, x, r)

LEMMA NeighbourFollows ==
  ASSUME tree \in Trees, NEW back \in BOOLEAN, NEW f, Edges(back, f), NEW t \in Tokens(tree),
         NEW s \in Neighbour(tree, t, Step(back))
  PROVE  s \in All /\ \A r \in f[s] : r \in Tokens(tree) /\ Follows(back, t, r)
<1>1. \A y \in Tokens(tree) : y \in All /\ y \in Seq(Nat)
  BY ElementIs DEF Tokens, All, IsPath
<1>2. PICK d \in Nat : Lowest(t, Step(back), d) /\ s = SiblingAt(t, Step(back), d)
  BY <1>1, NeighbourIs
<1>3. d \in 1 .. Len(t) /\ d - 1 \in Nat /\ d - 1 <= Len(t)
  <2>1. d \in 1 .. Len(t) /\ t \in Seq(Nat)
    BY <1>1, <1>2 DEF Lowest
  <2> QED BY <2>1
<1>4. PICK p, i, j : p = SubSeq(t, 1, d - 1) /\ i = t[d] /\ j = t[d] + Step(back)
  OBVIOUS
<1>5. /\ p \in All /\ i \in DOMAIN Kids(tree, p) /\ j \in DOMAIN Kids(tree, p)
      /\ IsPrefix(Append(p, i), t) /\ s = Append(p, j)
  BY <1>1, <1>2, <1>3, <1>4, AboveIsElement DEF Lowest, HasSibling, SiblingAt
<1>6. i \in Nat /\ j \in Nat /\ s \in All /\ s \in Seq(Nat)
  <2>1. i \in Nat /\ j \in Nat
    BY <1>5, KidsAre DEF All
  <2>2. s \in All
    BY <1>5, ElementIs DEF All
  <2> QED BY <2>1, <2>2, ElementIs DEF All, IsPath
<1>7. /\ p \in Seq(Nat) /\ Len(p) = d - 1 /\ \A e \in 1 .. (d - 1) : p[e] = t[e]
      /\ Len(s) = d /\ s[d] = j /\ \A e \in 1 .. (d - 1) : s[e] = t[e]
  <2>1. p \in Seq(Nat) /\ Len(p) = d - 1 /\ \A e \in 1 .. (d - 1) : p[e] = t[e]
    BY <1>1, <1>3, <1>4, Initial
  <2> QED BY <1>3, <1>5, <1>6, <2>1
<1>8. ASSUME NEW r \in f[s] PROVE r \in Tokens(tree) /\ Follows(back, t, r)
  <2>1. r \in Tokens(tree) /\ IsPrefix(s, r)
    BY <1>6, <1>8, EdgeIs
  <2>2. IF back THEN j < i ELSE i < j
    BY <1>4, <1>6 DEF Step
  <2>3. Earlier(back, t, r)
    BY <1>1, <1>5, <1>6, <1>7, <2>1, <2>2, KidsApart
  <2>4. d <= Len(r) /\ r[d] = j /\ \A e \in 1 .. (d - 1) : r[e] = t[e]
    <3>1. Len(s) <= Len(r) /\ \A e \in 1 .. Len(s) : s[e] = r[e]
      BY <1>1, <1>6, <2>1, PrefixIs
    <3> QED BY <1>3, <1>7, <3>1
  <2>5. ASSUME NEW x \in Tokens(tree), Earlier(back, t, x), Earlier(back, x, r) PROVE FALSE
    <3>1. PICK e \in Nat : PartAt(back, t, x, e)
      BY <1>1, <2>5, EarlierParts
    <3>2. ~ Earlier(back, r, x) /\ x # r
      BY <1>1, <2>1, <2>5, EarlierIsOrder
    <3>3. ~ (d < e)
      <4>1. HasSibling(t, Step(back), e) /\ e \in 1 .. Len(t)
        BY <1>1, <3>1, PartsAtSibling DEF PartAt
      <4> QED BY <1>2, <4>1 DEF Lowest
    <3>4. /\ Len(r) \in Nat /\ e \in 1 .. Len(t) /\ e <= Len(x) /\ \A k \in 1 .. (e - 1) : t[k] = x[k]
          /\ IF back THEN x[e] < t[e] ELSE t[e] < x[e]
      BY <1>1, <2>1, <3>1 DEF PartAt
    <3>5. e = d
      <4> SUFFICES ASSUME e < d PROVE FALSE
        BY <3>3, <3>4
      <4>1. e \in 1 .. Len(r) /\ r[e] = t[e] /\ \A k \in 1 .. (e - 1) : r[k] = x[k]
        BY <1>3, <2>4, <3>4
      <4>2. PartAt(back, r, x, e)
        BY <3>4, <4>1 DEF PartAt
      <4> QED BY <1>1, <2>1, <3>2, <4>2, EarlierParts
    <3>6. x[d] # j
      <4> SUFFICES ASSUME x[d] = j PROVE FALSE
        OBVIOUS
      <4>1. \A k \in 1 .. Len(s) : s[k] = x[k]
        BY <1>3, <1>7, <3>4, <3>5
      <4>2. IsPrefix(s, x)
        BY <1>1, <1>6, <1>7, <3>4, <3>5, <4>1, PrefixIs
      <4> QED BY <1>6, <3>2, <4>2, EdgeIs
    <3>7. IF back THEN x[d] < j ELSE j < x[d]
      <4>1. x[d] \in Nat
        <5>1. d \in 1 .. Len(x) /\ x \in Seq(Nat)
          BY <1>1, <1>3, <3>4, <3>5
        <5> QED BY <5>1
      <4> QED BY <1>4, <1>6, <3>4, <3>5, <3>6, <4>1 DEF Step
    <3>8. PartAt(back, r, x, d)
      <4>1. d \in 1 .. Len(r) /\ \A k \in 1 .. (d - 1) : r[k] = x[k]
        BY <1>3, <2>4, <3>4, <3>5
      <4> QED BY <2>4, <3>4, <3>5, <3>7, <4>1 DEF PartAt
    <3> QED BY <1>1, <2>1, <3>2, <3>8, EarlierParts
  <2> QED BY <2>1, <2>3, <2>5 DEF Follows
<1> QED BY <1>6, <1>8

(* Without empty nodes the next token is found. *)
LEMMA FollowingIsFound ==
  ASSUME tree \in Trees, NoEmptyNodes(tree), NEW back \in BOOLEAN, NEW f, Edges(back, f),
         NEW t \in Tokens(tree), NEW r \in Tokens(tree), Follows(back, t, r)
  PROVE  \E s \in Neighbour(tree, t, Step(back)) : r \in f[s]
<1>1. \A y \in Tokens(tree) : y \in All /\ y \in Seq(Nat)
  BY ElementIs DEF Tokens, All, IsPath
<1>2. Len(t) \in Nat
  BY <1>1
<1> DEFINE Having == {d \in 1 .. Len(t) : HasSibling(t, Step(back), d)}
           Below == {l \in 0 .. Len(t) : Len(t) - l \in Having}
<1>3. Below # {}
  <2>1. PICK e \in Nat : PartAt(back, t, r, e)
    BY <1>1, EarlierParts DEF Follows
  <2>2. e \in 1 .. Len(t) /\ HasSibling(t, Step(back), e)
    BY <1>1, <2>1, PartsAtSibling DEF PartAt
  <2>3. Len(t) - e \in 0 .. Len(t) /\ Len(t) - (Len(t) - e) = e
    BY <1>2, <2>2
  <2> QED BY <2>2, <2>3
<1>4. PICK l \in Below : \A k \in Below : l <= k
  <2>1. Below \subseteq Nat
    BY <1>2
  <2> QED BY <1>3, <2>1, LeastNumber
<1>5. PICK d \in Nat : d = Len(t) - l /\ Lowest(t, Step(back), d)
  <2>1. PICK d : d = Len(t) - l
    OBVIOUS
  <2>2. d \in 1 .. Len(t) /\ d \in Nat /\ HasSibling(t, Step(back), d)
    BY <1>2, <2>1
  <2>3. ASSUME NEW e \in 1 .. Len(t), d < e, HasSibling(t, Step(back), e) PROVE FALSE
    <3>1. Len(t) - e \in 0 .. Len(t) /\ Len(t) - (Len(t) - e) = e
      BY <1>2
    <3>2. Len(t) - e \in Below
      BY <2>3, <3>1
    <3>3. l <= Len(t) - e
      BY <1>4, <3>2
    <3> QED BY <1>2, <2>1, <2>3, <3>3
  <2> QED BY <2>1, <2>2, <2>3 DEF Lowest
<1>6. PICK s \in Neighbour(tree, t, Step(back)) : TRUE
  BY <1>1, <1>5, NeighbourIs
<1>7. PICK y \in f[s] : y \in Tokens(tree) /\ Follows(back, t, y)
  <2>1. s \in All
    BY NeighbourFollows
  <2>2. f[s] # {}
    BY <2>1, EdgeIs
  <2> QED BY <2>2, NeighbourFollows
<1>8. y = r
  <2> SUFFICES ASSUME y # r PROVE FALSE
    OBVIOUS
  <2>1. Earlier(back, y, r) \/ Earlier(back, r, y)
    BY <1>7, TokensCompare
  <2> QED BY <1>7, <2>1 DEF Follows
<1> QED BY <1>7, <1>8

LEMMA FollowsIsAdjacent ==
  ASSUME NEW t, NEW r
  PROVE  /\ Follows(FALSE, t, r) <=> Adjacent(tree, t, r)
         /\ Follows(TRUE, t, r) <=> Adjacent(tree, r, t)
BY DEF Follows, Adjacent, Earlier

(***************************************************************************)
(* next_token and prev_token give the adjacent token and step over none,   *)
(* and first_token the leftmost one, in a tree of any size; without empty  *)
(* nodes they always give it.                                              *)
(***************************************************************************)
THEOREM NeighboursInOrder == Spec => []TokensInOrder
<1>1. LookupInv => TokensInOrder
  <2> SUFFICES ASSUME tree \in Trees PROVE TokensInOrder
    BY DEF LookupInv
  <2>1. PICK f : Edges(FALSE, f) /\ \A p \in All : FirstToken(tree, p) = f[p]
    BY EdgeTokensAre DEF EdgeTokens
  <2>2. PICK g : Edges(TRUE, g) /\ \A p \in All : LastToken(tree, p) = g[p]
    BY EdgeTokensAre DEF EdgeTokens
  <2>3. ASSUME NEW t \in Tokens(tree), NEW r \in NextToken(tree, t) PROVE Adjacent(tree, t, r)
    <3>1. PICK s \in Neighbour(tree, t, 1) : r \in FirstToken(tree, s)
      BY DEF NextToken
    <3>2. Step(FALSE) = 1
      BY DEF Step
    <3>3. s \in All /\ \A y \in f[s] : Follows(FALSE, t, y)
      BY <2>1, <3>1, <3>2, NeighbourFollows
    <3> QED BY <2>1, <3>1, <3>3, FollowsIsAdjacent
  <2>4. ASSUME NEW t \in Tokens(tree), NEW r \in PrevToken(tree, t) PROVE Adjacent(tree, r, t)
    <3>1. PICK s \in Neighbour(tree, t, -1) : r \in LastToken(tree, s)
      BY DEF PrevToken
    <3>2. Step(TRUE) = -1
      BY DEF Step
    <3>3. s \in All /\ \A y \in g[s] : Follows(TRUE, t, y)
      BY <2>2, <3>1, <3>2, NeighbourFollows
    <3> QED BY <2>2, <3>1, <3>3, FollowsIsAdjacent
  <2>5. ASSUME NEW t \in Tokens(tree), NEW r \in Tokens(tree), NoEmptyNodes(tree), Adjacent(tree, t, r)
        PROVE  r \in NextToken(tree, t) /\ t \in PrevToken(tree, r)
    <3>1. Step(FALSE) = 1 /\ Step(TRUE) = -1
      BY DEF Step
    <3>2. Follows(FALSE, t, r) /\ Follows(TRUE, r, t)
      BY <2>5, FollowsIsAdjacent
    <3>3. PICK s \in Neighbour(tree, t, 1) : r \in f[s]
      BY <2>1, <2>5, <3>1, <3>2, FollowingIsFound
    <3>4. PICK s2 \in Neighbour(tree, r, -1) : t \in g[s2]
      BY <2>2, <2>5, <3>1, <3>2, FollowingIsFound
    <3>5. s \in All /\ s2 \in All
      BY <2>1, <2>2, <3>1, NeighbourFollows
    <3> QED BY <2>1, <2>2, <3>3, <3>4, <3>5 DEF NextToken, PrevToken
  <2>6. ASSUME NEW p \in Nodes
        PROVE  /\ FirstToken(tree, p) \subseteq Leftmost(tree, p)
               /\ NoEmptyNodes(tree) => FirstToken(tree, p) = Leftmost(tree, p)
    <3>1. p \in All
      BY DEF Nodes
    <3>2. FirstToken(tree, p) = f[p]
      BY <2>1, <3>1
    <3>3. ASSUME NEW r \in f[p] PROVE r \in Leftmost(tree, p)
      <4>1. /\ r \in Tokens(tree) /\ IsPrefix(p, r)
            /\ \A x \in Tokens(tree) : IsPrefix(p, x) => x = r \/ Earlier(FALSE, r, x)
        BY <2>1, <3>1, EdgeIs
      <4> QED BY <4>1 DEF Leftmost, Earlier
    <3>4. ASSUME NoEmptyNodes(tree), NEW y \in Leftmost(tree, p) PROVE y \in f[p]
      <4>1. PICK r \in f[p] : TRUE
        BY <2>1, <3>1, <3>4, EdgeIs
      <4>2. y \in Tokens(tree) /\ r \in Tokens(tree)
        BY <3>3 DEF Leftmost
      <4>3. y = r \/ Earlier(FALSE, y, r)
        BY <3>3 DEF Leftmost, Earlier
      <4>4. y = r \/ Earlier(FALSE, r, y)
        BY <3>3, <4>1 DEF Leftmost, Earlier
      <4>5. y \in Seq(Nat) /\ r \in Seq(Nat)
        BY <4>2, ElementIs DEF Tokens, IsPath
      <4>6. y = r
        BY <4>3, <4>4, <4>5, EarlierIsOrder
      <4> QED BY <4>6
    <3> QED BY <3>2, <3>3, <3>4
  <2> QED BY <2>3, <2>4, <2>5, <2>6 DEF TokensInOrder
<1> QED BY <1>1, LookupInvHolds, PTL
=============================================================================

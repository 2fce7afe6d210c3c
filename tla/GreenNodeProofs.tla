-------------------------- MODULE GreenNodeProofs --------------------------
(***************************************************************************)
(* What the proofs about the other modules rest on.  First induction       *)
(* without induction theorems: a finite set of sets has a smallest member  *)
(* and a set of natural numbers a least one; from these facts follow that  *)
(* a recursive function exists, and what the folds of the community        *)
(* modules compute: sums of sequences of numbers, which the lengths and    *)
(* offsets of the text are, and sequences put together.  Then the          *)
(* operators of GreenNode: what the structural edits and a drop do to the  *)
(* counts, the slots and the lengths of green elements.                    *)
(***************************************************************************)
EXTENDS GreenNode, FiniteSetTheorems, SequenceTheorems, WellFoundedInduction, TLAPS

(* Of the subsets of a finite set some one is the smallest. *)
LEMMA SmallestSet ==
  ASSUME NEW U, IsFiniteSet(U), NEW F, F \subseteq SUBSET U, F # {}
  PROVE  \E S \in F : \A T \in F : T \subseteq S => T = S
<1>1. IsWellFoundedOn(StrictSubsetOrdering(U), SUBSET U)
  BY FS_StrictSubsetOrderingWellFounded, FS_FiniteSubsetsOfFinite
<1>2. PICK S \in F : \A T \in F : ~ (<<T, S>> \in StrictSubsetOrdering(U))
  BY <1>1, WFMin
<1>3. ASSUME NEW T \in F, T \subseteq S, T # S PROVE FALSE
  <2>1. <<T, S>> \in (SUBSET U) \X (SUBSET U)
    OBVIOUS
  <2>2. <<T, S>> \in StrictSubsetOrdering(U)
    BY <1>3, <2>1 DEF StrictSubsetOrdering
  <2> QED BY <1>2, <2>2
<1> QED BY <1>3

(* Of a set of natural numbers some one is the least. *)
LEMMA LeastNumber ==
  ASSUME NEW U, U \subseteq Nat, U # {}
  PROVE  \E n \in U : \A m \in U : n <= m
<1>1. PICK n \in U : \A m \in U : ~ (<<m, n>> \in OpToRel(<, Nat))
  BY NatLessThanWellFounded, WFMin
<1>2. ASSUME NEW m \in U, m < n PROVE FALSE
  BY <1>1, <1>2 DEF OpToRel
<1>3. \A m \in U : n <= m
  BY <1>2
<1> QED BY <1>3

(* A finite set of natural numbers has a greatest member. *)
LEMMA MaxMember ==
  ASSUME NEW U, U \subseteq Nat, IsFiniteSet(U), U # {}
  PROVE  Max(U) \in U /\ \A y \in U : Max(U) >= y
<1> DEFINE Upper == {T \in SUBSET U : T # {} /\ \A y \in U \ T : \E x \in T : x >= y}
<1>1. PICK F : F = Upper
  OBVIOUS
<1>2. U \in F /\ F \subseteq SUBSET U /\ F # {}
  BY <1>1
<1>3. PICK T \in F : \A V \in F : V \subseteq T => V = T
  <2>1. IsFiniteSet(U) /\ F \subseteq SUBSET U /\ F # {}
    BY <1>2
  <2>3. \E S \in F : \A V \in F : V \subseteq S => V = S
    BY ONLY <2>1, SmallestSet
  <2> QED BY <2>3
<1>4. PICK x \in T : TRUE
  BY <1>1
<1>5. ASSUME NEW y \in T, y # x PROVE FALSE
  <2>1. x \in Nat /\ y \in Nat /\ T \subseteq U
    BY <1>1, <1>2
  <2>2. PICK lo \in T, hi \in T : lo # hi /\ hi >= lo
    BY <1>5, <2>1
  <2>3. T \ {lo} \in Upper
    <3>1. ASSUME NEW z \in U \ (T \ {lo}) PROVE \E w \in T \ {lo} : w >= z
      <4>1. CASE z = lo
        BY <2>2, <4>1
      <4>2. CASE z \notin T
        <5>1. PICK w \in T : w >= z
          BY <1>1, <4>2
        <5>2. w \in Nat /\ z \in Nat /\ lo \in Nat /\ hi \in Nat
          BY <2>1
        <5> QED BY <2>2, <5>1, <5>2
      <4> QED BY <4>1, <4>2
    <3> QED BY <2>1, <2>2, <3>1
  <2> QED BY <1>1, <1>3, <2>2, <2>3
<1>6. T = {x} /\ x \in U
  BY <1>2, <1>5
<1>7. \A y \in U : x >= y
  BY <1>1, <1>6
<1> QED BY <1>6, <1>7 DEF Max

-----------------------------------------------------------------------------
(***************************************************************************)
(* The function FoldLeft evaluates: the fold over every set of positions,  *)
(* the greatest position last.  A step of it adds a number, or takes a     *)
(* child of a tree.                                                        *)
(***************************************************************************)
FoldStep(op, x, y) == IF op = "child" THEN x.kids[y] ELSE x + y

Folds(it, op, base, v, D) ==
  it = [s \in SUBSET D |-> IF s = {} THEN base ELSE FoldStep(op, it[s \ {Max(s)}], v[Max(s)])]

Folded(op, base, v, D) == CHOOSE it : Folds(it, op, base, v, D)

(* It exists. *)
LEMMA FoldExists ==
  ASSUME NEW D, D \subseteq Nat, IsFiniteSet(D), NEW op, NEW base, NEW v
  PROVE  Folds(Folded(op, base, v, D), op, base, v, D)
<1> DEFINE Of(f, s) == IF s = {} THEN base ELSE FoldStep(op, f[s \ {Max(s)}], v[Max(s)])
           Closed(C) == \A s \in C : s \ {Max(s)} \in C
           Solves(f, C) == f = [s \in C |-> Of(f, s)]
           P == SUBSET D
           Left == {S \in SUBSET P : Closed(P \ S) /\ \E f : Solves(f, P \ S)}
<1>1. P \in Left
  <2>1. P \ P = {}
    OBVIOUS
  <2>2. Solves([s \in {} |-> 0], P \ P)
    OBVIOUS
  <2> QED BY <2>1, <2>2
<1>2. PICK S \in Left : \A T \in Left : T \subseteq S => T = S
  <2>1. Left \subseteq SUBSET P /\ Left # {}
    BY <1>1
  <2>2. IsFiniteSet(P)
    BY FS_SUBSET
  <2> HIDE DEF Left, P
  <2>3. PICK F : F = Left
    OBVIOUS
  <2>4. F \subseteq SUBSET P /\ F # {}
    BY <2>1, <2>3
  <2>5. \E S \in F : \A T \in F : T \subseteq S => T = S
    BY ONLY <2>2, <2>4, SmallestSet
  <2> QED BY <2>3, <2>5
<1>3. S = {}
  <2> SUFFICES ASSUME S # {} PROVE FALSE
    OBVIOUS
  <2>1. PICK s \in S : \A t \in S : t \subseteq s => t = s
    <3>1. S \subseteq SUBSET D /\ IsFiniteSet(D) /\ S # {}
      OBVIOUS
    <3>2. \E s \in S : \A t \in S : t \subseteq s => t = s
      BY ONLY <3>1, SmallestSet
    <3> QED BY <3>2
  <2>2. PICK f : Solves(f, P \ S)
    OBVIOUS
  <2> DEFINE C == P \ S
             T == S \ {s}
  <2>3. P \ T = C \cup {s} /\ s \notin C /\ s \in P /\ T \subseteq P
    OBVIOUS
  <2>4. s # {} => s \ {Max(s)} \in C
    <3> SUFFICES ASSUME s # {} PROVE s \ {Max(s)} \in C
      OBVIOUS
    <3>1. s \subseteq Nat /\ IsFiniteSet(s)
      BY FS_Subset
    <3>2. Max(s) \in s
      BY <3>1, MaxMember
    <3>3. s \ {Max(s)} # s /\ s \ {Max(s)} \subseteq s /\ s \ {Max(s)} \in P
      BY <3>2
    <3> QED BY <2>1, <3>3
  <2>5. PICK e : e = [x \in C \cup {s} |-> IF x = s THEN Of(f, s) ELSE f[x]]
    OBVIOUS
  <2>6. ASSUME NEW x \in C \cup {s}, x # {} PROVE x \ {Max(x)} \in C /\ e[x \ {Max(x)}] = f[x \ {Max(x)}]
    <3>1. x \ {Max(x)} \in C
      BY <2>4, <2>6
    <3> QED BY <2>3, <2>5, <3>1
  <2>7. ASSUME NEW x \in C \cup {s} PROVE e[x] = Of(e, x)
    <3>1. Of(e, x) = Of(f, x)
      BY <2>6
    <3>2. CASE x = s
      BY <2>5, <3>1, <3>2
    <3>3. CASE x # s
      <4>1. x \in C /\ e[x] = f[x]
        BY <2>5, <3>3
      <4>2. f[x] = Of(f, x)
        <5> HIDE DEF Of
        <5> QED BY <2>2, <4>1
      <4> QED BY <3>1, <4>1, <4>2
    <3> QED BY <3>2, <3>3
  <2>8. Solves(e, P \ T)
    <3> HIDE DEF Of
    <3>1. e = [x \in C \cup {s} |-> e[x]]
      BY <2>5
    <3> QED BY <2>3, <2>7, <3>1
  <2>9. Closed(P \ T)
    <3>1. ASSUME NEW x \in C \cup {s} PROVE x \ {Max(x)} \in C \cup {s}
      <4>1. CASE x = {}
        <5>1. x \ {Max(x)} = x
          BY <4>1
        <5> QED BY <5>1
      <4> QED BY <2>6, <4>1
    <3> QED BY <2>3, <3>1
  <2>10. T \in Left /\ T \subseteq S /\ T # S
    BY <2>3, <2>8, <2>9
  <2> QED BY <1>2, <2>10
<1>4. \E f : Solves(f, P)
  <2>1. PICK f : Solves(f, P \ S)
    BY <1>2
  <2>2. P \ S = P
    BY <1>3
  <2> QED BY <2>1, <2>2
<1>5. \E f : Folds(f, op, base, v, D)
  BY <1>4 DEF Folds
<1> QED BY <1>5 DEF Folded

(* Only the numbers at its positions matter. *)
Positions(T) == T \subseteq Nat /\ IsFiniteSet(T)

LEMMA FoldsAgree ==
  ASSUME NEW D, NEW E, NEW op, NEW base, NEW v, NEW w, NEW f, NEW g,
         Folds(f, op, base, v, D), Folds(g, op, base, w, E),
         NEW T, Positions(T), T \subseteq D, T \subseteq E, \A i \in T : v[i] = w[i]
  PROVE  f[T] = g[T]
<1> DEFINE Bad == {s \in SUBSET T : f[s] # g[s]}
<1>1. Bad = {}
  <2> SUFFICES ASSUME Bad # {} PROVE FALSE
    OBVIOUS
  <2>1. PICK s \in Bad : \A t \in Bad : t \subseteq s => t = s
    <3>1. PICK F : F = Bad
      OBVIOUS
    <3>2. IsFiniteSet(T) /\ F \subseteq SUBSET T /\ F # {}
      BY <3>1 DEF Positions
    <3>3. \E s \in F : \A t \in F : t \subseteq s => t = s
      BY ONLY <3>2, SmallestSet
    <3> QED BY <3>1, <3>3
  <2>2. s \in SUBSET D /\ s \in SUBSET E
    OBVIOUS
  <2>3. f[s] = IF s = {} THEN base ELSE FoldStep(op, f[s \ {Max(s)}], v[Max(s)])
    BY <2>2 DEF Folds
  <2>4. g[s] = IF s = {} THEN base ELSE FoldStep(op, g[s \ {Max(s)}], w[Max(s)])
    BY <2>2 DEF Folds
  <2>5. CASE s = {}
    BY <2>3, <2>4, <2>5
  <2>6. CASE s # {}
    <3>1. s \subseteq Nat /\ IsFiniteSet(s)
      BY FS_Subset DEF Positions
    <3>2. Max(s) \in s
      BY <2>6, <3>1, MaxMember
    <3>3. s \ {Max(s)} \notin Bad
      BY <2>1, <3>2
    <3>4. f[s \ {Max(s)}] = g[s \ {Max(s)}]
      BY <3>3
    <3> QED BY <2>1, <2>3, <2>4, <2>6, <3>2, <3>4
  <2> QED BY <2>5, <2>6
<1> QED BY <1>1

-----------------------------------------------------------------------------
LEMMA FirstPositions ==
  ASSUME NEW n \in Nat PROVE IsFiniteSet(1 .. n) /\ 1 .. n \subseteq Nat
<1>1. 1 \in Int /\ n \in Int
  OBVIOUS
<1>2. IsFiniteSet(1 .. n)
  BY ONLY <1>1, FS_Interval
<1>3. 1 .. n \subseteq Nat
  OBVIOUS
<1> QED BY <1>2, <1>3

(* The fold of the first n positions. *)
FoldTo(op, base, v, n) == Folded(op, base, v, 1 .. n)[1 .. n]

LEMMA FoldZero ==
  ASSUME NEW op, NEW base, NEW v PROVE FoldTo(op, base, v, 0) = base
<1>1. 1 .. 0 = {} /\ IsFiniteSet({})
  BY FS_EmptySet
<1>2. Folds(Folded(op, base, v, {}), op, base, v, {})
  BY <1>1, FoldExists
<1>3. Folded(op, base, v, {})[{}] = base
  BY <1>2 DEF Folds
<1> QED BY <1>1, <1>3 DEF FoldTo

LEMMA FoldNext ==
  ASSUME NEW op, NEW base, NEW v, NEW n \in Nat
  PROVE  FoldTo(op, base, v, n + 1) = FoldStep(op, FoldTo(op, base, v, n), v[n + 1])
<1> DEFINE D == 1 .. n
           E == 1 .. (n + 1)
<1>1. IsFiniteSet(D) /\ IsFiniteSet(E) /\ D \subseteq Nat /\ E \subseteq Nat /\ n + 1 \in E
  <2>1. n + 1 \in Nat /\ n + 1 \in E
    OBVIOUS
  <2> QED BY <2>1, FirstPositions
<1>2. Max(E) = n + 1
  <2>1. Max(E) \in E /\ \A y \in E : Max(E) >= y
    BY <1>1, MaxMember
  <2> QED BY <1>1, <2>1
<1>3. PICK f, g : f = Folded(op, base, v, E) /\ g = Folded(op, base, v, D)
  OBVIOUS
<1>4. Folds(f, op, base, v, E) /\ Folds(g, op, base, v, D)
  BY <1>1, <1>3, FoldExists
<1>5. E \ {n + 1} = D
  OBVIOUS
<1>6. f[E] = FoldStep(op, f[D], v[n + 1])
  <2>1. E # {} /\ E \in SUBSET E
    BY <1>1
  <2> HIDE DEF D, E
  <2> QED BY <1>2, <1>4, <1>5, <2>1 DEF Folds
<1>7. f[D] = g[D]
  <2>1. PICK T, U : T = D /\ U = E
    OBVIOUS
  <2>2. /\ Folds(f, op, base, v, U) /\ Folds(g, op, base, v, T) /\ Positions(T)
        /\ T \subseteq U /\ T \subseteq T /\ \A i \in T : v[i] = v[i]
    BY <1>1, <1>4, <2>1 DEF Positions
  <2>3. f[T] = g[T]
    BY <2>2, FoldsAgree
  <2> QED BY <2>1, <2>3
<1> QED BY <1>3, <1>6, <1>7 DEF FoldTo

LEMMA FoldAgrees ==
  ASSUME NEW op, NEW base, NEW v, NEW w, NEW n \in Nat, \A i \in 1 .. n : v[i] = w[i]
  PROVE  FoldTo(op, base, v, n) = FoldTo(op, base, w, n)
<1> DEFINE D == 1 .. n
<1>1. IsFiniteSet(D) /\ D \subseteq Nat
  BY FirstPositions
<1>2. PICK f, g : f = Folded(op, base, v, D) /\ g = Folded(op, base, w, D)
  OBVIOUS
<1>3. Folds(f, op, base, v, D) /\ Folds(g, op, base, w, D)
  BY <1>1, <1>2, FoldExists
<1>4. f[D] = g[D]
  <2>1. PICK T : T = D
    OBVIOUS
  <2>2. /\ Folds(f, op, base, v, T) /\ Folds(g, op, base, w, T) /\ Positions(T)
        /\ T \subseteq T /\ \A i \in T : v[i] = w[i]
    BY <1>1, <1>3, <2>1 DEF Positions
  <2>3. f[T] = g[T]
    BY <2>2, FoldsAgree
  <2> QED BY <2>1, <2>3
<1> QED BY <1>2, <1>4 DEF FoldTo

-----------------------------------------------------------------------------
(* The sum of the first n numbers. *)
SumTo(v, n) == FoldTo("sum", 0, v, n)

LEMMA SumZero ==
  ASSUME NEW v PROVE SumTo(v, 0) = 0
BY FoldZero DEF SumTo

LEMMA SumNext ==
  ASSUME NEW v, NEW n \in Nat
  PROVE  SumTo(v, n + 1) = SumTo(v, n) + v[n + 1]
BY FoldNext DEF SumTo, FoldStep

LEMMA SumAgrees ==
  ASSUME NEW v, NEW w, NEW n \in Nat, \A i \in 1 .. n : v[i] = w[i]
  PROVE  SumTo(v, n) = SumTo(w, n)
BY FoldAgrees DEF SumTo

(* The sums of lengths grow, and each makes room for the next. *)
LEMMA SumsGrow ==
  ASSUME NEW v, NEW n \in Nat, \A i \in 1 .. n : v[i] \in Nat
  PROVE  /\ \A j \in 0 .. n : SumTo(v, j) \in Nat
         /\ \A j \in 0 .. n : \A i \in 1 .. j : SumTo(v, i - 1) + v[i] <= SumTo(v, j)
<1> DEFINE Grows(j) == /\ SumTo(v, j) \in Nat
                       /\ \A i \in 1 .. j : SumTo(v, i - 1) \in Nat /\ SumTo(v, i - 1) + v[i] <= SumTo(v, j)
           Bad == {j \in 0 .. n : ~ Grows(j)}
<1>1. Bad = {}
  <2> SUFFICES ASSUME Bad # {} PROVE FALSE
    OBVIOUS
  <2>1. PICK j \in Bad : \A k \in Bad : j <= k
    <3>1. Bad \subseteq Nat
      OBVIOUS
    <3> QED BY <3>1, LeastNumber
  <2>2. CASE j = 0
    BY <2>2, SumZero
  <2>3. CASE j # 0
    <3>1. PICK k \in Nat : j = k + 1 /\ k \in 0 .. n /\ k + 1 \in 1 .. n
      <4>1. j - 1 \in Nat /\ j = (j - 1) + 1 /\ j - 1 \in 0 .. n /\ (j - 1) + 1 \in 1 .. n
        BY <2>3
      <4> QED BY <4>1
    <3>2. Grows(k)
      BY <2>1, <3>1
    <3>3. SumTo(v, j) = SumTo(v, k) + v[k + 1] /\ v[k + 1] \in Nat
      BY <3>1, SumNext
    <3>4. ASSUME NEW i \in 1 .. j PROVE SumTo(v, i - 1) \in Nat /\ SumTo(v, i - 1) + v[i] <= SumTo(v, j)
      <4>1. CASE i = j
        <5>1. i - 1 = k
          BY <3>1, <4>1
        <5> QED BY <3>1, <3>2, <3>3, <4>1, <5>1
      <4>2. CASE i # j
        <5>1. i \in 1 .. k /\ v[i] \in Nat
          BY <3>1, <4>2
        <5> QED BY <3>2, <3>3, <5>1
      <4> QED BY <4>1, <4>2
    <3> QED BY <2>1, <3>2, <3>3, <3>4
  <2> QED BY <2>2, <2>3
<1> QED BY <1>1

(* FoldLeft over a sequence of numbers is their sum. *)
LEMMA FoldIsSum ==
  ASSUME NEW v, NEW n \in Nat, DOMAIN v = 1 .. n
  PROVE  FoldLeft(LAMBDA sum, len : sum + len, 0, v) = SumTo(v, n)
BY DEF FoldLeft, MapThenFoldSet, SumTo, FoldTo, Folded, Folds, FoldStep

(***************************************************************************)
(* FoldLeft over the positions of a path, taking a child at each, leads to *)
(* the element at the path.                                                *)
(***************************************************************************)
ChildAt(tree, path, n) == FoldTo("child", tree, path, n)

LEMMA FoldIsChild ==
  ASSUME NEW tree, NEW path, NEW n \in Nat, DOMAIN path = 1 .. n
  PROVE  FoldLeft(LAMBDA t, i : t.kids[i], tree, path) = ChildAt(tree, path, n)
BY DEF FoldLeft, MapThenFoldSet, ChildAt, FoldTo, Folded, Folds, FoldStep

LEMMA ChildZero ==
  ASSUME NEW tree, NEW path PROVE ChildAt(tree, path, 0) = tree
BY FoldZero DEF ChildAt

LEMMA ChildNext ==
  ASSUME NEW tree, NEW path, NEW n \in Nat
  PROVE  ChildAt(tree, path, n + 1) = ChildAt(tree, path, n).kids[path[n + 1]]
BY FoldNext DEF ChildAt, FoldStep

LEMMA ChildAgrees ==
  ASSUME NEW tree, NEW p, NEW q, NEW n \in Nat, \A i \in 1 .. n : p[i] = q[i]
  PROVE  ChildAt(tree, p, n) = ChildAt(tree, q, n)
BY FoldAgrees DEF ChildAt

-----------------------------------------------------------------------------
(***************************************************************************)
(* Sequences, and functions that are defined by recursion over a prefix of *)
(* one.                                                                    *)
(***************************************************************************)
LEMMA SameSeq ==
  ASSUME NEW S, NEW x \in Seq(S), NEW y \in Seq(S), Len(x) = Len(y), \A i \in 1 .. Len(x) : x[i] = y[i]
  PROVE  x = y
OBVIOUS

LEMMA LengthZero ==
  ASSUME NEW S, NEW s \in Seq(S), Len(s) = 0
  PROVE  s = <<>>
<1>1. << >> \in Seq(S) /\ Len(<<>>) = 0 /\ \A i \in 1 .. Len(s) : s[i] = <<>>[i]
  OBVIOUS
<1> QED BY <1>1, SameSeq

LEMMA Concat ==
  ASSUME NEW S, NEW x \in Seq(S), NEW y \in Seq(S)
  PROVE  /\ x \o y \in Seq(S) /\ Len(x \o y) = Len(x) + Len(y)
         /\ \A i \in 1 .. (Len(x) + Len(y)) :
              (x \o y)[i] = IF i <= Len(x) THEN x[i] ELSE y[i - Len(x)]
OBVIOUS

Iterates(f, base, step, n) == f[0] = base /\ \A k \in 1 .. n : f[k] = step[k][f[k - 1]]

LEMMA IteratesExist ==
  ASSUME NEW S, NEW base \in S, NEW n \in Nat, NEW step \in [1 .. n -> [S -> S]]
  PROVE  \E f \in [0 .. n -> S] : Iterates(f, base, step, n)
<1> DEFINE Solves(f, m) == f[0] = base /\ \A k \in 1 .. m : f[k] = step[k][f[k - 1]]
           Bad == {m \in 0 .. n : ~ \E f \in [0 .. m -> S] : Solves(f, m)}
<1>1. Bad = {}
  <2> SUFFICES ASSUME Bad # {} PROVE FALSE
    OBVIOUS
  <2>1. PICK m \in Bad : \A k \in Bad : m <= k
    <3>1. Bad \subseteq Nat
      OBVIOUS
    <3> QED BY <3>1, LeastNumber
  <2>2. CASE m = 0
    <3>1. [k \in 0 .. 0 |-> base] \in [0 .. 0 -> S] /\ Solves([k \in 0 .. 0 |-> base], 0)
      OBVIOUS
    <3> QED BY <2>1, <2>2, <3>1
  <2>3. CASE m # 0
    <3>1. PICK l \in 0 .. n : m = l + 1
      <4>1. m - 1 \in 0 .. n /\ m = (m - 1) + 1
        BY <2>3
      <4> QED BY <4>1
    <3>2. l \notin Bad
      <4>1. l \in 0 .. n /\ ~ (m <= l)
        BY <3>1
      <4> HIDE DEF Bad
      <4> QED BY <2>1, <4>1
    <3>3. PICK f \in [0 .. l -> S] : Solves(f, l)
      BY <3>2
    <3>4. f[l] \in S /\ m \in 1 .. n
      BY <3>1
    <3>5. PICK v : v = step[m][f[l]]
      OBVIOUS
    <3>6. v \in S
      BY <3>4, <3>5
    <3>7. PICK e : e = [k \in 0 .. m |-> IF k = m THEN v ELSE f[k]]
      OBVIOUS
    <3>8. e \in [0 .. m -> S]
      BY <3>1, <3>6, <3>7
    <3>9. ASSUME NEW k \in 1 .. m PROVE e[k] = step[k][e[k - 1]]
      <4>0. k - 1 \in 0 .. l /\ k - 1 \in 0 .. m /\ k - 1 # m /\ k \in 0 .. m /\ k # 0
        BY <3>1
      <4>1. k - 1 \in 0 .. l /\ e[k - 1] = f[k - 1]
        BY <3>7, <4>0
      <4>2. CASE k = m
        <5>1. e[k] = v /\ k - 1 = l
          BY <3>1, <3>7, <4>0, <4>2
        <5> QED BY <3>5, <4>1, <4>2, <5>1
      <4>3. CASE k # m
        <5>1. k \in 1 .. l
          BY <3>1, <4>3
        <5>2. e[k] = f[k]
          BY <3>7, <4>0, <4>3
        <5> QED BY <3>3, <4>1, <5>1, <5>2
      <4> QED BY <4>2, <4>3
    <3>10. e[0] = base
      BY <3>1, <3>3, <3>7
    <3> QED BY <2>1, <3>8, <3>9, <3>10
  <2> QED BY <2>2, <2>3
<1>2. n \notin Bad /\ n \in 0 .. n
  BY <1>1
<1> QED BY <1>2 DEF Iterates

(* What such a function does with a prefix depends on the prefix only. *)
Agreeing(f, g, n) == f[0] = g[0] /\ \A k \in 1 .. n : f[k - 1] = g[k - 1] => f[k] = g[k]

LEMMA StepsAgree ==
  ASSUME NEW f, NEW g, NEW n \in Nat, Agreeing(f, g, n)
  PROVE  \A k \in 0 .. n : f[k] = g[k]
<1> DEFINE Bad == {m \in 0 .. n : f[m] # g[m]}
<1>1. Bad = {}
  <2> SUFFICES ASSUME Bad # {} PROVE FALSE
    OBVIOUS
  <2>1. PICK m \in Bad : \A k \in Bad : m <= k
    <3>1. Bad \subseteq Nat
      OBVIOUS
    <3> QED BY <3>1, LeastNumber
  <2>2. m # 0
    BY <2>1 DEF Agreeing
  <2>3. m \in 1 .. n /\ m - 1 \in 0 .. n /\ ~ (m <= m - 1)
    BY <2>2
  <2>4. m - 1 \notin Bad
    BY <2>1, <2>3
  <2> QED BY <2>3, <2>4 DEF Agreeing
<1> QED BY <1>1

(* FlattenSeq puts the sequences together one by one. *)
LEMMA FlattenIs ==
  ASSUME NEW S, NEW s \in Seq(Seq(S))
  PROVE  \E f \in [0 .. Len(s) -> Seq(S)] :
           /\ f[0] = <<>>
           /\ \A k \in 1 .. Len(s) : f[k] = f[k - 1] \o s[k]
           /\ FlattenSeq(s) = f[Len(s)]
<1>1. PICK n \in Nat : n = Len(s)
  OBVIOUS
<1>2. \A k \in 1 .. n : s[k] \in Seq(S)
  BY <1>1
<1>3. PICK f \in [0 .. n -> Seq(S)] : f[0] = <<>> /\ \A k \in 1 .. n : f[k] = f[k - 1] \o s[k]
  <2>1. PICK step : step = [k \in 1 .. n |-> [x \in Seq(S) |-> x \o s[k]]]
    OBVIOUS
  <2>2. PICK U : U = Seq(S)
    OBVIOUS
  <2>3. step \in [1 .. n -> [U -> U]] /\ << >> \in U /\ n \in Nat
    <3>1. ASSUME NEW k \in 1 .. n, NEW x \in Seq(S) PROVE x \o s[k] \in Seq(S)
      BY <1>2
    <3>2. \A k \in 1 .. n : [x \in Seq(S) |-> x \o s[k]] \in [U -> U]
      BY <2>2, <3>1
    <3> QED BY <2>1, <2>2, <3>2
  <2>4. PICK f \in [0 .. n -> Seq(S)] : Iterates(f, <<>>, step, n)
    <3>1. \E f \in [0 .. n -> U] : Iterates(f, <<>>, step, n)
      BY ONLY <2>3, IteratesExist
    <3> QED BY <2>2, <3>1
  <2>5. ASSUME NEW k \in 1 .. n PROVE f[k] = f[k - 1] \o s[k]
    <3>1. k - 1 \in 0 .. n
      OBVIOUS
    <3>2. f[k - 1] \in Seq(S)
      BY <3>1
    <3>3. f[k] = step[k][f[k - 1]]
      BY <2>4 DEF Iterates
    <3> QED BY <2>1, <3>2, <3>3
  <2> QED BY <2>4, <2>5 DEF Iterates
<1>4. CASE n = 0
  <2>1. PICK U : U = Seq(S)
    OBVIOUS
  <2>2. s \in Seq(U)
    BY <2>1
  <2>3. s = <<>>
    <3>1. Len(s) = 0
      BY <1>1, <1>4
    <3> QED BY ONLY <2>2, <3>1, LengthZero
  <2>4. FlattenSeq(s) = <<>>
    BY <1>1, <1>4, <2>3 DEF FlattenSeq
  <2> QED BY <1>1, <1>3, <1>4, <2>4
<1>5. CASE n # 0
  <2> DEFINE Flattens(e) == e = [i \in 1 .. n |-> IF i = 1 THEN s[i] ELSE e[i - 1] \o s[i]]
  <2>1. PICK e : e = [i \in 1 .. n |-> f[i]]
    OBVIOUS
  <2>2. ASSUME NEW i \in 1 .. n PROVE e[i] = IF i = 1 THEN s[i] ELSE e[i - 1] \o s[i]
    <3>1. CASE i = 1
      <4>1. e[i] = <<>> \o s[i]
        <5>0. 1 \in 1 .. n /\ 1 - 1 = 0
          BY <3>1
        <5>1. f[1] = f[1 - 1] \o s[1] /\ 1 - 1 = 0
          BY <1>3, <5>0
        <5> QED BY <1>3, <2>1, <3>1, <5>1
      <4>2. s[i] \in Seq(S)
        BY <1>2
      <4> QED BY <3>1, <4>1, <4>2
    <3>2. CASE i # 1
      <4>1. i - 1 \in 1 .. n
        BY <3>2
      <4> QED BY <1>3, <2>1, <3>2, <4>1
    <3> QED BY <3>1, <3>2
  <2>3. \E g : Flattens(g)
    <3>1. e = [i \in 1 .. n |-> e[i]]
      BY <2>1
    <3> QED BY <2>2, <3>1
  <2>4. PICK g : g = CHOOSE x : Flattens(x)
    OBVIOUS
  <2>5. Flattens(g)
    <3> HIDE DEF Flattens
    <3> QED BY <2>3, <2>4
  <2>6. FlattenSeq(s) = g[n]
    BY <1>1, <1>5, <2>4 DEF FlattenSeq
  <2>7. \A k \in 1 .. n : g[k] = f[k]
    <3> DEFINE Bad == {k \in 1 .. n : g[k] # f[k]}
    <3> SUFFICES ASSUME Bad # {} PROVE FALSE
      OBVIOUS
    <3>1. PICK m \in Bad : \A k \in Bad : m <= k
      <4>1. Bad \subseteq Nat
        OBVIOUS
      <4> QED BY <4>1, LeastNumber
    <3>2. g[m] = IF m = 1 THEN s[m] ELSE g[m - 1] \o s[m]
      BY <2>5
    <3>3. e[m] = f[m] /\ e[m] = IF m = 1 THEN s[m] ELSE e[m - 1] \o s[m]
      BY <2>1, <2>2
    <3>4. CASE m = 1
      BY <3>2, <3>3, <3>4
    <3>5. CASE m # 1
      <4>1. m - 1 \in 1 .. n /\ ~ (m <= m - 1)
        BY <3>5
      <4>2. g[m - 1] = f[m - 1] /\ e[m - 1] = f[m - 1]
        BY <2>1, <3>1, <4>1
      <4> QED BY <3>2, <3>3, <3>5, <4>2
    <3> QED BY <3>4, <3>5
  <2>8. n \in 1 .. n
    BY <1>5
  <2> QED BY <1>1, <1>3, <2>6, <2>7, <2>8
<1> QED BY <1>4, <1>5

Flattens(f, s) ==
  f[0] = <<>> /\ (\A k \in 1 .. Len(s) : f[k] = f[k - 1] \o s[k]) /\ FlattenSeq(s) = f[Len(s)]

LEMMA FlattenSteps ==
  ASSUME NEW S, NEW s \in Seq(Seq(S)) PROVE \E f \in [0 .. Len(s) -> Seq(S)] : Flattens(f, s)
BY FlattenIs DEF Flattens

LEMMA FlattenType ==
  ASSUME NEW S, NEW s \in Seq(Seq(S)) PROVE FlattenSeq(s) \in Seq(S)
<1>1. PICK f \in [0 .. Len(s) -> Seq(S)] : FlattenSeq(s) = f[Len(s)]
  BY FlattenIs
<1>2. Len(s) \in 0 .. Len(s)
  OBVIOUS
<1> QED BY <1>1, <1>2

LEMMA FlattenEmpty == FlattenSeq(<<>>) = <<>>
<1>1. Len(<<>>) = 0
  OBVIOUS
<1> QED BY <1>1 DEF FlattenSeq

LEMMA FlattenAppend ==
  ASSUME NEW S, NEW s \in Seq(Seq(S)), NEW x \in Seq(S)
  PROVE  FlattenSeq(Append(s, x)) = FlattenSeq(s) \o x
<1>0. PICK t : t = Append(s, x)
  OBVIOUS
<1>1. PICK n \in Nat : n = Len(s) /\ t = Append(s, x)
  BY <1>0
<1>2. t \in Seq(Seq(S)) /\ Len(t) = n + 1 /\ t[n + 1] = x /\ \A k \in 1 .. n : t[k] = s[k]
  BY <1>1
<1>3. PICK f \in [0 .. n -> Seq(S)] : /\ f[0] = <<>>
                                      /\ \A k \in 1 .. n : f[k] = f[k - 1] \o s[k]
                                      /\ FlattenSeq(s) = f[n]
  BY <1>1, FlattenIs
<1>4. PICK g \in [0 .. (n + 1) -> Seq(S)] : /\ g[0] = <<>>
                                            /\ \A k \in 1 .. (n + 1) : g[k] = g[k - 1] \o t[k]
                                            /\ FlattenSeq(t) = g[n + 1]
  <2>1. \E g \in [0 .. Len(t) -> Seq(S)] : /\ g[0] = <<>>
                                           /\ \A k \in 1 .. Len(t) : g[k] = g[k - 1] \o t[k]
                                           /\ FlattenSeq(t) = g[Len(t)]
    BY <1>2, FlattenIs
  <2> QED BY <1>2, <2>1
<1>5. ASSUME NEW k \in 1 .. n, f[k - 1] = g[k - 1] PROVE f[k] = g[k]
  <2>1. k \in 1 .. (n + 1)
    OBVIOUS
  <2>2. f[k] = f[k - 1] \o s[k] /\ g[k] = g[k - 1] \o t[k] /\ t[k] = s[k]
    BY <1>2, <1>3, <1>4, <2>1
  <2> QED BY <1>5, <2>2
<1>6. \A k \in 0 .. n : f[k] = g[k]
  <2>1. n \in Nat /\ Agreeing(f, g, n)
    BY <1>3, <1>4, <1>5 DEF Agreeing
  <2> QED BY ONLY <2>1, StepsAgree
<1>7. g[n + 1] = g[n] \o t[n + 1] /\ g[n] = f[n]
  <2>1. n + 1 \in 1 .. (n + 1) /\ (n + 1) - 1 = n /\ n \in 0 .. n
    OBVIOUS
  <2> QED BY <1>4, <1>6, <2>1
<1> QED BY <1>1, <1>2, <1>3, <1>4, <1>7

(* A sequence that is not empty is another one with an element behind it. *)
LEMMA SplitLast ==
  ASSUME NEW S, NEW s \in Seq(S), s # <<>>
  PROVE  \E r \in Seq(S), x \in S : s = Append(r, x) /\ Len(s) = Len(r) + 1
<1>1. PICK n \in Nat : n = Len(s) /\ n # 0
  OBVIOUS
<1>2. PICK r : r = SubSeq(s, 1, n - 1)
  OBVIOUS
<1>3. n - 1 \in Nat /\ n - 1 <= n
  BY <1>1
<1>4. r \in Seq(S) /\ Len(r) = n - 1 /\ \A i \in 1 .. (n - 1) : r[i] = s[i]
  BY <1>1, <1>2, <1>3
<1>5. s[n] \in S
  BY <1>1
<1>6. s = Append(r, s[n])
  <2>1. PICK t : t = Append(r, s[n])
    OBVIOUS
  <2>2. t \in Seq(S) /\ Len(t) = n
    BY <1>1, <1>4, <1>5, <2>1
  <2>3. ASSUME NEW i \in 1 .. n PROVE t[i] = s[i]
    BY <1>1, <1>4, <1>5, <2>1
  <2> QED BY <1>1, <2>1, <2>2, <2>3, SameSeq
<1> QED BY <1>1, <1>4, <1>5, <1>6

LEMMA Associative ==
  ASSUME NEW S, NEW x \in Seq(S), NEW y \in Seq(S), NEW z \in Seq(S)
  PROVE  (x \o y) \o z = x \o (y \o z)
<1>1. PICK a : a = (x \o y) \o z
  OBVIOUS
<1>2. PICK b : b = x \o (y \o z)
  OBVIOUS
<1>3. PICK l \in Nat : l = Len(x)
  OBVIOUS
<1>4. PICK m \in Nat : m = Len(y)
  OBVIOUS
<1>5. PICK n \in Nat : n = Len(z)
  OBVIOUS
<1>6. PICK p : p = x \o y
  OBVIOUS
<1>7. p \in Seq(S) /\ Len(p) = l + m /\ \A i \in 1 .. (l + m) : p[i] = IF i <= l THEN x[i] ELSE y[i - l]
  BY <1>3, <1>4, <1>6, Concat
<1>8. PICK q : q = y \o z
  OBVIOUS
<1>9. q \in Seq(S) /\ Len(q) = m + n /\ \A i \in 1 .. (m + n) : q[i] = IF i <= m THEN y[i] ELSE z[i - m]
  BY <1>4, <1>5, <1>8, Concat
<1>10. PICK u \in Nat : u = l + m
  OBVIOUS
<1>11. PICK v \in Nat : v = m + n
  OBVIOUS
<1>12. /\ a \in Seq(S) /\ Len(a) = u + n
       /\ \A i \in 1 .. (u + n) : a[i] = IF i <= u THEN p[i] ELSE z[i - u]
  <2>1. a = p \o z /\ Len(p) = u /\ Len(z) = n /\ p \in Seq(S) /\ z \in Seq(S)
    BY <1>1, <1>5, <1>6, <1>7, <1>10
  <2> QED BY ONLY <2>1, Concat
<1>13. /\ b \in Seq(S) /\ Len(b) = l + v
       /\ \A i \in 1 .. (l + v) : b[i] = IF i <= l THEN x[i] ELSE q[i - l]
  <2>1. b = x \o q /\ Len(q) = v /\ Len(x) = l /\ q \in Seq(S) /\ x \in Seq(S)
    BY <1>2, <1>3, <1>8, <1>9, <1>11
  <2> QED BY ONLY <2>1, Concat
<1>14. u + n = l + v
  BY <1>10, <1>11
<1>15. ASSUME NEW i \in 1 .. (u + n) PROVE a[i] = b[i]
  <2>0. i \in 1 .. (l + v)
    BY <1>14
  <2>1. CASE i <= l
    <3>1. i \in 1 .. (l + m) /\ i <= u
      BY <1>10, <2>1
    <3> QED BY <1>7, <1>12, <1>13, <2>0, <2>1, <3>1
  <2>2. CASE ~(i <= l) /\ i <= u
    <3>1. i \in 1 .. (l + m) /\ i - l \in 1 .. (m + n) /\ i - l <= m
      BY <1>10, <2>2
    <3> QED BY <1>7, <1>9, <1>12, <1>13, <2>0, <2>2, <3>1
  <2>3. CASE ~(i <= u)
    <3>1. ~(i <= l) /\ i - l \in 1 .. (m + n) /\ ~(i - l <= m) /\ (i - l) - m = i - u
      BY <1>10, <2>3
    <3> QED BY <1>9, <1>12, <1>13, <2>0, <2>3, <3>1
  <2> QED BY <2>1, <2>2, <2>3
<1>16. a = b
  <2>1. Len(a) = Len(b) /\ \A i \in 1 .. Len(a) : a[i] = b[i]
    BY <1>12, <1>13, <1>14, <1>15
  <2> QED BY ONLY <1>12, <1>13, <2>1, SameSeq
<1> QED BY <1>1, <1>2, <1>16

Regroups(S, x, w, y) == x \in Seq(S) /\ w \in Seq(S) /\ y \in Seq(S) => (x \o w) \o y = x \o (w \o y)

LEMMA Regrouped == \A S, x, w, y : Regroups(S, x, w, y)
BY Associative DEF Regroups

LEMMA FlattenCons ==
  ASSUME NEW S, NEW x \in Seq(S), NEW s \in Seq(Seq(S))
  PROVE  FlattenSeq(<<x>> \o s) = x \o FlattenSeq(s)
<1> DEFINE Bad == {n \in Nat : \E t \in Seq(Seq(S)) : n = Len(t) /\ FlattenSeq(<<x>> \o t) # x \o FlattenSeq(t)}
<1>1. Bad = {}
  <2> SUFFICES ASSUME Bad # {} PROVE FALSE
    OBVIOUS
  <2>1. PICK n \in Bad : \A k \in Bad : n <= k
    <3>1. Bad \subseteq Nat
      OBVIOUS
    <3> QED BY <3>1, LeastNumber
  <2>2. PICK t \in Seq(Seq(S)) : n = Len(t) /\ FlattenSeq(<<x>> \o t) # x \o FlattenSeq(t)
    OBVIOUS
  <2>3. CASE t = <<>>
    <3>1. <<x>> \o t = Append(<<>>, x) /\ << >> \in Seq(Seq(S))
      BY <2>3
    <3>2. FlattenSeq(<<x>> \o t) = <<>> \o x
      BY <3>1, FlattenAppend, FlattenEmpty
    <3>3. <<>> \o x = x /\ x \o FlattenSeq(t) = x
      BY <2>3, FlattenEmpty
    <3> QED BY <2>2, <3>2, <3>3
  <2>4. CASE t # <<>>
    <3>1. PICK r \in Seq(Seq(S)), y \in Seq(S) : t = Append(r, y) /\ Len(t) = Len(r) + 1
      <4>1. PICK U : U = Seq(S)
        OBVIOUS
      <4>2. \E r \in Seq(U), y \in U : t = Append(r, y) /\ Len(t) = Len(r) + 1
        BY <2>4, <4>1, SplitLast
      <4> QED BY <4>1, <4>2
    <3>2. FlattenSeq(<<x>> \o r) = x \o FlattenSeq(r)
      <4>1. Len(r) \in Nat /\ ~ (n <= Len(r))
        BY <2>2, <3>1
      <4>2. Len(r) \notin Bad
        BY <2>1, <4>1
      <4> QED BY <4>1, <4>2
    <3>3. PICK q : q = <<x>> \o r
      OBVIOUS
    <3>4. q \in Seq(Seq(S)) /\ <<x>> \o t = Append(q, y)
      <4>1. PICK U : U = Seq(S)
        OBVIOUS
      <4>2. r \in Seq(U) /\ <<x>> \in Seq(U) /\ <<y>> \in Seq(U) /\ y \in U
        BY <4>1
      <4>3. (<<x>> \o r) \o <<y>> = <<x>> \o (r \o <<y>>)
        BY ONLY <4>2, Associative
      <4>4. Append(r, y) = r \o <<y>> /\ q \in Seq(U)
        BY ONLY <3>3, <4>2
      <4>5. Append(q, y) = q \o <<y>>
        BY ONLY <4>2, <4>4
      <4> QED BY <3>1, <3>3, <4>1, <4>3, <4>4, <4>5
    <3>5. FlattenSeq(<<x>> \o t) = FlattenSeq(q) \o y
      BY <3>4, FlattenAppend
    <3>6. FlattenSeq(t) = FlattenSeq(r) \o y /\ FlattenSeq(r) \in Seq(S)
      BY <3>1, FlattenAppend, FlattenType
    <3>7. PICK w \in Seq(S) : w = FlattenSeq(r)
      BY <3>6
    <3>8. (x \o w) \o y = x \o (w \o y)
      <4>1. Regroups(S, x, w, y)
        BY Regrouped
      <4> QED BY <4>1, <3>1, <3>7 DEF Regroups
    <3> QED BY <2>2, <3>2, <3>3, <3>5, <3>6, <3>7, <3>8
  <2> QED BY <2>3, <2>4
<1>2. Len(s) \in Nat
  <2>1. PICK U : U = Seq(S)
    OBVIOUS
  <2>2. s \in Seq(U)
    BY <2>1
  <2> QED BY ONLY <2>2
<1>3. Len(s) \notin Bad
  BY <1>1
<1> QED BY <1>2, <1>3

-----------------------------------------------------------------------------
(***************************************************************************)
(* How the operations on green elements change their counts.  What the     *)
(* owners of green elements need to know of an operation is one number per *)
(* element: its excess, the count less the child slots it is in, which is  *)
(* the number of references held outside the heap.                         *)
(***************************************************************************)
-----------------------------------------------------------------------------
(***************************************************************************)
(* Counting.  Sets that agree except on one element differ in size by that *)
(* element.                                                                *)
(***************************************************************************)
LEMMA DifferInOne ==
  ASSUME NEW F, NEW G, NEW c, IsFiniteSet(F), IsFiniteSet(G), F \ {c} = G \ {c}
  PROVE  /\ Cardinality(F) \in Nat /\ Cardinality(G) \in Nat
         /\ Cardinality(G) = Cardinality(F) - One(c \in F) + One(c \in G)
<1>1. /\ Cardinality(F) \in Nat /\ Cardinality(G) \in Nat
      /\ IsFiniteSet(F \ {c}) /\ Cardinality(F \ {c}) \in Nat
  BY FS_Subset, FS_CardinalityType
<1>2. ASSUME NEW S, IsFiniteSet(S)
      PROVE  Cardinality(S) = Cardinality(S \ {c}) + One(c \in S)
  <2>1. Cardinality(S) \in Nat
    BY <1>2, FS_CardinalityType
  <2>2. CASE c \in S
    <3>1. Cardinality(S \ {c}) = Cardinality(S) - 1
      BY <1>2, <2>2, FS_RemoveElement
    <3>2. One(c \in S) = 1  BY <2>2 DEF One
    <3> QED BY <3>1, <3>2, <2>1
  <2>3. CASE c \notin S
    <3>1. S \ {c} = S  BY <2>3
    <3>2. One(c \in S) = 0  BY <2>3 DEF One
    <3>3. Cardinality(S \ {c}) = Cardinality(S)  BY <3>1
    <3> QED BY <3>2, <3>3, <2>1
  <2> QED BY <2>2, <2>3
<1>3. Cardinality(F) = Cardinality(F \ {c}) + One(c \in F)
  BY <1>2
<1>4. Cardinality(G) = Cardinality(F \ {c}) + One(c \in G)
  BY <1>2
<1>5. One(c \in F) \in Nat /\ One(c \in G) \in Nat
  BY DEF One
<1> QED BY <1>1, <1>3, <1>4, <1>5

LEMMA OneType == \A b : One(b) \in Nat
BY DEF One

(* Adding the same number to every element of a set of positions keeps its size. *)
LEMMA Shifted ==
  ASSUME NEW B \in SUBSET Nat, IsFiniteSet(B), NEW n \in Nat,
         NEW C, \A j : j \in C <=> \E i \in B : j = i + n
  PROVE  IsFiniteSet(C) /\ Cardinality(C) = Cardinality(B)
<1> DEFINE f == [i \in B |-> i + n]
<1>1. f \in Bijection(B, C)
  <2>1. f \in [B -> C]
    OBVIOUS
  <2>2. \A i, j \in B : f[i] = f[j] => i = j
    OBVIOUS
  <2>3. \A j \in C : \E i \in B : f[i] = j
    OBVIOUS
  <2> HIDE DEF f
  <2> QED BY <2>1, <2>2, <2>3 DEF Bijection, Injection, Surjection, IsInjective
<1>2. ExistsBijection(B, C)
  BY <1>1 DEF ExistsBijection
<1> QED BY <1>2, FS_Bijection

-----------------------------------------------------------------------------
(***************************************************************************)
(* Occurrences in a sequence.                                              *)
(***************************************************************************)
Places(x, s) == {i \in DOMAIN s : s[i] = x}

LEMMA TimesType ==
  ASSUME NEW S, NEW s \in Seq(S), NEW x
  PROVE  /\ IsFiniteSet(Places(x, s)) /\ Places(x, s) \subseteq 1 .. Len(s)
         /\ Times(x, s) = Cardinality(Places(x, s)) /\ Times(x, s) \in Nat
<1>1. DOMAIN s = 1 .. Len(s) /\ Len(s) \in Nat
  OBVIOUS
<1>2. IsFiniteSet(1 .. Len(s))
  BY <1>1, FS_Interval
<1>3. Places(x, s) \in SUBSET (1 .. Len(s))
  BY <1>1 DEF Places
<1>4. Times(x, s) = Cardinality(Places(x, s))
  BY DEF Times, Places
<1> QED BY <1>2, <1>3, <1>4, FS_Subset, FS_CardinalityType

LEMMA TimesPositive ==
  ASSUME NEW S, NEW s \in Seq(S), NEW x
  PROVE  (\E i \in DOMAIN s : s[i] = x) <=> Times(x, s) > 0
<1>1. (\E i \in DOMAIN s : s[i] = x) <=> Places(x, s) # {}
  BY DEF Places
<1>2. Times(x, s) = 0 <=> Places(x, s) = {}
  BY TimesType, FS_EmptySet
<1> QED BY <1>1, <1>2, TimesType

LEMMA TimesEmpty == \A x : Times(x, <<>>) = 0
BY FS_EmptySet DEF Times

LEMMA TimesConcat ==
  ASSUME NEW S, NEW s \in Seq(S), NEW t \in Seq(S), NEW x
  PROVE  s \o t \in Seq(S) /\ Times(x, s \o t) = Times(x, s) + Times(x, t)
<1> DEFINE A == Places(x, s)
           B == Places(x, t)
           C == {j \in Len(s) + 1 .. Len(s) + Len(t) : t[j - Len(s)] = x}
<1>1. /\ s \o t \in Seq(S) /\ Len(s) \in Nat /\ Len(t) \in Nat
      /\ DOMAIN s = 1 .. Len(s) /\ DOMAIN t = 1 .. Len(t)
      /\ DOMAIN (s \o t) = 1 .. Len(s) + Len(t)
      /\ \A i \in 1 .. Len(s) + Len(t) : (s \o t)[i] = IF i <= Len(s) THEN s[i] ELSE t[i - Len(s)]
  BY ConcatProperties, LenProperties
<1>2. Places(x, s \o t) = A \cup C
  <2>1. ASSUME NEW i \in 1 .. Len(s) + Len(t)
        PROVE  i \in Places(x, s \o t) <=> i \in A \cup C
    <3>1. CASE i <= Len(s)
      BY <1>1, <3>1 DEF Places
    <3>2. CASE i > Len(s)
      BY <1>1, <3>2 DEF Places
    <3> QED BY <1>1, <3>1, <3>2
  <2>2. Places(x, s \o t) \subseteq 1 .. Len(s) + Len(t) /\ A \cup C \subseteq 1 .. Len(s) + Len(t)
    BY <1>1 DEF Places
  <2> HIDE DEF A, C
  <2> QED BY <2>1, <2>2
<1>3. IsFiniteSet(A) /\ IsFiniteSet(B) /\ B \subseteq Nat
      /\ Times(x, s) = Cardinality(A) /\ Times(x, t) = Cardinality(B)
  BY TimesType, <1>1
<1>4. IsFiniteSet(C) /\ Cardinality(C) = Cardinality(B)
  <2>1. ASSUME NEW j PROVE j \in C <=> \E i \in B : j = i + Len(s)
    <3>1. ASSUME j \in C PROVE j - Len(s) \in B /\ j = (j - Len(s)) + Len(s)
      BY <3>1, <1>1 DEF Places
    <3>2. ASSUME NEW i \in B, j = i + Len(s) PROVE j \in C
      BY <3>2, <1>1 DEF Places
    <3> QED BY <3>1, <3>2
  <2> HIDE DEF B, C
  <2> QED BY <1>1, <1>3, <2>1, Shifted
<1>5. A \cap C = {}
  BY <1>1 DEF Places
<1>6. Cardinality(A \cup C) = Cardinality(A) + Cardinality(C) - Cardinality(A \cap C)
  BY <1>3, <1>4, FS_Union
<1>7. Times(x, s \o t) = Cardinality(Places(x, s \o t))
  BY <1>1, TimesType
<1>8. Cardinality(A) \in Nat /\ Cardinality(C) \in Nat
  BY <1>3, <1>4, FS_CardinalityType
<1>9. Cardinality(A \cap C) = 0
  BY <1>5, FS_EmptySet
<1> HIDE DEF A, B, C
<1>10. Cardinality(A \cup C) = Cardinality(A) + Cardinality(C)
  BY <1>6, <1>8, <1>9
<1>11. Times(x, s \o t) = Cardinality(A \cup C)
  BY <1>2, <1>7
<1>12. Cardinality(C) = Times(x, t) /\ Cardinality(A) = Times(x, s)
  BY <1>3, <1>4
<1> QED BY <1>1, <1>10, <1>11, <1>12

LEMMA TimesOne == \A x, y : Times(x, <<y>>) = One(y = x)
<1> SUFFICES ASSUME NEW x, NEW y PROVE Times(x, <<y>>) = One(y = x)
  OBVIOUS
<1>1. <<y>> \in Seq({y})
  OBVIOUS
<1>2. CASE y = x
  <2>1. Places(x, <<y>>) = {1}
    BY <1>2 DEF Places
  <2> QED BY <1>1, <1>2, <2>1, TimesType, FS_Singleton DEF One
<1>3. CASE y # x
  <2>1. Places(x, <<y>>) = {}
    BY <1>3 DEF Places
  <2> QED BY <1>1, <1>3, <2>1, TimesType, FS_EmptySet DEF One
<1> QED BY <1>2, <1>3

(* A sequence is what lies before a position, the element there, and what lies behind. *)
LEMMA TimesAround ==
  ASSUME NEW S, NEW s \in Seq(S), NEW t \in Seq(S), NEW e \in S, NEW x
  PROVE  /\ s \o <<e>> \o t \in Seq(S)
         /\ Times(x, s \o <<e>> \o t) = Times(x, s) + One(e = x) + Times(x, t)
<1>1. <<e>> \in Seq(S)
  OBVIOUS
<1>2. s \o <<e>> \in Seq(S) /\ Times(x, s \o <<e>>) = Times(x, s) + Times(x, <<e>>)
  <2>1. PICK o \in Seq(S) : o = <<e>>
    BY <1>1
  <2>2. s \o o \in Seq(S) /\ Times(x, s \o o) = Times(x, s) + Times(x, o)
    BY TimesConcat
  <2> QED BY <2>1, <2>2
<1>3. Times(x, <<e>>) = One(e = x)
  BY TimesOne
<1> DEFINE u == s \o <<e>>
<1>4. u \in Seq(S) /\ Times(x, u) = Times(x, s) + One(e = x)
  BY <1>2, <1>3
<1> HIDE DEF u
<1>5. u \o t \in Seq(S) /\ Times(x, u \o t) = Times(x, u) + Times(x, t)
  BY <1>4, TimesConcat
<1> QED BY <1>4, <1>5 DEF u

LEMMA TimesAppend ==
  ASSUME NEW S, NEW s \in Seq(S), NEW e \in S, NEW x
  PROVE  Append(s, e) \in Seq(S) /\ Times(x, Append(s, e)) = Times(x, s) + One(e = x)
<1>1. <<e>> \in Seq(S) /\ Append(s, e) = s \o <<e>>
  BY AppendIsConcat
<1>2. s \o <<e>> \in Seq(S) /\ Times(x, s \o <<e>>) = Times(x, s) + Times(x, <<e>>)
  <2>1. PICK o \in Seq(S) : o = <<e>>
    BY <1>1
  <2>2. s \o o \in Seq(S) /\ Times(x, s \o o) = Times(x, s) + Times(x, o)
    BY TimesConcat
  <2> QED BY <2>1, <2>2
<1>3. Times(x, <<e>>) = One(e = x)
  BY TimesOne
<1> QED BY <1>1, <1>2, <1>3

LEMMA TimesHeadTail ==
  ASSUME NEW S, NEW s \in Seq(S), s # <<>>, NEW x
  PROVE  /\ Head(s) \in S /\ Tail(s) \in Seq(S)
         /\ Times(x, s) = One(Head(s) = x) + Times(x, Tail(s))
<1>1. Head(s) \in S /\ Tail(s) \in Seq(S) /\ <<Head(s)>> \in Seq(S)
  BY HeadTailProperties
<1>2. s = <<Head(s)>> \o Tail(s)
  <2>1. <<Head(s)>> \o Tail(s) \in Seq(S)
        /\ Len(<<Head(s)>> \o Tail(s)) = Len(s)
        /\ \A i \in 1 .. Len(s) : s[i] = (<<Head(s)>> \o Tail(s))[i]
    BY <1>1
  <2> QED BY <2>1, SeqEqual
<1>3. Times(x, <<Head(s)>> \o Tail(s)) = Times(x, <<Head(s)>>) + Times(x, Tail(s))
  BY <1>1, TimesConcat
<1>4. Times(x, <<Head(s)>>) = One(Head(s) = x)
  BY TimesOne
<1> QED BY <1>1, <1>2, <1>3, <1>4

LEMMA TimesRemoveAt ==
  ASSUME NEW S, NEW s \in Seq(S), NEW i \in 1 .. Len(s), NEW x
  PROVE  /\ RemoveAt(s, i) \in Seq(S)
         /\ Times(x, RemoveAt(s, i)) = Times(x, s) - One(s[i] = x)
<1> DEFINE before == SubSeq(s, 1, i - 1)
           behind == SubSeq(s, i + 1, Len(s))
<1>1. before \in Seq(S) /\ behind \in Seq(S) /\ s[i] \in S
  OBVIOUS
<1>2. s = before \o <<s[i]>> \o behind
  <2>1. Len(before) = i - 1 /\ Len(behind) = Len(s) - i
    OBVIOUS
  <2>2. \A j \in 1 .. i - 1 : before[j] = s[j]
    OBVIOUS
  <2>3. \A j \in 1 .. Len(s) - i : behind[j] = s[j + i]
    OBVIOUS
  <2> HIDE DEF before, behind
  <2>4. /\ before \o <<s[i]>> \in Seq(S) /\ Len(before \o <<s[i]>>) = i
        /\ \A j \in 1 .. i : (before \o <<s[i]>>)[j] = s[j]
    BY <1>1, <2>1, <2>2
  <2> DEFINE u == before \o <<s[i]>>
  <2>5. u \in Seq(S) /\ Len(u) = i /\ \A j \in 1 .. i : u[j] = s[j]
    BY <2>4
  <2> HIDE DEF u
  <2>6. /\ u \o behind \in Seq(S)
        /\ Len(u \o behind) = Len(u) + Len(behind)
        /\ \A j \in 1 .. Len(u) + Len(behind) :
             (u \o behind)[j] = IF j <= Len(u) THEN u[j] ELSE behind[j - Len(u)]
    BY <1>1, <2>5, ConcatProperties
  <2>7. Len(s) \in Nat /\ Len(u) + Len(behind) = Len(s)
    BY <2>1, <2>5
  <2>8. ASSUME NEW j \in 1 .. Len(s) PROVE (u \o behind)[j] = s[j]
    <3>1. CASE j <= i
      BY <2>5, <2>6, <2>7, <3>1
    <3>2. CASE j > i
      <4>1. j - i \in 1 .. Len(s) - i /\ (j - i) + i = j
        BY <3>2, <2>7
      <4>2. (u \o behind)[j] = behind[j - i]
        BY <2>5, <2>6, <2>7, <3>2
      <4> QED BY <4>1, <4>2, <2>3
    <3> QED BY <3>1, <3>2, <2>7
  <2>9. s = u \o behind
    BY <2>6, <2>7, <2>8, SeqEqual
  <2> QED BY <2>9 DEF u
<1>3. RemoveAt(s, i) = before \o behind
  BY DEF RemoveAt
<1> HIDE DEF before, behind
<1>4. Times(x, s) = Times(x, before) + One(s[i] = x) + Times(x, behind)
  <2>1. Times(x, before \o <<s[i]>> \o behind) = Times(x, before) + One(s[i] = x) + Times(x, behind)
    BY <1>1, TimesAround
  <2> QED BY <1>2, <2>1
<1>5. RemoveAt(s, i) \in Seq(S) /\ Times(x, RemoveAt(s, i)) = Times(x, before) + Times(x, behind)
  BY <1>1, <1>3, TimesConcat
<1>6. Times(x, before) \in Nat /\ Times(x, behind) \in Nat /\ One(s[i] = x) \in Nat
  BY <1>1, TimesType, OneType
<1> QED BY <1>4, <1>5, <1>6

LEMMA TimesInsertAt ==
  ASSUME NEW S, NEW s \in Seq(S), NEW i \in 1 .. Len(s) + 1, NEW e \in S, NEW x
  PROVE  /\ InsertAt(s, i, e) \in Seq(S)
         /\ Times(x, InsertAt(s, i, e)) = Times(x, s) + One(e = x)
<1> DEFINE before == SubSeq(s, 1, i - 1)
           behind == SubSeq(s, i, Len(s))
<1>1. before \in Seq(S) /\ behind \in Seq(S)
  OBVIOUS
<1>2. s = before \o behind
  <2>1. Len(before) = i - 1 /\ Len(behind) = Len(s) - (i - 1)
    OBVIOUS
  <2>2. \A j \in 1 .. i - 1 : before[j] = s[j]
    OBVIOUS
  <2>3. \A j \in 1 .. Len(s) - (i - 1) : behind[j] = s[j + (i - 1)]
    OBVIOUS
  <2> HIDE DEF before, behind
  <2>4. /\ before \o behind \in Seq(S)
        /\ Len(before \o behind) = Len(before) + Len(behind)
        /\ \A j \in 1 .. Len(before) + Len(behind) :
             (before \o behind)[j] = IF j <= Len(before) THEN before[j] ELSE behind[j - Len(before)]
    BY <1>1, ConcatProperties
  <2>5. Len(s) \in Nat /\ Len(before) + Len(behind) = Len(s)
    BY <2>1
  <2>6. ASSUME NEW j \in 1 .. Len(s) PROVE (before \o behind)[j] = s[j]
    <3>1. CASE j <= i - 1
      BY <2>1, <2>2, <2>4, <2>5, <3>1
    <3>2. CASE j > i - 1
      <4>1. j - (i - 1) \in 1 .. Len(s) - (i - 1) /\ (j - (i - 1)) + (i - 1) = j
        BY <3>2, <2>5
      <4>2. j \in 1 .. Len(before) + Len(behind) /\ ~ (j <= Len(before))
            /\ j - Len(before) = j - (i - 1)
        BY <2>1, <2>5, <3>2
      <4>3. (before \o behind)[j] = behind[j - (i - 1)]
        BY <2>4, <4>2
      <4> QED BY <4>1, <4>3, <2>3
    <3> QED BY <3>1, <3>2, <2>5
  <2> QED BY <2>4, <2>5, <2>6, SeqEqual
<1>3. InsertAt(s, i, e) = before \o <<e>> \o behind
  BY DEF InsertAt
<1> HIDE DEF before, behind
<1>4. Times(x, s) = Times(x, before) + Times(x, behind)
  BY <1>1, <1>2, TimesConcat
<1>5. /\ InsertAt(s, i, e) \in Seq(S)
      /\ Times(x, InsertAt(s, i, e)) = Times(x, before) + One(e = x) + Times(x, behind)
  <2>1. /\ before \o <<e>> \o behind \in Seq(S)
        /\ Times(x, before \o <<e>> \o behind) = Times(x, before) + One(e = x) + Times(x, behind)
    BY <1>1, TimesAround
  <2> QED BY <1>3, <2>1
<1>6. Times(x, before) \in Nat /\ Times(x, behind) \in Nat /\ One(e = x) \in Nat
  BY <1>1, TimesType, OneType
<1> QED BY <1>4, <1>5, <1>6

LEMMA TimesReplaceAt ==
  ASSUME NEW S, NEW s \in Seq(S), NEW i \in 1 .. Len(s), NEW e \in S, NEW x
  PROVE  /\ ReplaceAt(s, i, e) \in Seq(S)
         /\ Times(x, ReplaceAt(s, i, e)) = Times(x, s) - One(s[i] = x) + One(e = x)
<1> DEFINE t == ReplaceAt(s, i, e)
<1>1. /\ t \in Seq(S) /\ Len(t) = Len(s)
      /\ \A j \in 1 .. Len(s) : t[j] = IF j = i THEN e ELSE s[j]
  BY ExceptSeq DEF ReplaceAt
<1>2. DOMAIN s = 1 .. Len(s) /\ DOMAIN t = 1 .. Len(s)
  BY <1>1
<1> HIDE DEF t
<1>3. Places(x, s) \ {i} = Places(x, t) \ {i}
  BY <1>1, <1>2 DEF Places
<1>4. /\ One(i \in Places(x, s)) = One(s[i] = x)
      /\ One(i \in Places(x, t)) = One(e = x)
  BY <1>1, <1>2 DEF Places, One
<1>5. /\ IsFiniteSet(Places(x, s)) /\ Times(x, s) = Cardinality(Places(x, s))
      /\ IsFiniteSet(Places(x, t)) /\ Times(x, t) = Cardinality(Places(x, t))
  BY <1>1, TimesType
<1>6. Cardinality(Places(x, t)) =
        Cardinality(Places(x, s)) - One(i \in Places(x, s)) + One(i \in Places(x, t))
  BY <1>3, <1>5, DifferInOne
<1> QED BY <1>1, <1>4, <1>5, <1>6 DEF t

(***************************************************************************)
(* What the three edits leave at each position.                            *)
(***************************************************************************)
LEMMA RemovedAt ==
  ASSUME NEW S, NEW s \in Seq(S), NEW i \in 1 .. Len(s)
  PROVE  /\ RemoveAt(s, i) \in Seq(S) /\ Len(RemoveAt(s, i)) = Len(s) - 1
         /\ \A j \in 1 .. Len(s) - 1 : RemoveAt(s, i)[j] = IF j < i THEN s[j] ELSE s[j + 1]
<1> DEFINE before == SubSeq(s, 1, i - 1)
           behind == SubSeq(s, i + 1, Len(s))
<1>1. before \in Seq(S) /\ behind \in Seq(S) /\ Len(before) = i - 1 /\ Len(behind) = Len(s) - i
  OBVIOUS
<1>2. \A j \in 1 .. i - 1 : before[j] = s[j]
  OBVIOUS
<1>3. \A j \in 1 .. Len(s) - i : behind[j] = s[j + i]
  OBVIOUS
<1>4. RemoveAt(s, i) = before \o behind
  BY DEF RemoveAt
<1> HIDE DEF before, behind
<1>5. /\ before \o behind \in Seq(S)
      /\ Len(before \o behind) = Len(before) + Len(behind)
      /\ \A j \in 1 .. Len(before) + Len(behind) :
           (before \o behind)[j] = IF j <= Len(before) THEN before[j] ELSE behind[j - Len(before)]
  BY <1>1, ConcatProperties
<1>6. Len(s) \in Nat /\ Len(before) + Len(behind) = Len(s) - 1
  BY <1>1
<1>7. ASSUME NEW j \in 1 .. Len(s) - 1
      PROVE  (before \o behind)[j] = IF j < i THEN s[j] ELSE s[j + 1]
  <2>1. CASE j < i
    BY <1>1, <1>2, <1>5, <1>6, <2>1
  <2>2. CASE j >= i
    <3>1. j - (i - 1) \in 1 .. Len(s) - i /\ (j - (i - 1)) + i = j + 1
      BY <2>2, <1>6
    <3>2. j \in 1 .. Len(before) + Len(behind) /\ ~ (j <= Len(before))
          /\ j - Len(before) = j - (i - 1)
      BY <1>1, <1>6, <2>2
    <3>3. (before \o behind)[j] = behind[j - (i - 1)]
      BY <1>5, <3>2
    <3>4. behind[j - (i - 1)] = s[j + 1]
      BY <1>3, <3>1
    <3>5. ~ (j < i)
      BY <2>2, <1>6
    <3> QED BY <3>3, <3>4, <3>5
  <2> QED BY <2>1, <2>2, <1>6
<1> QED BY <1>4, <1>5, <1>6, <1>7

LEMMA InsertedAt ==
  ASSUME NEW S, NEW s \in Seq(S), NEW i \in 1 .. Len(s) + 1, NEW e \in S
  PROVE  /\ InsertAt(s, i, e) \in Seq(S) /\ Len(InsertAt(s, i, e)) = Len(s) + 1
         /\ \A j \in 1 .. Len(s) + 1 :
              InsertAt(s, i, e)[j] = IF j < i THEN s[j] ELSE IF j = i THEN e ELSE s[j - 1]
<1> DEFINE before == SubSeq(s, 1, i - 1)
           behind == SubSeq(s, i, Len(s))
<1>1. /\ before \in Seq(S) /\ behind \in Seq(S)
      /\ Len(before) = i - 1 /\ Len(behind) = Len(s) - (i - 1)
  OBVIOUS
<1>2. \A j \in 1 .. i - 1 : before[j] = s[j]
  OBVIOUS
<1>3. \A j \in 1 .. Len(s) - (i - 1) : behind[j] = s[j + (i - 1)]
  OBVIOUS
<1>4. InsertAt(s, i, e) = before \o <<e>> \o behind
  BY DEF InsertAt
<1> HIDE DEF before, behind
<1> DEFINE u == before \o <<e>>
<1>5. u \in Seq(S) /\ Len(u) = i /\ u[i] = e /\ \A j \in 1 .. i - 1 : u[j] = s[j]
  <2>1. <<e>> \in Seq(S) /\ Len(<<e>>) = 1 /\ <<e>>[1] = e
    OBVIOUS
  <2>2. /\ u \in Seq(S) /\ Len(u) = Len(before) + Len(<<e>>)
        /\ \A j \in 1 .. Len(before) + Len(<<e>>) :
             u[j] = IF j <= Len(before) THEN before[j] ELSE <<e>>[j - Len(before)]
    BY <1>1, <2>1, ConcatProperties
  <2>3. i \in Nat /\ i \in 1 .. Len(before) + Len(<<e>>) /\ i - Len(before) = 1
    BY <1>1, <2>1
  <2> HIDE DEF u
  <2> QED BY <1>1, <1>2, <2>1, <2>2, <2>3
<1> HIDE DEF u
<1>6. /\ u \o behind \in Seq(S)
      /\ Len(u \o behind) = Len(u) + Len(behind)
      /\ \A j \in 1 .. Len(u) + Len(behind) :
           (u \o behind)[j] = IF j <= Len(u) THEN u[j] ELSE behind[j - Len(u)]
  BY <1>1, <1>5, ConcatProperties
<1>7. Len(s) \in Nat /\ Len(u) + Len(behind) = Len(s) + 1
  BY <1>1, <1>5
<1>8. ASSUME NEW j \in 1 .. Len(s) + 1
      PROVE  (u \o behind)[j] = IF j < i THEN s[j] ELSE IF j = i THEN e ELSE s[j - 1]
  <2>1. CASE j <= i
    BY <1>5, <1>6, <1>7, <2>1
  <2>2. CASE j > i
    <3>1. j - i \in 1 .. Len(s) - (i - 1) /\ (j - i) + (i - 1) = j - 1
      BY <2>2, <1>7
    <3>2. (u \o behind)[j] = behind[j - i]
      BY <1>5, <1>6, <1>7, <2>2
    <3> QED BY <3>1, <3>2, <1>3, <2>2, <1>7
  <2> QED BY <2>1, <2>2, <1>7
<1> QED BY <1>4, <1>6, <1>7, <1>8 DEF u

-----------------------------------------------------------------------------
(***************************************************************************)
(* The child slots an element is in.                                       *)
(***************************************************************************)
LEMMA SlotsMember ==
  ASSUME NEW h, NEW x, NEW s
  PROVE  s \in SlotsOf(h, x) <=>
           \E k \in Greens : \E i \in DOMAIN h[k].kids : s = <<k, i>> /\ h[k].kids[i] = x
BY DEF SlotsOf

(* The slots of x in the node k, and those in the other nodes. *)
SlotsIn(h, k, x) == {s \in SlotsOf(h, x) : s[1] = k}
SlotsBut(h, k, x) == {s \in SlotsOf(h, x) : s[1] # k}

LEMMA SlotsInNode ==
  ASSUME NEW h, HeapType(h), NEW k \in Greens, NEW x
  PROVE  IsFiniteSet(SlotsIn(h, k, x)) /\ Cardinality(SlotsIn(h, k, x)) = Times(x, h[k].kids)
<1> DEFINE P == Places(x, h[k].kids)
           S == SlotsIn(h, k, x)
           f == [i \in P |-> <<k, i>>]
<1>1. h[k].kids \in Seq(Greens)
  BY DEF HeapType
<1>2. IsFiniteSet(P) /\ Times(x, h[k].kids) = Cardinality(P)
  BY <1>1, TimesType
<1>3. \A i \in P : f[i] \in S
  BY SlotsMember DEF SlotsIn, Places
<1>4. \A s \in S : \E i \in P : f[i] = s
  BY SlotsMember DEF SlotsIn, Places
<1>5. \A i, j \in P : f[i] = f[j] => i = j
  OBVIOUS
<1>6. f \in Bijection(P, S)
  <2>1. f \in [P -> S]
    BY <1>3
  <2> HIDE DEF f
  <2> QED BY <2>1, <1>4, <1>5 DEF Bijection, Injection, Surjection, IsInjective
<1>7. ExistsBijection(P, S)
  BY <1>6 DEF ExistsBijection
<1> HIDE DEF P, S
<1>8. IsFiniteSet(S) /\ Cardinality(S) = Cardinality(P)
  BY <1>2, <1>7, FS_Bijection
<1> QED BY <1>2, <1>8 DEF S

LEMMA SlotsType ==
  ASSUME NEW h, HeapType(h), NEW x
  PROVE  IsFiniteSet(SlotsOf(h, x)) /\ Cardinality(SlotsOf(h, x)) \in Nat
<1> DEFINE In(k) == {<<k, i>> : i \in {j \in DOMAIN h[k].kids : h[k].kids[j] = x}}
           f == [k \in Greens |-> In(k)]
           T == {In(k) : k \in Greens}
<1>1. ASSUME NEW k \in Greens PROVE IsFiniteSet(In(k))
  <2>1. In(k) = SlotsIn(h, k, x)
    <3>1. ASSUME NEW s PROVE s \in In(k) <=> s \in SlotsIn(h, k, x)
      BY SlotsMember DEF SlotsIn
    <3> QED BY <3>1
  <2> QED BY <2>1, SlotsInNode
<1>2. IsFiniteSet(T)
  <2>1. f \in Surjection(Greens, T)
    BY DEF Surjection
  <2> QED BY <2>1, AddressesAssumption, FS_Surjection
<1>3. \A U \in T : IsFiniteSet(U)
  BY <1>1
<1> HIDE DEF T
<1>4. IsFiniteSet(UNION T)
  BY <1>2, <1>3, FS_UNION
<1>5. SlotsOf(h, x) = UNION T
  BY DEF SlotsOf, T
<1> QED BY <1>4, <1>5, FS_CardinalityType

LEMMA SlotsPositive ==
  ASSUME NEW h, HeapType(h), NEW k \in Greens, NEW i \in DOMAIN h[k].kids
  PROVE  Cardinality(SlotsOf(h, h[k].kids[i])) > 0
<1>1. <<k, i>> \in SlotsOf(h, h[k].kids[i])
  BY SlotsMember
<1>2. SlotsOf(h, h[k].kids[i]) # {}
  BY <1>1
<1> QED BY <1>2, SlotsType, FS_EmptySet

(* Heaps that differ in the children of one node. *)
LEMMA SlotsDiffer ==
  ASSUME NEW h, HeapType(h), NEW q, HeapType(q), NEW a \in Greens, NEW x,
         \A k \in Greens \ {a} : q[k].kids = h[k].kids
  PROVE  Cardinality(SlotsOf(q, x)) =
           Cardinality(SlotsOf(h, x)) - Times(x, h[a].kids) + Times(x, q[a].kids)
<1>1. SlotsBut(q, a, x) = SlotsBut(h, a, x)
  <2>1. ASSUME NEW s PROVE s \in SlotsBut(q, a, x) <=> s \in SlotsBut(h, a, x)
    BY SlotsMember DEF SlotsBut
  <2> QED BY <2>1
<1>2. ASSUME NEW p, HeapType(p)
      PROVE  /\ Cardinality(SlotsOf(p, x)) = Cardinality(SlotsBut(p, a, x)) + Times(x, p[a].kids)
             /\ Cardinality(SlotsBut(p, a, x)) \in Nat /\ Times(x, p[a].kids) \in Nat
  <2>1. /\ SlotsOf(p, x) = SlotsBut(p, a, x) \cup SlotsIn(p, a, x)
        /\ SlotsBut(p, a, x) \cap SlotsIn(p, a, x) = {}
        /\ SlotsBut(p, a, x) \in SUBSET SlotsOf(p, x)
    BY DEF SlotsBut, SlotsIn
  <2>2. IsFiniteSet(SlotsBut(p, a, x))
    BY <1>2, <2>1, SlotsType, FS_Subset
  <2>3. IsFiniteSet(SlotsIn(p, a, x)) /\ Cardinality(SlotsIn(p, a, x)) = Times(x, p[a].kids)
    BY <1>2, SlotsInNode
  <2>4. Cardinality(SlotsOf(p, x)) =
          Cardinality(SlotsBut(p, a, x)) + Cardinality(SlotsIn(p, a, x))
          - Cardinality(SlotsBut(p, a, x) \cap SlotsIn(p, a, x))
    BY <2>1, <2>2, <2>3, FS_Union
  <2>5. Cardinality(SlotsBut(p, a, x)) \in Nat /\ Cardinality(SlotsIn(p, a, x)) \in Nat
    BY <2>2, <2>3, FS_CardinalityType
  <2>6. Cardinality(SlotsBut(p, a, x) \cap SlotsIn(p, a, x)) = 0
    BY <2>1, FS_EmptySet
  <2>7. Cardinality(SlotsOf(p, x)) = Cardinality(SlotsBut(p, a, x)) + Cardinality(SlotsIn(p, a, x))
    BY <2>4, <2>5, <2>6
  <2> QED BY <2>3, <2>5, <2>7
<1>3. /\ Cardinality(SlotsOf(h, x)) = Cardinality(SlotsBut(h, a, x)) + Times(x, h[a].kids)
      /\ Cardinality(SlotsBut(h, a, x)) \in Nat /\ Times(x, h[a].kids) \in Nat
  BY <1>2
<1>4. /\ Cardinality(SlotsOf(q, x)) = Cardinality(SlotsBut(q, a, x)) + Times(x, q[a].kids)
      /\ Times(x, q[a].kids) \in Nat
  BY <1>2
<1> QED BY <1>1, <1>3, <1>4

(* Heaps whose nodes have the same children. *)
LEMMA SlotsSame ==
  ASSUME NEW h, NEW q, NEW x, \A k \in Greens : q[k].kids = h[k].kids
  PROVE  SlotsOf(q, x) = SlotsOf(h, x)
<1>1. ASSUME NEW s PROVE s \in SlotsOf(q, x) <=> s \in SlotsOf(h, x)
  BY SlotsMember
<1> QED BY <1>1

-----------------------------------------------------------------------------
(***************************************************************************)
(* The operations.  Each keeps the type of the heap and its free addresses *)
(* blank, and changes the excess of an element by the references it makes  *)
(* over to the heap or takes out of it.                                    *)
(***************************************************************************)
Excess(h, x) == h[x].cnt - Cardinality(SlotsOf(h, x))

LEMMA ExcessType ==
  ASSUME NEW h, HeapType(h), NEW x \in Greens
  PROVE  /\ h[x].cnt \in Nat /\ Cardinality(SlotsOf(h, x)) \in Nat /\ Excess(h, x) \in Int
         /\ h[x].cnt = Excess(h, x) + Cardinality(SlotsOf(h, x))
<1>1. h[x].cnt \in Nat /\ Cardinality(SlotsOf(h, x)) \in Nat
  BY SlotsType DEF HeapType
<1> QED BY <1>1 DEF Excess

(* An element that is in a slot is not free, if nobody outside takes more than there is. *)
LEMMA SlottedIsCounted ==
  ASSUME NEW h, HeapType(h), NEW k \in Greens, NEW i \in DOMAIN h[k].kids,
         Excess(h, h[k].kids[i]) >= 0
  PROVE  h[k].kids[i] \in Greens /\ h[h[k].kids[i]].cnt > 0
<1> DEFINE x == h[k].kids[i]
<1>1. x \in Greens
  <2>1. h[k].kids \in Seq(Greens)
    BY DEF HeapType
  <2> QED BY <2>1
<1>2. Cardinality(SlotsOf(h, x)) > 0
  BY SlotsPositive
<1> HIDE DEF x
<1>3. h[x].cnt > 0
  BY <1>1, <1>2, ExcessType DEF x
<1> QED BY <1>1, <1>3 DEF x

LEMMA ShareShares ==
  ASSUME NEW h, HeapType(h), Blank(h), NEW s \in Seq(Greens)
  PROVE  LET q == Share(h, s)
         IN  /\ HeapType(q) /\ Blank(q)
             /\ \A k \in Greens : q[k].kids = h[k].kids /\ q[k].kind = h[k].kind
             /\ \A x \in Greens : /\ q[x].cnt = h[x].cnt + Times(x, s)
                                  /\ Excess(q, x) = Excess(h, x) + Times(x, s)
<1> DEFINE q == Share(h, s)
<1>1. \A x \in Greens : Times(x, s) \in Nat
  BY TimesType
<1>2. DOMAIN q = Greens
  BY DEF Share
<1>3. ASSUME NEW k \in Greens
      PROVE  /\ q[k] = [h[k] EXCEPT !.cnt = @ + Times(k, s)]
             /\ DOMAIN q[k] = DOMAIN Free
             /\ q[k].kids = h[k].kids /\ q[k].kind = h[k].kind
             /\ q[k].cnt = h[k].cnt + Times(k, s) /\ h[k].cnt \in Nat
  <2>1. q[k] = [h[k] EXCEPT !.cnt = @ + Times(k, s)]
    BY DEF Share
  <2>2. DOMAIN h[k] = DOMAIN Free /\ h[k].cnt \in Nat
    BY DEF HeapType
  <2> HIDE DEF q
  <2> QED BY <2>1, <2>2 DEF Free
<1> HIDE DEF q
<1>4. HeapType(q)
  BY <1>1, <1>2, <1>3 DEF HeapType
<1>5. Blank(q)
  <2>1. ASSUME NEW k \in Greens, q[k].cnt = 0 PROVE q[k] = Free
    <3>1. Times(k, s) = 0 /\ h[k].cnt = 0
      <4>1. Times(k, s) \in Nat /\ h[k].cnt \in Nat /\ h[k].cnt + Times(k, s) = 0
        BY <1>1, <1>3, <2>1
      <4> QED BY <4>1
    <3>2. h[k] = Free
      BY <3>1 DEF Blank, FreeGreens
    <3> QED BY <1>3, <3>1, <3>2 DEF Free
  <2> QED BY <2>1 DEF Blank, FreeGreens
<1>6. ASSUME NEW x \in Greens PROVE Excess(q, x) = Excess(h, x) + Times(x, s)
  <2>1. \A k \in Greens : q[k].kids = h[k].kids
    BY <1>3
  <2>2. SlotsOf(q, x) = SlotsOf(h, x)
    BY <2>1, SlotsSame
  <2>3. /\ Times(x, s) \in Nat /\ Cardinality(SlotsOf(h, x)) \in Nat
        /\ q[x].cnt = h[x].cnt + Times(x, s) /\ h[x].cnt \in Nat
    BY <1>1, <1>3, ExcessType
  <2> QED BY <2>2, <2>3 DEF Excess
<1> QED BY <1>3, <1>4, <1>5, <1>6 DEF q

LEMMA ShareOneShares ==
  ASSUME NEW h, HeapType(h), Blank(h), NEW g \in Greens
  PROVE  LET q == ShareOne(h, g)
         IN  /\ HeapType(q) /\ Blank(q)
             /\ \A k \in Greens : q[k].kids = h[k].kids /\ q[k].kind = h[k].kind
             /\ \A x \in Greens : /\ q[x].cnt = h[x].cnt + One(g = x)
                                  /\ Excess(q, x) = Excess(h, x) + One(g = x)
<1> DEFINE q == ShareOne(h, g)
<1>1. /\ DOMAIN q = Greens
      /\ \A k \in Greens \ {g} : q[k] = h[k]
      /\ q[g] = [h[g] EXCEPT !.cnt = @ + 1]
  BY DEF ShareOne, HeapType
<1>2. ASSUME NEW k \in Greens
      PROVE  /\ DOMAIN q[k] = DOMAIN Free
             /\ q[k].kids = h[k].kids /\ q[k].kind = h[k].kind
             /\ q[k].cnt = h[k].cnt + One(g = k) /\ h[k].cnt \in Nat
  <2>1. DOMAIN h[k] = DOMAIN Free /\ h[k].cnt \in Nat
    BY DEF HeapType
  <2> HIDE DEF q
  <2>2. CASE k = g
    BY <1>1, <2>1, <2>2 DEF Free, One
  <2>3. CASE k # g
    BY <1>1, <2>1, <2>3 DEF One
  <2> QED BY <2>2, <2>3
<1> HIDE DEF q
<1>3. HeapType(q)
  <2>1. \A k \in Greens : q[k].cnt \in Nat
    BY <1>2, OneType
  <2> QED BY <1>1, <1>2, <2>1 DEF HeapType
<1>4. Blank(q)
  <2>1. ASSUME NEW k \in Greens, q[k].cnt = 0 PROVE q[k] = Free
    <3>1. k # g /\ h[k].cnt = 0
      BY <1>2, <2>1 DEF One
    <3> QED BY <1>1, <3>1 DEF Blank, FreeGreens
  <2> QED BY <2>1 DEF Blank, FreeGreens
<1>5. ASSUME NEW x \in Greens PROVE Excess(q, x) = Excess(h, x) + One(g = x)
  <2>1. \A k \in Greens : q[k].kids = h[k].kids
    BY <1>2
  <2>2. SlotsOf(q, x) = SlotsOf(h, x)
    BY <2>1, SlotsSame
  <2>3. /\ One(g = x) \in Nat /\ Cardinality(SlotsOf(h, x)) \in Nat
        /\ q[x].cnt = h[x].cnt + One(g = x) /\ h[x].cnt \in Nat
    BY <1>2, ExcessType, OneType
  <2> QED BY <2>2, <2>3 DEF Excess
<1> QED BY <1>2, <1>3, <1>4, <1>5 DEF q

LEMMA NewNodeTakes ==
  ASSUME NEW h, HeapType(h), Blank(h), NEW a \in FreeGreens(h),
         NEW kind \in Kinds \cup {Vacant}, NEW kids \in Seq(Greens)
  PROVE  LET q == NewNode(h, a, kind, kids)
         IN  /\ a \in Greens /\ HeapType(q) /\ Blank(q)
             /\ q[a].kids = kids /\ q[a].kind = kind /\ q[a].cnt = 1
             /\ \A k \in Greens \ {a} : q[k] = h[k]
             /\ \A x \in Greens : Excess(q, x) = Excess(h, x) - Times(x, kids) + One(a = x)
<1> DEFINE q == NewNode(h, a, kind, kids)
<1>1. a \in Greens /\ h[a] = Free /\ h[a].cnt = 0 /\ h[a].kids = <<>>
  BY DEF Blank, FreeGreens, Free
<1>2. /\ DOMAIN q = Greens
      /\ DOMAIN q[a] = DOMAIN Free
      /\ q[a].kids = kids /\ q[a].kind = kind /\ q[a].cnt = 1
      /\ \A k \in Greens \ {a} : q[k] = h[k]
  BY <1>1 DEF NewNode, HeapType, Free
<1> HIDE DEF q
<1>3. HeapType(q)
  <2>1. ASSUME NEW k \in Greens
        PROVE  /\ DOMAIN q[k] = DOMAIN Free /\ q[k].kind \in Kinds \cup {Vacant}
               /\ q[k].kids \in Seq(Greens) /\ q[k].cnt \in Nat
    <3>1. CASE k = a
      BY <1>2, <3>1
    <3>2. CASE k # a
      BY <1>2, <3>2 DEF HeapType
    <3> QED BY <3>1, <3>2
  <2> QED BY <1>2, <2>1 DEF HeapType
<1>4. Blank(q)
  BY <1>2 DEF Blank, FreeGreens
<1>5. ASSUME NEW x \in Greens
      PROVE  Excess(q, x) = Excess(h, x) - Times(x, kids) + One(a = x)
  <2>1. Cardinality(SlotsOf(q, x)) =
          Cardinality(SlotsOf(h, x)) - Times(x, h[a].kids) + Times(x, q[a].kids)
    BY <1>1, <1>2, <1>3, SlotsDiffer
  <2>2. Times(x, h[a].kids) = 0 /\ Times(x, kids) \in Nat
    BY <1>1, TimesEmpty, TimesType
  <2>3. q[x].cnt = h[x].cnt + One(a = x)
    BY <1>1, <1>2 DEF One, HeapType
  <2>4. h[x].cnt \in Nat /\ Cardinality(SlotsOf(h, x)) \in Nat /\ One(a = x) \in Nat
    BY ExcessType, OneType
  <2> QED BY <1>2, <2>1, <2>2, <2>3, <2>4 DEF Excess
<1> QED BY <1>1, <1>2, <1>3, <1>4, <1>5 DEF q

LEMMA DropReleases ==
  ASSUME NEW h, HeapType(h), NEW g \in Greens, h[g].cnt > 0
  PROVE  LET q == DropGreen(h, g)
         IN  /\ HeapType(q) /\ (Blank(h) => Blank(q))
             /\ DropsOf(h, g) \in Seq(Greens)
             /\ \A k \in Greens \ {g} : q[k] = h[k]
             /\ q[g].cnt = h[g].cnt - 1
             /\ q[g].kids = IF h[g].cnt = 1 THEN <<>> ELSE h[g].kids
             /\ \A x \in Greens :
                  Excess(q, x) = Excess(h, x) - One(g = x) + Times(x, DropsOf(h, g))
<1> DEFINE q == DropGreen(h, g)
<1>1. h[g].cnt \in Nat \ {0} /\ h[g].kids \in Seq(Greens) /\ DOMAIN h = Greens
      /\ DOMAIN h[g] = DOMAIN Free
  BY DEF HeapType
<1>2. /\ DOMAIN q = Greens
      /\ DOMAIN q[g] = DOMAIN Free
      /\ \A k \in Greens \ {g} : q[k] = h[k]
      /\ q[g].cnt = h[g].cnt - 1
      /\ q[g].kind \in Kinds \cup {Vacant}
      /\ h[g].cnt = 1 => q[g] = Free /\ q[g].kids = <<>>
      /\ h[g].cnt # 1 => q[g].kids = h[g].kids
  <2>1. CASE h[g].cnt = 1
    <3>1. q = [h EXCEPT ![g] = Free]
      BY <2>1 DEF DropGreen
    <3> QED BY <1>1, <2>1, <3>1 DEF Free
  <2>2. CASE h[g].cnt # 1
    <3>1. q = [h EXCEPT ![g].cnt = @ - 1]
      BY <2>2 DEF DropGreen
    <3> QED BY <1>1, <2>2, <3>1 DEF HeapType, Free
  <2> QED BY <2>1, <2>2
<1> HIDE DEF q
<1>3. HeapType(q)
  <2>1. q[g].kids \in Seq(Greens)
    <3>1. <<>> \in Seq(Greens)
      OBVIOUS
    <3> QED BY <1>1, <1>2, <3>1
  <2>2. q[g].cnt \in Nat
    BY <1>1, <1>2
  <2>3. ASSUME NEW k \in Greens
        PROVE  /\ DOMAIN q[k] = DOMAIN Free /\ q[k].kind \in Kinds \cup {Vacant}
               /\ q[k].kids \in Seq(Greens) /\ q[k].cnt \in Nat
    <3>1. CASE k = g
      BY <1>2, <2>1, <2>2, <3>1
    <3>2. CASE k # g
      BY <1>2, <3>2 DEF HeapType
    <3> QED BY <3>1, <3>2
  <2> QED BY <1>2, <2>3 DEF HeapType
<1>4. Blank(h) => Blank(q)
  <2>1. ASSUME NEW k \in Greens, q[k].cnt = 0, Blank(h) PROVE q[k] = Free
    <3>1. CASE k = g
      BY <1>1, <1>2, <2>1, <3>1
    <3>2. CASE k # g
      BY <1>2, <2>1, <3>2 DEF Blank, FreeGreens
    <3> QED BY <3>1, <3>2
  <2> QED BY <2>1 DEF Blank, FreeGreens
<1>5. DropsOf(h, g) = (IF h[g].cnt = 1 THEN h[g].kids ELSE <<>>) /\ DropsOf(h, g) \in Seq(Greens)
  BY <1>1 DEF DropsOf
<1>6. ASSUME NEW x \in Greens
      PROVE  Excess(q, x) = Excess(h, x) - One(g = x) + Times(x, DropsOf(h, g))
  <2>1. Cardinality(SlotsOf(q, x)) =
          Cardinality(SlotsOf(h, x)) - Times(x, h[g].kids) + Times(x, q[g].kids)
    BY <1>2, <1>3, SlotsDiffer
  <2>2. /\ Times(x, h[g].kids) \in Nat /\ Times(x, <<>>) = 0
    BY <1>1, TimesEmpty, TimesType
  <2>3. q[x].cnt = h[x].cnt - One(g = x)
    <3>1. h[x].cnt \in Nat
      BY DEF HeapType
    <3> QED BY <1>1, <1>2, <3>1 DEF One
  <2>4. h[x].cnt \in Nat /\ Cardinality(SlotsOf(h, x)) \in Nat /\ One(g = x) \in Nat
    BY ExcessType, OneType
  <2>5. CASE h[g].cnt = 1
    BY <1>2, <1>5, <2>1, <2>2, <2>3, <2>4, <2>5 DEF Excess
  <2>6. CASE h[g].cnt # 1
    BY <1>2, <1>5, <2>1, <2>2, <2>3, <2>4, <2>6 DEF Excess
  <2> QED BY <2>5, <2>6
<1> QED BY <1>2, <1>3, <1>4, <1>5, <1>6 DEF q

-----------------------------------------------------------------------------
(***************************************************************************)
(* The structural edits.  Building the copy of a node at a changes the     *)
(* children of no other node.  The kept children gain the reference the    *)
(* copy holds; the inserted one moves in, so its excess falls by one.      *)
(***************************************************************************)
LEMMA CopyTakes ==
  ASSUME NEW h, HeapType(h), Blank(h), NEW a \in FreeGreens(h), Excess(h, a) >= 0,
         NEW g \in Greens, NEW kept \in Seq(Greens), NEW kids \in Seq(Greens),
         \A j \in DOMAIN kept : \E i \in DOMAIN h[g].kids : kept[j] = h[g].kids[i]
  PROVE  LET q == NewNode(Share(h, kept), a, h[g].kind, kids)
         IN  /\ a \in Greens /\ HeapType(q) /\ Blank(q)
             /\ q[a].kids = kids
             /\ \A k \in Greens \ {a} : q[k].kids = h[k].kids
             /\ \A x \in Greens :
                  Excess(q, x) = Excess(h, x) + Times(x, kept) - Times(x, kids) + One(a = x)
<1> DEFINE p == Share(h, kept)
           kind == h[g].kind
           q == NewNode(p, a, kind, kids)
<1>1. /\ HeapType(p) /\ Blank(p)
      /\ \A k \in Greens : p[k].kids = h[k].kids /\ p[k].kind = h[k].kind
      /\ \A x \in Greens : /\ p[x].cnt = h[x].cnt + Times(x, kept)
                           /\ Excess(p, x) = Excess(h, x) + Times(x, kept)
  BY ShareShares
<1>2. a \in Greens /\ h[a].cnt = 0
  BY DEF FreeGreens
<1>3. Times(a, kept) = 0
  <2>1. ASSUME NEW j \in DOMAIN kept PROVE kept[j] # a
    <3>1. PICK i \in DOMAIN h[g].kids : kept[j] = h[g].kids[i]
      OBVIOUS
    <3> QED BY <1>2, <3>1, SlottedIsCounted
  <2>2. Times(a, kept) \in Nat /\ ~ (Times(a, kept) > 0)
    BY <2>1, TimesPositive, TimesType
  <2> QED BY <2>2
<1> HIDE DEF p
<1>4. a \in FreeGreens(p)
  BY <1>1, <1>2, <1>3 DEF FreeGreens
<1>5. kind \in Kinds \cup {Vacant}
  BY DEF HeapType
<1> HIDE DEF kind
<1>6. /\ HeapType(q) /\ Blank(q)
      /\ q[a].kids = kids
      /\ \A k \in Greens \ {a} : q[k] = p[k]
      /\ \A x \in Greens : Excess(q, x) = Excess(p, x) - Times(x, kids) + One(a = x)
  BY <1>1, <1>4, <1>5, NewNodeTakes
<1> HIDE DEF q
<1>7. \A k \in Greens \ {a} : q[k].kids = h[k].kids
  BY <1>1, <1>6
<1>8. ASSUME NEW x \in Greens
      PROVE  Excess(q, x) = Excess(h, x) + Times(x, kept) - Times(x, kids) + One(a = x)
  <2>1. /\ Excess(h, x) \in Int /\ Times(x, kept) \in Nat /\ Times(x, kids) \in Nat
        /\ One(a = x) \in Nat
    BY ExcessType, TimesType, OneType
  <2> QED BY <1>1, <1>6, <2>1
<1> QED BY <1>2, <1>6, <1>7, <1>8 DEF q, p, kind

(* A child slot of a node is a position of its sequence of children. *)
LEMMA SlotPlace ==
  ASSUME NEW h, HeapType(h), NEW g \in Greens, NEW i \in Slots(h, g)
  PROVE  /\ h[g].kids \in Seq(Greens) /\ i \in Nat /\ i + 1 \in 1 .. Len(h[g].kids)
         /\ Kid(h, g, i) = h[g].kids[i + 1] /\ Kid(h, g, i) \in Greens
<1>1. h[g].kids \in Seq(Greens) /\ Len(h[g].kids) \in Nat
  BY DEF HeapType
<1>2. i \in Nat /\ i + 1 \in 1 .. Len(h[g].kids)
  BY <1>1 DEF Slots
<1> QED BY <1>1, <1>2 DEF Kid

LEMMA ReplaceChildTakes ==
  ASSUME NEW h, HeapType(h), Blank(h), NEW a \in FreeGreens(h), Excess(h, a) >= 0,
         NEW g \in Greens, NEW i \in Slots(h, g), NEW new \in Greens
  PROVE  LET q == ReplaceChild(h, a, g, i, new)
         IN  /\ a \in Greens /\ HeapType(q) /\ Blank(q)
             /\ \A k \in Greens \ {a} : q[k].kids = h[k].kids
             /\ Slots(q, a) = Slots(h, g)
             /\ \A j \in Slots(h, g) : Kid(q, a, j) = IF j = i THEN new ELSE Kid(h, g, j)
             /\ \A x \in Greens : Excess(q, x) = Excess(h, x) - One(new = x) + One(a = x)
<1> DEFINE s == h[g].kids
           kept == RemoveAt(s, i + 1)
           kids == ReplaceAt(s, i + 1, new)
           q == NewNode(Share(h, kept), a, h[g].kind, kids)
<1>1. s \in Seq(Greens) /\ i \in Nat /\ i + 1 \in 1 .. Len(s) /\ Len(s) \in Nat
  BY SlotPlace
<1> HIDE DEF s
<1>2. /\ kept \in Seq(Greens) /\ Len(kept) = Len(s) - 1
      /\ \A j \in 1 .. Len(s) - 1 : kept[j] = IF j < i + 1 THEN s[j] ELSE s[j + 1]
      /\ \A x : Times(x, kept) = Times(x, s) - One(s[i + 1] = x)
  BY <1>1, RemovedAt, TimesRemoveAt
<1>3. /\ kids \in Seq(Greens) /\ Len(kids) = Len(s)
      /\ \A j \in 1 .. Len(s) : kids[j] = IF j = i + 1 THEN new ELSE s[j]
      /\ \A x : Times(x, kids) = Times(x, s) - One(s[i + 1] = x) + One(new = x)
  BY <1>1, ExceptSeq, TimesReplaceAt DEF ReplaceAt
<1> HIDE DEF kept, kids
<1>4. \A j \in DOMAIN kept : \E k \in DOMAIN s : kept[j] = s[k]
  <2> SUFFICES ASSUME NEW j \in DOMAIN kept PROVE \E k \in DOMAIN s : kept[j] = s[k]
    OBVIOUS
  <2>1. j \in 1 .. Len(s) - 1 /\ j \in DOMAIN s /\ j + 1 \in DOMAIN s
    BY <1>1, <1>2
  <2> QED BY <1>2, <2>1
<1>5. /\ a \in Greens /\ HeapType(q) /\ Blank(q)
      /\ q[a].kids = kids
      /\ \A k \in Greens \ {a} : q[k].kids = h[k].kids
      /\ \A x \in Greens :
           Excess(q, x) = Excess(h, x) + Times(x, kept) - Times(x, kids) + One(a = x)
  BY <1>2, <1>3, <1>4, CopyTakes DEF s
<1>6. ReplaceChild(h, a, g, i, new) = q
  BY DEF ReplaceChild, s, kept, kids
<1> HIDE DEF q
<1>7. /\ Slots(q, a) = Slots(h, g)
      /\ \A j \in Slots(h, g) : Kid(q, a, j) = IF j = i THEN new ELSE Kid(h, g, j)
  <2>1. Slots(q, a) = 0 .. Len(s) - 1 /\ Slots(h, g) = 0 .. Len(s) - 1
    BY <1>3, <1>5 DEF Slots, s
  <2>2. ASSUME NEW j \in 0 .. Len(s) - 1
        PROVE  Kid(q, a, j) = IF j = i THEN new ELSE Kid(h, g, j)
    <3>1. j + 1 \in 1 .. Len(s) /\ (j + 1 = i + 1 <=> j = i)
      BY <1>1
    <3>2. Kid(q, a, j) = kids[j + 1] /\ Kid(h, g, j) = s[j + 1]
      BY <1>5 DEF Kid, s
    <3> QED BY <1>3, <3>1, <3>2
  <2> QED BY <2>1, <2>2
<1>8. ASSUME NEW x \in Greens
      PROVE  Excess(q, x) = Excess(h, x) - One(new = x) + One(a = x)
  <2>1. /\ Excess(h, x) \in Int /\ Times(x, s) \in Nat /\ One(s[i + 1] = x) \in Nat
        /\ One(new = x) \in Nat /\ One(a = x) \in Nat
    BY <1>1, ExcessType, TimesType, OneType
  <2>2. /\ Times(x, kept) = Times(x, s) - One(s[i + 1] = x)
        /\ Times(x, kids) = Times(x, s) - One(s[i + 1] = x) + One(new = x)
        /\ Excess(q, x) = Excess(h, x) + Times(x, kept) - Times(x, kids) + One(a = x)
    BY <1>2, <1>3, <1>5
  <2> QED BY <2>1, <2>2
<1> QED BY <1>5, <1>6, <1>7, <1>8

LEMMA InsertChildTakes ==
  ASSUME NEW h, HeapType(h), Blank(h), NEW a \in FreeGreens(h), Excess(h, a) >= 0,
         NEW g \in Greens, NEW i \in Nat, i <= Len(h[g].kids), NEW new \in Greens
  PROVE  LET q == InsertChild(h, a, g, i, new)
         IN  /\ a \in Greens /\ HeapType(q) /\ Blank(q)
             /\ \A k \in Greens \ {a} : q[k].kids = h[k].kids
             /\ i \in Slots(q, a) /\ Kid(q, a, i) = new
             /\ \A j \in Slots(h, g) :
                  LET k == IF j < i THEN j ELSE j + 1
                  IN  k \in Slots(q, a) /\ Kid(q, a, k) = Kid(h, g, j)
             /\ \A x \in Greens : Excess(q, x) = Excess(h, x) - One(new = x) + One(a = x)
<1> DEFINE s == h[g].kids
           kids == InsertAt(s, i + 1, new)
           q == NewNode(Share(h, s), a, h[g].kind, kids)
<1>1. s \in Seq(Greens) /\ i + 1 \in 1 .. Len(s) + 1 /\ Len(s) \in Nat
  BY DEF HeapType
<1> HIDE DEF s
<1>2. /\ kids \in Seq(Greens) /\ Len(kids) = Len(s) + 1
      /\ \A j \in 1 .. Len(s) + 1 :
           kids[j] = IF j < i + 1 THEN s[j] ELSE IF j = i + 1 THEN new ELSE s[j - 1]
      /\ \A x : Times(x, kids) = Times(x, s) + One(new = x)
  <2> DEFINE n == i + 1
  <2>1. n \in 1 .. Len(s) + 1
    BY <1>1
  <2> HIDE DEF n
  <2>2. /\ InsertAt(s, n, new) \in Seq(Greens) /\ Len(InsertAt(s, n, new)) = Len(s) + 1
        /\ \A j \in 1 .. Len(s) + 1 :
             InsertAt(s, n, new)[j] = IF j < n THEN s[j] ELSE IF j = n THEN new ELSE s[j - 1]
    <3>1. s \in Seq(Greens) /\ new \in Greens
      BY <1>1
    <3>2. InsertAt(s, n, new) \in Seq(Greens) /\ Len(InsertAt(s, n, new)) = Len(s) + 1
      BY <2>1, <3>1, InsertedAt
    <3>3. ASSUME NEW j \in 1 .. Len(s) + 1
          PROVE  InsertAt(s, n, new)[j] = IF j < n THEN s[j] ELSE IF j = n THEN new ELSE s[j - 1]
      BY <2>1, <3>1, InsertedAt
    <3> QED BY <3>2, <3>3
  <2>3. \A x : Times(x, InsertAt(s, n, new)) = Times(x, s) + One(new = x)
    BY <1>1, <2>1, TimesInsertAt
  <2> QED BY <2>2, <2>3 DEF n
<1> HIDE DEF kids
<1>3. /\ a \in Greens /\ HeapType(q) /\ Blank(q)
      /\ q[a].kids = kids
      /\ \A k \in Greens \ {a} : q[k].kids = h[k].kids
      /\ \A x \in Greens :
           Excess(q, x) = Excess(h, x) + Times(x, s) - Times(x, kids) + One(a = x)
  BY <1>1, <1>2, CopyTakes DEF s
<1>4. InsertChild(h, a, g, i, new) = q
  BY DEF InsertChild, s, kids
<1> HIDE DEF q
<1>5. i \in Slots(q, a) /\ Kid(q, a, i) = new
  BY <1>1, <1>2, <1>3 DEF Slots, Kid
<1>6. ASSUME NEW j \in Slots(h, g)
      PROVE  LET k == IF j < i THEN j ELSE j + 1
             IN  k \in Slots(q, a) /\ Kid(q, a, k) = Kid(h, g, j)
  <2>1. j \in 0 .. Len(s) - 1 /\ Kid(h, g, j) = s[j + 1]
    BY DEF Slots, Kid, s
  <2>2. Slots(q, a) = 0 .. Len(s) /\ \A k : Kid(q, a, k) = kids[k + 1]
    BY <1>1, <1>2, <1>3 DEF Slots, Kid
  <2>3. CASE j < i
    <3>1. j + 1 \in 1 .. Len(s) + 1 /\ j + 1 < i + 1 /\ j \in 0 .. Len(s)
      BY <1>1, <2>1, <2>3
    <3>2. kids[j + 1] = s[j + 1]
      BY <1>2, <3>1
    <3> QED BY <2>1, <2>2, <2>3, <3>1, <3>2
  <2>4. CASE ~ (j < i)
    <3>1. /\ j + 2 \in 1 .. Len(s) + 1 /\ ~ (j + 2 < i + 1) /\ j + 2 # i + 1
          /\ j + 1 \in 0 .. Len(s) /\ (j + 1) + 1 = j + 2 /\ (j + 2) - 1 = j + 1
      BY <1>1, <2>1, <2>4
    <3>2. kids[j + 2] = s[j + 1]
      BY <1>2, <3>1
    <3>3. j + 1 \in Slots(q, a) /\ Kid(q, a, j + 1) = Kid(h, g, j)
      BY <2>1, <2>2, <3>1, <3>2
    <3> QED BY <2>4, <3>3
  <2> QED BY <2>3, <2>4
<1>7. ASSUME NEW x \in Greens
      PROVE  Excess(q, x) = Excess(h, x) - One(new = x) + One(a = x)
  <2>1. /\ Excess(h, x) \in Int /\ Times(x, s) \in Nat
        /\ One(new = x) \in Nat /\ One(a = x) \in Nat
    BY <1>1, ExcessType, TimesType, OneType
  <2> QED BY <1>2, <1>3, <2>1
<1> QED BY <1>3, <1>4, <1>5, <1>6, <1>7

LEMMA RemoveChildTakes ==
  ASSUME NEW h, HeapType(h), Blank(h), NEW a \in FreeGreens(h), Excess(h, a) >= 0,
         NEW g \in Greens, NEW i \in Slots(h, g)
  PROVE  LET q == RemoveChild(h, a, g, i)
         IN  /\ a \in Greens /\ HeapType(q) /\ Blank(q)
             /\ \A k \in Greens \ {a} : q[k].kids = h[k].kids
             /\ \A j \in Slots(h, g) \ {i} :
                  LET k == IF j < i THEN j ELSE j - 1
                  IN  k \in Slots(q, a) /\ Kid(q, a, k) = Kid(h, g, j)
             /\ \A x \in Greens : Excess(q, x) = Excess(h, x) + One(a = x)
<1> DEFINE s == h[g].kids
           kids == RemoveAt(s, i + 1)
           q == NewNode(Share(h, kids), a, h[g].kind, kids)
<1>1. s \in Seq(Greens) /\ i \in Nat /\ i + 1 \in 1 .. Len(s) /\ Len(s) \in Nat
  BY SlotPlace
<1> HIDE DEF s
<1>2. /\ kids \in Seq(Greens) /\ Len(kids) = Len(s) - 1
      /\ \A j \in 1 .. Len(s) - 1 : kids[j] = IF j < i + 1 THEN s[j] ELSE s[j + 1]
  BY <1>1, RemovedAt
<1> HIDE DEF kids
<1>3. \A j \in DOMAIN kids : \E k \in DOMAIN s : kids[j] = s[k]
  <2> SUFFICES ASSUME NEW j \in DOMAIN kids PROVE \E k \in DOMAIN s : kids[j] = s[k]
    OBVIOUS
  <2>1. j \in 1 .. Len(s) - 1 /\ j \in DOMAIN s /\ j + 1 \in DOMAIN s
    BY <1>1, <1>2
  <2> QED BY <1>2, <2>1
<1>4. /\ a \in Greens /\ HeapType(q) /\ Blank(q)
      /\ q[a].kids = kids
      /\ \A k \in Greens \ {a} : q[k].kids = h[k].kids
      /\ \A x \in Greens :
           Excess(q, x) = Excess(h, x) + Times(x, kids) - Times(x, kids) + One(a = x)
  BY <1>2, <1>3, CopyTakes DEF s
<1>5. RemoveChild(h, a, g, i) = q
  BY DEF RemoveChild, s, kids
<1> HIDE DEF q
<1>6. ASSUME NEW j \in Slots(h, g) \ {i}
      PROVE  LET k == IF j < i THEN j ELSE j - 1
             IN  k \in Slots(q, a) /\ Kid(q, a, k) = Kid(h, g, j)
  <2>1. j \in 0 .. Len(s) - 1 /\ j # i /\ Kid(h, g, j) = s[j + 1]
    BY DEF Slots, Kid, s
  <2>2. Slots(q, a) = 0 .. Len(s) - 2 /\ \A k : Kid(q, a, k) = kids[k + 1]
    BY <1>1, <1>2, <1>4 DEF Slots, Kid
  <2>3. CASE j < i
    <3>1. j + 1 \in 1 .. Len(s) - 1 /\ j + 1 < i + 1 /\ j \in 0 .. Len(s) - 2
      BY <1>1, <2>1, <2>3
    <3> QED BY <1>2, <2>1, <2>2, <2>3, <3>1
  <2>4. CASE ~ (j < i)
    <3>1. /\ j \in 1 .. Len(s) - 1 /\ ~ (j < i + 1)
          /\ j - 1 \in 0 .. Len(s) - 2 /\ (j - 1) + 1 = j
      BY <1>1, <2>1, <2>4
    <3> QED BY <1>2, <2>1, <2>2, <2>4, <3>1
  <2> QED BY <2>3, <2>4
<1>7. ASSUME NEW x \in Greens
      PROVE  Excess(q, x) = Excess(h, x) + One(a = x)
  <2>1. Excess(h, x) \in Int /\ Times(x, kids) \in Nat /\ One(a = x) \in Nat
    BY <1>2, ExcessType, TimesType, OneType
  <2> QED BY <1>4, <2>1
<1> QED BY <1>4, <1>5, <1>6, <1>7

-----------------------------------------------------------------------------
(***************************************************************************)
(* Lengths.  The length of a node's children and the offset of one of them *)
(* are sums of the same lengths.                                           *)
(***************************************************************************)
Long(h, kids) == \A i \in DOMAIN kids : h[kids[i]].len \in Nat

LEMMA TextLenKept ==
  ASSUME NEW h, NEW q, NEW kids, \A i \in DOMAIN kids : q[kids[i]].len = h[kids[i]].len
  PROVE  TextLen(q, kids) = TextLen(h, kids)
<1>1. Lens(q, kids) = Lens(h, kids)
  BY DEF Lens
<1> QED BY <1>1 DEF TextLen

LEMMA TextLenIsSum ==
  ASSUME NEW h, NEW kids \in Seq(Greens), Long(h, kids)
  PROVE  /\ TextLen(h, kids) = SumTo(Lens(h, kids), Len(kids))
         /\ TextLen(h, kids) \in Nat
<1>1. PICK v, n : v = Lens(h, kids) /\ n = Len(kids)
  OBVIOUS
<1>2. n \in Nat /\ DOMAIN kids = 1 .. n
  BY <1>1
<1>3. DOMAIN v = 1 .. n /\ \A i \in 1 .. n : v[i] \in Nat
  BY <1>1, <1>2 DEF Lens, Long
<1>4. FoldLeft(LAMBDA sum, len : sum + len, 0, v) = SumTo(v, n)
  BY <1>2, <1>3, FoldIsSum
<1>5. SumTo(v, n) \in Nat
  BY <1>2, <1>3, SumsGrow
<1> QED BY <1>1, <1>4, <1>5 DEF TextLen

LEMMA RelOffsetIsSum ==
  ASSUME NEW h, NEW g, NEW kids \in Seq(Greens), h[g].kids = kids, Long(h, kids),
         NEW i \in Slots(h, g)
  PROVE  RelOffset(h, g, i) = SumTo(Lens(h, kids), i)
<1>1. i \in Nat /\ i + 1 \in 1 .. Len(kids) /\ DOMAIN kids = 1 .. Len(kids)
  BY DEF Slots
<1>2. PICK s : s = SubSeq(kids, 1, i)
  OBVIOUS
<1>3. s \in Seq(Greens) /\ Len(s) = i /\ \A j \in 1 .. i : s[j] = kids[j]
  BY <1>1, <1>2
<1>4. Long(h, s)
  BY <1>1, <1>3 DEF Long
<1>5. TextLen(h, s) = SumTo(Lens(h, s), i)
  BY <1>3, <1>4, TextLenIsSum
<1>6. \A j \in 1 .. i : Lens(h, s)[j] = Lens(h, kids)[j]
  <2>1. DOMAIN s = 1 .. i /\ \A j \in 1 .. i : j \in DOMAIN kids
    BY <1>1, <1>3
  <2> QED BY <1>3, <2>1 DEF Lens
<1>7. SumTo(Lens(h, s), i) = SumTo(Lens(h, kids), i)
  <2>1. PICK v, w : v = Lens(h, s) /\ w = Lens(h, kids)
    OBVIOUS
  <2>2. \A j \in 1 .. i : v[j] = w[j]
    BY <1>6, <2>1
  <2>3. SumTo(v, i) = SumTo(w, i)
    BY <1>1, <2>2, SumAgrees
  <2> QED BY <2>1, <2>3
<1> QED BY <1>2, <1>5, <1>7 DEF RelOffset

(***************************************************************************)
(* Where a child starts and ends: inside its parent, and not before a      *)
(* child to its left has ended.                                            *)
(***************************************************************************)
LEMMA ChildrenInOrder ==
  ASSUME NEW h, NEW g, NEW kids \in Seq(Greens), h[g].kids = kids, Long(h, kids),
         NEW i \in Slots(h, g)
  PROVE  /\ RelOffset(h, g, i) \in Nat /\ h[Kid(h, g, i)].len \in Nat
         /\ RelOffset(h, g, i) + h[Kid(h, g, i)].len <= TextLen(h, kids)
         /\ \A j \in Slots(h, g) :
              i < j => RelOffset(h, g, i) + h[Kid(h, g, i)].len <= RelOffset(h, g, j)
<1>1. PICK v, n : v = Lens(h, kids) /\ n = Len(kids)
  OBVIOUS
<1>2. n \in Nat /\ DOMAIN kids = 1 .. n
  BY <1>1
<1>3. \A j \in 1 .. n : v[j] \in Nat /\ v[j] = h[kids[j]].len
  BY <1>1, <1>2 DEF Lens, Long
<1>4. /\ \A j \in 0 .. n : SumTo(v, j) \in Nat
      /\ \A j \in 0 .. n : \A k \in 1 .. j : SumTo(v, k - 1) + v[k] <= SumTo(v, j)
  BY <1>2, <1>3, SumsGrow
<1>5. \A j \in Slots(h, g) : RelOffset(h, g, j) = SumTo(v, j)
  BY <1>1, RelOffsetIsSum
<1>6. TextLen(h, kids) = SumTo(v, n)
  BY <1>1, TextLenIsSum
<1>7. \A j \in Slots(h, g) : j \in 0 .. n /\ j + 1 \in 1 .. n /\ Kid(h, g, j) = kids[j + 1]
  BY <1>1, <1>2 DEF Slots, Kid
<1>8. h[Kid(h, g, i)].len = v[i + 1] /\ v[i + 1] \in Nat
  BY <1>3, <1>7
<1>9. ASSUME NEW j \in 0 .. n, i < j PROVE SumTo(v, i) + v[i + 1] <= SumTo(v, j)
  <2>1. PICK k : k = i + 1
    OBVIOUS
  <2>2. k \in 1 .. j /\ k - 1 = i
    BY <1>2, <1>7, <1>9, <2>1
  <2>3. SumTo(v, k - 1) + v[k] <= SumTo(v, j)
    BY <1>4, <2>2
  <2> QED BY <2>1, <2>2, <2>3
<1>10. n \in 0 .. n /\ i < n
  BY <1>2, <1>7
<1> QED BY <1>4, <1>5, <1>6, <1>7, <1>8, <1>9, <1>10
=============================================================================

---------------------------- MODULE ClientProofs ----------------------------
(***************************************************************************)
(* What the clients of the cursors rely on.  Loops over children: whatever *)
(* their bodies do, they come to every child.                              *)
(***************************************************************************)
EXTENDS TreeWalk, CursorProofs

-----------------------------------------------------------------------------
(***************************************************************************)
(* The loops over children.  A reference goes from one variable to         *)
(* another, which drops the one it held.                                   *)
(***************************************************************************)
Shifts(h, k) ==
  /\ User
  /\ h # k
  /\ handle' = [handle EXCEPT ![h] = handle[k], ![k] = NULL]
  /\ IF handle[h] = NULL THEN UNCHANGED <<red, dying>> ELSE Release(red, handle[h])
  /\ UNCHANGED <<heap, kept, spine, drops, todo, stolen, forgotten, edits>>

LEMMA OwnersShift ==
  ASSUME RefType, NEW h \in Handles, NEW k \in Handles, h # k,
         handle' = [handle EXCEPT ![h] = handle[k], ![k] = NULL], NEW n \in Reds
  PROVE  /\ Cardinality(Owners(n)) \in Nat /\ Cardinality(Owners(n))' \in Nat
         /\ Cardinality(Owners(n))' = Cardinality(Owners(n)) - One(handle[h] = n)
<1>1. PICK S, T : S = Owners(n) /\ T = Owners(n)'
  OBVIOUS
<1>2. /\ S \subseteq Handles /\ T \subseteq Handles
      /\ \A m \in Handles : m \in S <=> handle[m] = n
      /\ \A m \in Handles : m \in T <=> handle'[m] = n
  BY <1>1 DEF Owners
<1>3. /\ handle'[h] = handle[k] /\ handle'[k] = NULL /\ n # NULL
      /\ \A m \in Handles \ {h, k} : handle'[m] = handle[m]
  BY RedsAssumption DEF RefType
<1>4. IsFiniteSet(S) /\ IsFiniteSet(T)
  BY <1>2, HandlesAssumption, FS_Subset
<1>5. PICK U : U = S \ {h, k}
  OBVIOUS
<1>6. IsFiniteSet(U) /\ Cardinality(U) \in Nat /\ h \notin U /\ k \notin U
  BY <1>4, <1>5, FS_Subset, FS_CardinalityType
<1>7. T = IF k \in S THEN U \cup {h} ELSE U
  BY <1>2, <1>3, <1>5
<1>8. Cardinality(U \cup {h}) = Cardinality(U) + 1 /\ Cardinality(U \cup {k}) = Cardinality(U) + 1
  BY <1>6, FS_AddElement
<1>9. PICK V : V = U \cup {k}
  OBVIOUS
<1>10. Cardinality(V \cup {h}) = Cardinality(V) + 1
  <2>1. IsFiniteSet(V) /\ h \notin V
    BY <1>6, <1>9, FS_AddElement
  <2> QED BY <2>1, FS_AddElement
<1>11. S = (IF h \in S THEN IF k \in S THEN V \cup {h} ELSE U \cup {h}
                       ELSE IF k \in S THEN V ELSE U)
  BY <1>5, <1>9
<1>12. h \in S <=> handle[h] = n
  BY <1>2
<1>13. Cardinality(V) = Cardinality(U) + 1
  BY <1>8, <1>9
<1>14. Cardinality(T) = Cardinality(S) - One(h \in S) /\ Cardinality(S) \in Nat /\ Cardinality(T) \in Nat
  <2>1. PICK u \in Nat : u = Cardinality(U)
    BY <1>6
  <2>2. /\ Cardinality(U \cup {h}) = u + 1 /\ Cardinality(V) = u + 1 /\ Cardinality(V \cup {h}) = u + 2
    BY <1>8, <1>10, <1>13, <2>1
  <2>3. CASE k \in S /\ h \in S
    <3>1. S = V \cup {h} /\ T = U \cup {h} /\ One(h \in S) = 1
      BY <1>7, <1>11, <2>3 DEF One
    <3> QED BY <2>2, <3>1
  <2>4. CASE k \in S /\ h \notin S
    <3>1. S = V /\ T = U \cup {h} /\ One(h \in S) = 0
      BY <1>7, <1>11, <2>4 DEF One
    <3> QED BY <2>2, <3>1
  <2>5. CASE k \notin S /\ h \in S
    <3>1. S = U \cup {h} /\ T = U /\ One(h \in S) = 1
      BY <1>7, <1>11, <2>5 DEF One
    <3> QED BY <2>1, <2>2, <3>1
  <2>6. CASE k \notin S /\ h \notin S
    <3>1. S = U /\ T = U /\ One(h \in S) = 0
      BY <1>7, <1>11, <2>6 DEF One
    <3> QED BY <2>1, <3>1
  <2> QED BY <2>3, <2>4, <2>5, <2>6
<1> QED BY <1>1, <1>12, <1>14

LEMMA ShiftCounts ==
  ASSUME CountInv, NEW h \in Handles, NEW k \in Handles, Shifts(h, k)
  PROVE  CountInv'
<1>1. /\ RefType /\ RcExact /\ Idle /\ h # k
      /\ handle' = [handle EXCEPT ![h] = handle[k], ![k] = NULL]
      /\ UNCHANGED <<spine, todo, stolen, forgotten>>
  BY DEF Shifts, CountInv, User
<1>2. handle[h] \in RedOrNull /\ handle[k] \in RedOrNull /\ NULL \in RedOrNull
  BY <1>1 DEF RefType, RedOrNull
<1>3. handle' \in [Handles -> RedOrNull]
  BY <1>1, <1>2 DEF RefType
<1>4. /\ DOMAIN red' = Reds
      /\ \A n \in Reds : /\ DOMAIN red'[n] = DOMAIN FreeRed
                         /\ red'[n].mutable = red[n].mutable
                         /\ red'[n].first = red[n].first
                         /\ red'[n].parent = red[n].parent
                         /\ red'[n].rc = red[n].rc - One(handle[h] = n)
      /\ dying' # NULL => dying' \in Reds /\ red'[dying'].rc = 0
  <2>1. CASE handle[h] = NULL
    <3>1. red' = red /\ dying' = NULL
      BY <1>1, <2>1 DEF Shifts, Idle
    <3> QED BY <1>1, <2>1, <3>1, RedsAssumption DEF RefType, One
  <2>2. CASE handle[h] # NULL
    <3>1. handle[h] \in Reds
      BY <1>2, <2>2 DEF RedOrNull
    <3>2. /\ red' = [red EXCEPT ![handle[h]].rc = @ - 1]
          /\ dying' = IF red[handle[h]].rc = 1 THEN handle[h] ELSE NULL
      BY <2>2 DEF Shifts, Release
    <3> QED BY <1>1, <3>1, <3>2 DEF RefType, FreeRed, One
  <2> QED BY <2>1, <2>2
<1>5. RcExact'
  <2> SUFFICES ASSUME NEW n \in Reds
               PROVE  red'[n].rc = Cardinality(Owners(n))' + Cardinality(ChildrenOf(n))' + Held(n)'
    BY DEF RcExact
  <2>1. red[n].rc = Cardinality(Owners(n)) + Cardinality(ChildrenOf(n)) + Held(n)
    BY <1>1 DEF RcExact
  <2>2. ChildrenOf(n)' = ChildrenOf(n)
    BY <1>4 DEF ChildrenOf
  <2>3. Held(n)' = Held(n) /\ Held(n) \in Nat
    BY <1>1 DEF Held, One
  <2>4. /\ Cardinality(Owners(n)) \in Nat
        /\ Cardinality(Owners(n))' = Cardinality(Owners(n)) - One(handle[h] = n)
    BY <1>1, OwnersShift
  <2>5. Cardinality(ChildrenOf(n)) \in Nat
    <3>1. IsFiniteSet(ChildrenOf(n))
      BY RedsAssumption, FS_Subset DEF ChildrenOf
    <3> QED BY <3>1, FS_CardinalityType
  <2>6. red'[n].rc = red[n].rc - One(handle[h] = n) /\ One(handle[h] = n) \in Nat
    BY <1>4 DEF One
  <2> QED BY <2>1, <2>2, <2>3, <2>4, <2>5, <2>6
<1>6. RefType'
  <2>1. \A n \in Reds : red'[n].rc \in Nat
    BY <1>5, ExactIsNat
  <2> QED BY <1>1, <1>3, <1>4, <2>1 DEF RefType, RedOrNull
<1>7. Accounted'
  BY <1>1, <1>4, IdleAccounted DEF CountInv
<1> QED BY <1>5, <1>6, <1>7 DEF CountInv

LEMMA ShiftQuiet ==
  ASSUME Forested, NEW h \in Handles, NEW k \in Handles, Shifts(h, k)
  PROVE  Quiet(red')
<1>1. CASE handle[h] = NULL
  BY <1>1 DEF Shifts, Quiet, Keeps
<1>2. CASE handle[h] # NULL
  <2>1. handle[h] \in Reds /\ Release(red, handle[h])
    BY <1>2 DEF Shifts, Forested, RefType, RedOrNull
  <2>2. red[handle[h]].rc > 0
    BY <2>1, Referenced DEF Forested
  <2> QED BY <2>1, <2>2, ReleaseQuiet DEF Forested
<1> QED BY <1>1, <1>2

LEMMA ShiftCursor ==
  ASSUME TreeInv, GreenInv, NEW h \in Handles, NEW k \in Handles, Shifts(h, k)
  PROVE  TreeInv' /\ GreenInv'
<1>1. Forested /\ CountInv /\ Uniform /\ Idle /\ UNCHANGED todo
  BY TreeIsForested DEF Shifts, User, Forested
<1>2. CountInv'
  BY <1>1, ShiftCounts
<1>3. Quiet(red')
  BY <1>1, ShiftQuiet
<1>4. Uniform'
  BY <1>1, <1>3, NothingChanges DEF Quiet, Keeps, CountInv
<1>5. WellLinked'
  BY <1>1, <1>2, <1>3, QuietForest DEF WellLinked, CountInv
<1>6. TreeInv'
  BY <1>1, <1>2, <1>4, <1>5, IdleLinkSafe, IdleStages DEF TreeInv, MutInv
<1>7. dying' # NULL => dying' \in Reds /\ red[dying'].rc > 0
  <2>1. CASE handle[h] = NULL
    BY <1>1, <2>1 DEF Shifts, Idle
  <2>2. CASE handle[h] # NULL
    <3>1. handle[h] \in Reds /\ Release(red, handle[h])
      BY <1>1, <2>2 DEF Shifts, Forested, RefType, RedOrNull
    <3> QED BY <1>1, <3>1, Referenced DEF Release, Forested
  <2> QED BY <2>1, <2>2
<1>8. /\ edits' \in Nat /\ kept' \in GreenOrNull /\ drops' \in Seq(Greens)
      /\ UNCHANGED <<heap, kept, spine, drops, todo, stolen>>
  BY DEF Shifts, GreenInv, Stored
<1>9. GreenInv'
  BY <1>1, <1>3, <1>7, <1>8, QuietGreen
<1> QED BY <1>6, <1>9

LEMMA HopCursor ==
  ASSUME TreeInv, GreenInv, NEW h \in Handles, NEW K, Hops(h, K)
  PROVE  TreeInv' /\ GreenInv'
<1>1. Forested /\ CountInv /\ Uniform /\ User /\ UNCHANGED todo
  BY TreeIsForested DEF Hops, Forested
<1>2. CountInv' /\ Uniform' /\ LinkSafe'
  BY <1>1, HopCounts, HopMutable
<1>3. PICK p \in Reds, i \in After(handle[h], K) :
        /\ p = red[handle[h]].parent /\ red[p].rc > 0
        /\ Quiet(red') \/ \E c : MakesChild(red', c, p, i, Kid(heap, red[p].green, i))
  BY <1>1, HopMade
<1>4. i \in Nat /\ i \in Slots(heap, red[p].green)
  BY <1>3, AfterIsSlot
<1>5. WellLinked'
  BY <1>1, <1>2, <1>3, <1>4, LookLinked DEF CountInv
<1>6. TreeInv'
  BY <1>1, <1>2, <1>5, IdleStages DEF TreeInv, MutInv, User
<1>7. dying' # NULL => dying' \in Reds /\ red[dying'].rc > 0
  <2>1. handle[h] \in Reds /\ (dying' = NULL \/ dying' = handle[h])
    BY <1>1 DEF Hops, Release, Forested, RefType, RedOrNull
  <2> QED BY <1>1, <2>1, Referenced DEF Forested
<1>8. UNCHANGED <<heap, kept, spine, drops, todo, stolen, edits>>
  BY DEF Hops
<1>9. GreenInv'
  BY <1>1, <1>3, <1>4, <1>7, <1>8, LooksGreen
<1> QED BY <1>6, <1>9

LEMMA NavigateCursor ==
  ASSUME TreeInv, GreenInv, NEW h \in Handles, NEW K, NEW new \in Handles,
         \/ FirstChild(h, K, new) \/ LastChild(h, K, new)
         \/ NextSibling(h, K, new) \/ PrevSibling(h, K, new)
  PROVE  TreeInv' /\ GreenInv'
<1>1. Forested /\ CountInv /\ Uniform
  BY TreeIsForested DEF Forested
<1>2. CountInv' /\ Uniform' /\ LinkSafe'
  BY <1>1, ChildStepCounts, NavigateMutable
<1>3. PICK p \in Reds, i \in Nat :
        red[p].rc > 0 /\ i \in Slots(heap, red[p].green) /\ NewChild(p, i, new)
  BY <1>1, NavigateLooks
<1>4. Quiet(red') \/ \E c : MakesChild(red', c, p, i, Kid(heap, red[p].green, i))
  BY <1>1, <1>3, NewChildMade
<1>5. WellLinked'
  BY <1>1, <1>2, <1>3, <1>4, LookLinked DEF CountInv
<1>6. Idle /\ UNCHANGED todo
  BY <1>3 DEF NewChild, FirstChild, LastChild, NextSibling, PrevSibling, User
<1>7. TreeInv'
  BY <1>2, <1>5, <1>6, IdleStages DEF TreeInv, MutInv
<1> QED BY <1>7, NavigateGreen

LEMMA ToNextSiblingCursor ==
  ASSUME TreeInv, GreenInv, NEW h \in Handles, NEW K, ToNextSibling(h, K)
  PROVE  TreeInv' /\ GreenInv'
<1>1. Forested /\ CountInv /\ Uniform
  BY TreeIsForested DEF Forested
<1>2. CountInv' /\ Uniform' /\ LinkSafe'
  BY <1>1, ToNextSiblingCounts, ToNextSiblingMutable
<1>3. WellLinked' /\ LinkFree' /\ CloneSafe'
  BY <1>2, ToNextSiblingLinked DEF CountInv
<1> QED BY <1>2, <1>3, ToNextSiblingGreen DEF TreeInv, MutInv

(***************************************************************************)
(* What is left of a sequence from a position on, and what is picked of it.*)
(***************************************************************************)
From(s, a) == SubSeq(s, a, Len(s))

LEMMA FromIs ==
  ASSUME NEW S, NEW s \in Seq(S), NEW a \in 1 .. Len(s) + 1
  PROVE  /\ From(s, a) \in Seq(S)
         /\ Len(From(s, a)) = Len(s) + 1 - a
         /\ \A j \in 1 .. Len(s) + 1 - a : From(s, a)[j] = s[a + j - 1]
BY DEF From

LEMMA FromCons ==
  ASSUME NEW S, NEW s \in Seq(S), NEW a \in 1 .. Len(s)
  PROVE  From(s, a) = <<s[a]>> \o From(s, a + 1) /\ s[a] \in S /\ From(s, a + 1) \in Seq(S)
<1>1. PICK n \in Nat, m \in Nat, b \in Nat : n = Len(s) /\ m = n - a /\ b = a + 1
  <2>1. Len(s) \in Nat /\ Len(s) - a \in Nat /\ a + 1 \in Nat
    OBVIOUS
  <2> QED BY <2>1
<1>2. a \in 1 .. Len(s) + 1 /\ b \in 1 .. Len(s) + 1 /\ s[a] \in S /\ a \in Nat
  BY <1>1
<1>3. PICK t, u : t = From(s, a) /\ u = From(s, b)
  OBVIOUS
<1>4. t \in Seq(S) /\ Len(t) = 1 + m /\ \A j \in 1 .. 1 + m : t[j] = s[a + j - 1]
  <2>1. n + 1 - a = 1 + m
    BY <1>1, <1>2
  <2> QED BY <1>1, <1>2, <1>3, <2>1, FromIs
<1>5. u \in Seq(S) /\ Len(u) = m /\ \A j \in 1 .. m : u[j] = s[a + j]
  <2>1. n + 1 - b = m /\ \A j \in Nat : b + j - 1 = a + j
    BY <1>1, <1>2
  <2>2. /\ u \in Seq(S) /\ Len(u) = Len(s) + 1 - b
        /\ \A j \in 1 .. Len(s) + 1 - b : u[j] = s[b + j - 1]
    BY <1>2, <1>3, FromIs
  <2>3. \A j \in 1 .. m : j \in Nat
    OBVIOUS
  <2> QED BY <1>1, <2>1, <2>2, <2>3
<1>6. PICK x : x = <<s[a]>>
  OBVIOUS
<1>7. x \in Seq(S) /\ Len(x) = 1 /\ x[1] = s[a]
  BY <1>2, <1>6
<1>8. PICK v : v = x \o u
  OBVIOUS
<1>9. v \in Seq(S) /\ Len(v) = 1 + m /\ \A j \in 1 .. 1 + m : v[j] = IF j <= 1 THEN x[j] ELSE u[j - 1]
  <2>1. x \in Seq(S) /\ u \in Seq(S)
    BY <1>5, <1>7
  <2>2. /\ v \in Seq(S) /\ Len(v) = Len(x) + Len(u)
        /\ \A j \in 1 .. (Len(x) + Len(u)) : v[j] = IF j <= Len(x) THEN x[j] ELSE u[j - Len(x)]
    BY <1>8, <2>1, Concat
  <2>3. Len(x) = 1 /\ Len(u) = m /\ Len(x) + Len(u) = 1 + m
    BY <1>5, <1>7
  <2> QED BY <2>2, <2>3
<1>10. ASSUME NEW j \in 1 .. 1 + m PROVE t[j] = v[j]
  <2>1. CASE j = 1
    <3>1. a + j - 1 = a /\ j <= 1
      BY <1>2, <2>1
    <3> QED BY <1>4, <1>7, <1>9, <2>1, <3>1
  <2>2. CASE j # 1
    <3>1. ~(j <= 1) /\ j - 1 \in 1 .. m /\ a + (j - 1) = a + j - 1
      BY <1>1, <1>2, <2>2
    <3> QED BY <1>4, <1>5, <1>9, <3>1
  <2> QED BY <2>1, <2>2
<1>11. t = v
  BY <1>4, <1>9, <1>10, SameSeq
<1> QED BY <1>1, <1>2, <1>3, <1>5, <1>6, <1>8, <1>11

Pick(x, K) == IF heap[x].kind \in K THEN <<x>> ELSE <<>>
Picks(s, K) == [i \in DOMAIN s |-> Pick(s[i], K)]

LEMMA ThoseIs ==
  ASSUME NEW s \in Seq(Greens), NEW K
  PROVE  /\ Those(s, K) = FlattenSeq(Picks(s, K))
         /\ Picks(s, K) \in Seq(Seq(Greens)) /\ Len(Picks(s, K)) = Len(s)
         /\ \A i \in 1 .. Len(s) : Picks(s, K)[i] = Pick(s[i], K)
         /\ Those(s, K) \in Seq(Greens)
<1>1. Those(s, K) = FlattenSeq(Picks(s, K))
  BY DEF Those, Picks, Pick
<1>2. \A i \in 1 .. Len(s) : Pick(s[i], K) \in Seq(Greens)
  BY DEF Pick
<1>3. PICK U : U = Seq(Greens)
  OBVIOUS
<1>4. Picks(s, K) \in Seq(U) /\ Len(Picks(s, K)) = Len(s) /\ DOMAIN s = 1 .. Len(s)
  BY <1>2, <1>3 DEF Picks
<1>5. \A i \in 1 .. Len(s) : Picks(s, K)[i] = Pick(s[i], K)
  BY <1>4 DEF Picks
<1>6. Those(s, K) \in Seq(Greens)
  BY <1>1, <1>3, <1>4, FlattenType
<1> QED BY <1>1, <1>3, <1>4, <1>5, <1>6

LEMMA ThoseCons ==
  ASSUME NEW x \in Greens, NEW s \in Seq(Greens), NEW K
  PROVE  Those(<<x>> \o s, K) = Pick(x, K) \o Those(s, K)
<1>1. PICK t : t = <<x>> \o s
  OBVIOUS
<1>2. PICK n \in Nat : n = Len(s)
  OBVIOUS
<1>3. /\ t \in Seq(Greens) /\ Len(t) = n + 1 /\ t[1] = x
      /\ \A i \in 1 .. n : t[i + 1] = s[i]
  <2>1. <<x>> \in Seq(Greens) /\ Len(<<x>>) = 1 /\ <<x>>[1] = x
    OBVIOUS
  <2>2. /\ t \in Seq(Greens) /\ Len(t) = 1 + n
        /\ \A i \in 1 .. 1 + n : t[i] = IF i <= 1 THEN <<x>>[i] ELSE s[i - 1]
    BY <1>1, <1>2, <2>1, Concat
  <2>3. 1 \in 1 .. 1 + n /\ \A i \in 1 .. n : i + 1 \in 1 .. 1 + n /\ ~(i + 1 <= 1) /\ (i + 1) - 1 = i
    OBVIOUS
  <2> QED BY <2>1, <2>2, <2>3
<1>4. PICK U : U = Seq(Greens)
  OBVIOUS
<1>5. PICK p, q : p = Picks(t, K) /\ q = Picks(s, K)
  OBVIOUS
<1>6. p \in Seq(U) /\ Len(p) = n + 1 /\ \A i \in 1 .. n + 1 : p[i] = Pick(t[i], K)
  BY <1>3, <1>4, <1>5, ThoseIs
<1>7. q \in Seq(U) /\ Len(q) = n /\ \A i \in 1 .. n : q[i] = Pick(s[i], K)
  BY <1>2, <1>4, <1>5, ThoseIs
<1>8. PICK e : e = Pick(x, K)
  OBVIOUS
<1>9. e \in U
  BY <1>4, <1>8 DEF Pick
<1>10. p = <<e>> \o q
  <2>1. PICK v : v = <<e>> \o q
    OBVIOUS
  <2>2. <<e>> \in Seq(U) /\ Len(<<e>>) = 1 /\ <<e>>[1] = e
    BY <1>9
  <2>3. /\ v \in Seq(U) /\ Len(v) = 1 + n
        /\ \A i \in 1 .. 1 + n : v[i] = IF i <= 1 THEN <<e>>[i] ELSE q[i - 1]
    BY <1>7, <2>1, <2>2, Concat
  <2>4. ASSUME NEW i \in 1 .. n + 1 PROVE p[i] = v[i]
    <3>0. i \in 1 .. 1 + n
      OBVIOUS
    <3>1. CASE i = 1
      BY <1>3, <1>6, <1>8, <2>2, <2>3, <3>0, <3>1
    <3>2. CASE i # 1
      <4>1. i - 1 \in 1 .. n /\ ~(i <= 1) /\ (i - 1) + 1 = i
        BY <3>2
      <4> QED BY <1>3, <1>6, <1>7, <2>3, <3>0, <4>1
    <3> QED BY <3>1, <3>2
  <2>5. Len(p) = Len(v) /\ Len(p) = n + 1
    BY <1>6, <2>3
  <2>6. p = v
    BY <1>6, <2>3, <2>4, <2>5, SameSeq
  <2> QED BY <2>1, <2>6
<1>11. FlattenSeq(<<e>> \o q) = e \o FlattenSeq(q)
  <2>1. q \in Seq(Seq(Greens)) /\ e \in Seq(Greens)
    BY <1>4, <1>7, <1>9
  <2> QED BY <2>1, FlattenCons
<1>12. Those(t, K) = FlattenSeq(p) /\ Those(s, K) = FlattenSeq(q)
  BY <1>3, <1>5, ThoseIs
<1> QED BY <1>1, <1>8, <1>10, <1>11, <1>12

LEMMA ThoseNone == \A K : Those(<<>>, K) = <<>>
<1>1. ASSUME NEW K PROVE Those(<<>>, K) = <<>>
  <2>1. << >> \in Seq(Greens)
    OBVIOUS
  <2>2. Picks(<<>>, K) \in Seq(Seq(Greens)) /\ Len(Picks(<<>>, K)) = 0
    BY <2>1, ThoseIs
  <2>3. PICK U : U = Seq(Greens)
    OBVIOUS
  <2>4. Picks(<<>>, K) \in Seq(U)
    BY <2>2, <2>3
  <2>5. Picks(<<>>, K) = <<>>
    BY <2>2, <2>4, LengthZero
  <2> QED BY <2>1, <2>5, ThoseIs, FlattenEmpty
<1> QED BY <1>1

(* Elements nobody asks for may be passed over. *)
LEMMA ThoseSkip ==
  ASSUME NEW s \in Seq(Greens), NEW K, NEW a \in 1 .. Len(s) + 1, NEW b \in a .. Len(s) + 1,
         \A j \in a .. b - 1 : heap[s[j]].kind \notin K
  PROVE  Those(From(s, a), K) = Those(From(s, b), K)
<1>0. PICK n \in Nat : n = Len(s)
  OBVIOUS
<1> DEFINE Bad == {j \in a .. b : Those(From(s, j), K) # Those(From(s, b), K)}
           Back == {b - j : j \in Bad}
<1>1. SUFFICES ASSUME Bad # {} PROVE FALSE
  <2>1. a \in a .. b
    BY <1>0
  <2> QED BY <2>1
<1>2. PICK k \in Back : \A m \in Back : k <= m
  <2>1. Back \subseteq Nat /\ Back # {}
    BY <1>0, <1>1
  <2> QED BY <2>1, LeastNumber
<1>3. PICK j \in Bad : k = b - j
  BY <1>2
<1>4. j # b /\ j \in Nat /\ j \in a .. b /\ j \in 1 .. Len(s) /\ j \in a .. b - 1 /\ j + 1 \in a .. b
  BY <1>0, <1>3
<1>5. j + 1 \notin Bad
  <2>1. b - (j + 1) \in Int /\ ~ (k <= b - (j + 1))
    BY <1>0, <1>3, <1>4
  <2> QED BY <1>2, <2>1
<1>6. Those(From(s, j + 1), K) = Those(From(s, b), K)
  BY <1>4, <1>5
<1>7. /\ From(s, j) = <<s[j]>> \o From(s, j + 1) /\ s[j] \in Greens /\ From(s, j + 1) \in Seq(Greens)
  BY <1>4, FromCons
<1>8. Those(From(s, j), K) = Pick(s[j], K) \o Those(From(s, j + 1), K)
  BY <1>7, ThoseCons
<1>9. Pick(s[j], K) = <<>>
  BY <1>4 DEF Pick
<1>10. Those(From(s, j + 1), K) \in Seq(Greens)
  BY <1>7, ThoseIs
<1>11. Those(From(s, j), K) = Those(From(s, j + 1), K)
  <2>1. PICK w \in Seq(Greens) : w = Those(From(s, j + 1), K)
    BY <1>10
  <2> QED BY <1>8, <1>9, <2>1
<1> QED BY <1>3, <1>6, <1>11

LEMMA ThoseFrom ==
  ASSUME NEW s \in Seq(Greens), NEW K, NEW a \in 1 .. Len(s)
  PROVE  /\ Those(From(s, a), K) = Pick(s[a], K) \o Those(From(s, a + 1), K)
         /\ Those(From(s, a + 1), K) \in Seq(Greens) /\ Those(From(s, a), K) \in Seq(Greens)
<1>1. /\ From(s, a) = <<s[a]>> \o From(s, a + 1) /\ s[a] \in Greens /\ From(s, a + 1) \in Seq(Greens)
  BY FromCons
<1>2. From(s, a) \in Seq(Greens)
  BY FromIs
<1> QED BY <1>1, <1>2, ThoseCons, ThoseIs

(* What is picked depends on the kinds of the elements only. *)
LEMMA ThoseAgree ==
  ASSUME NEW s \in Seq(Greens), NEW K, \A i \in 1 .. Len(s) : heap'[s[i]].kind = heap[s[i]].kind
  PROVE  Those(s, K)' = Those(s, K)
<1>1. [i \in DOMAIN s |-> IF heap'[s[i]].kind \in K THEN <<s[i]>> ELSE <<>>]
        = [i \in DOMAIN s |-> IF heap[s[i]].kind \in K THEN <<s[i]>> ELSE <<>>]
  OBVIOUS
<1> QED BY <1>1 DEF Those

(***************************************************************************)
(* A child stands still in a step: it stays where it is, and so do its     *)
(* siblings.  respine may be under way above the child, not below it.      *)
(***************************************************************************)
Under(n) ==
  red[n].parent # NULL /\ (spine.node # NULL => spine.node \in Above(red, red[n].parent))

Home(n) == heap[CurrentGreen(red[n].parent)].kids

Still(n) ==
  /\ Under(n)'
  /\ red'[n].parent = red[n].parent
  /\ red'[n].index = red[n].index
  /\ red'[n].green = red[n].green
  /\ Home(n)' = Home(n)
  /\ \A i \in DOMAIN Home(n) : heap'[Home(n)[i]].kind = heap[Home(n)[i]].kind

(* The children of the sort K that come k places after n or later. *)
Rest(n, k, K) ==
  IF n = NULL THEN <<>> ELSE Those(From(Home(n), red[n].index + 1 + k), K)

LEMMA HomeIs ==
  ASSUME TreeInv, GreenInv, stolen = NULL, NEW n \in Reds, red[n].parent # NULL
  PROVE  /\ Home(n) \in Seq(Greens) /\ red[n].index \in Nat
         /\ red[n].index + 1 \in 1 .. Len(Home(n))
         /\ Home(n)[red[n].index + 1] = red[n].green
         /\ CurrentGreen(red[n].parent) \in Greens
         /\ red[n].parent \in Reds /\ HasOwner(CurrentGreen(red[n].parent))
<1>1. PICK p \in Reds : p = red[n].parent /\ red[n] # FreeRed
  BY ParentHasGreen DEF GreenInv
<1>2. Safe(n) /\ Safe(p)
  BY <1>1, SafeWithoutPanic, ParentHasGreen DEF GreenInv
<1>3. PICK g \in Greens : g = CurrentGreen(p) /\ HasOwner(g)
  BY <1>1, <1>2, SafeIsOwned, CurrentIsGreen
<1>4. red[n].index \in Slots(heap, g) /\ Kid(heap, g, red[n].index) = red[n].green
  BY <1>1, <1>2, <1>3 DEF GreenInv, Matches, Fits
<1>5. /\ heap[g].kids \in Seq(Greens) /\ red[n].index + 1 \in 1 .. Len(heap[g].kids)
      /\ Kid(heap, g, red[n].index) = heap[g].kids[red[n].index + 1]
  BY <1>3, <1>4, SlotPlace DEF GreenInv, Stored
<1>6. red[n].index \in Nat
  BY <1>4 DEF Slots
<1> QED BY <1>1, <1>3, <1>4, <1>5, <1>6 DEF Home

LEMMA RestIs ==
  ASSUME TreeInv, GreenInv, stolen = NULL, NEW n \in Reds, red[n].parent # NULL,
         NEW k \in {0, 1}, NEW K
  PROVE  /\ From(Home(n), red[n].index + 1 + k) \in Seq(Greens)
         /\ Rest(n, k, K) = Those(From(Home(n), red[n].index + 1 + k), K)
         /\ Rest(n, k, K) \in Seq(Greens)
         /\ Rest(n, 0, K) = Pick(red[n].green, K) \o Rest(n, 1, K)
<1>1. PICK s \in Seq(Greens), i \in Nat : /\ s = Home(n) /\ i = red[n].index
                                          /\ i + 1 \in 1 .. Len(s) /\ s[i + 1] = red[n].green
  BY HomeIs
<1>2. n # NULL
  BY RedsAssumption
<1>3. i + 1 + k \in 1 .. Len(s) + 1
  BY <1>1
<1>4. From(s, i + 1 + k) \in Seq(Greens)
  BY <1>1, <1>3, FromIs
<1>5. Rest(n, k, K) = Those(From(s, i + 1 + k), K)
  BY <1>1, <1>2 DEF Rest
<1>6. Rest(n, k, K) \in Seq(Greens)
  BY <1>4, <1>5, ThoseIs
<1>7. Those(From(s, i + 1), K) = Pick(s[i + 1], K) \o Those(From(s, i + 1 + 1), K)
  BY <1>1, ThoseFrom
<1>8. Rest(n, 0, K) = Those(From(s, i + 1), K) /\ Rest(n, 1, K) = Those(From(s, i + 1 + 1), K)
  BY <1>1, <1>2 DEF Rest
<1> QED BY <1>1, <1>4, <1>5, <1>6, <1>7, <1>8

LEMMA StillRest ==
  ASSUME TreeInv, GreenInv, stolen = NULL, NEW n \in Reds, red[n].parent # NULL, Still(n),
         NEW k \in {0, 1}, NEW K
  PROVE  Rest(n, k, K)' = Rest(n, k, K) /\ heap'[red'[n].green].kind = heap[red[n].green].kind
<1>1. PICK s \in Seq(Greens), i \in Nat : /\ s = Home(n) /\ i = red[n].index
                                          /\ i + 1 \in 1 .. Len(s) /\ s[i + 1] = red[n].green
  BY HomeIs
<1>2. n # NULL
  BY RedsAssumption
<1>3. PICK a \in 1 .. Len(s) + 1 : a = i + 1 + k
  BY <1>1
<1>4. /\ Home(n)' = s /\ red'[n].index = i /\ red'[n].green = red[n].green
      /\ \A j \in 1 .. Len(s) : heap'[s[j]].kind = heap[s[j]].kind
  BY <1>1 DEF Still
<1>5. PICK t \in Seq(Greens) : t = From(s, a) /\ \A j \in 1 .. Len(t) : heap'[t[j]].kind = heap[t[j]].kind
  <2>1. /\ From(s, a) \in Seq(Greens) /\ Len(From(s, a)) = Len(s) + 1 - a
        /\ \A j \in 1 .. Len(s) + 1 - a : From(s, a)[j] = s[a + j - 1]
    BY FromIs
  <2>2. PICK t : t = From(s, a)
    OBVIOUS
  <2>3. ASSUME NEW j \in 1 .. Len(t) PROVE heap'[t[j]].kind = heap[t[j]].kind
    <3>1. j \in 1 .. Len(s) + 1 - a
      BY <2>1, <2>2
    <3>2. a + j - 1 \in 1 .. Len(s)
      BY <3>1
    <3>3. t[j] = s[a + j - 1]
      BY <2>1, <2>2, <3>1
    <3> QED BY <1>4, <3>2, <3>3
  <2> QED BY <2>1, <2>2, <2>3
<1>6. Rest(n, k, K) = Those(t, K)
  BY <1>1, <1>2, <1>3, <1>5 DEF Rest
<1>7. Rest(n, k, K)' = Those(t, K)'
  <2>1. From(Home(n), red[n].index + 1 + k)' = t
    BY <1>3, <1>4, <1>5 DEF From
  <2> QED BY <1>2, <2>1 DEF Rest, Those
<1>8. Those(t, K)' = Those(t, K)
  BY <1>5, ThoseAgree
<1> QED BY <1>1, <1>4, <1>6, <1>7, <1>8

(* Nothing happens to the green tree while the user looks at it. *)
LEMMA UserStill ==
  ASSUME TreeInv, GreenInv, stolen = NULL, spine.node = NULL, UNCHANGED <<heap, spine>>,
         NEW n \in Reds, red[n].parent # NULL,
         \/ Quiet(red')
         \/ \E c, p, i, g : MakesChild(red', c, p, i, g)
  PROVE  Still(n)
<1>1. PICK p \in Reds : p = red[n].parent /\ red[p] # FreeRed /\ red[n] # FreeRed
  BY ParentHasGreen DEF GreenInv
<1>2. ASSUME NEW m \in Reds, red[m] # FreeRed
      PROVE  red'[m].parent = red[m].parent /\ red'[m].index = red[m].index /\ red'[m].green = red[m].green
  <2>1. CASE Quiet(red')
    BY <2>1 DEF Quiet, Keeps
  <2>2. CASE \E c, q, i, g : MakesChild(red', c, q, i, g)
    <3>1. PICK c, q, i, g : MakesChild(red', c, q, i, g)
      BY <2>2
    <3>2. /\ red[c] = FreeRed /\ red'[q].parent = red[q].parent /\ red'[q].index = red[q].index
          /\ red'[q].green = red[q].green /\ \A x \in Reds \ {c, q} : Keeps(red', x)
      BY <3>1 DEF MakesChild
    <3> QED BY <1>2, <3>2 DEF Keeps
  <2> QED BY <2>1, <2>2
<1>3. spine' = spine /\ heap' = heap /\ p # NULL
  BY RedsAssumption
<1>4. CurrentGreen(red[n].parent)' = CurrentGreen(red[n].parent)
  BY <1>1, <1>2, <1>3 DEF CurrentGreen
<1>5. Home(n)' = Home(n)
  BY <1>3, <1>4 DEF Home
<1>6. Under(n)'
  BY <1>1, <1>2, <1>3 DEF Under
<1> QED BY <1>1, <1>2, <1>3, <1>5, <1>6 DEF Still

(* Neither the nodes below which the user stands nor their siblings are freed or changed. *)
LEMMA HomeLasts ==
  ASSUME TreeInv, GreenInv, stolen = NULL, [Next]_vars, NEW n \in Reds, red[n].parent # NULL
  PROVE  /\ heap'[CurrentGreen(red[n].parent)].kids = Home(n)
         /\ \A i \in DOMAIN Home(n) : heap'[Home(n)[i]].kind = heap[Home(n)[i]].kind
<1>1. PICK g \in Greens : g = CurrentGreen(red[n].parent) /\ HasOwner(g)
  BY HomeIs
<1>2. PICK s \in Seq(Greens) : s = Home(n) /\ s = heap[g].kids
  BY <1>1, HomeIs DEF Home
<1>3. heap'[g].kids = s
  BY <1>1, <1>2, OwnedLast DEF HasOwner, Lasts, SameNode
<1>4. ASSUME NEW i \in 1 .. Len(s) PROVE heap'[s[i]].kind = heap[s[i]].kind
  <2>1. PICK j : j = i - 1
    OBVIOUS
  <2>2. j \in Slots(heap, g) /\ Kid(heap, g, j) = s[i]
    BY <1>2, <2>1 DEF Slots, Kid
  <2>3. HasOwner(s[i])
    BY <2>2, SlotIsOwned DEF GreenInv
  <2> QED BY <2>3, OwnedLast DEF HasOwner, Lasts, SameNode
<1> QED BY <1>1, <1>2, <1>3, <1>4

LEMMA AboveStays ==
  ASSUME \A m \in Reds : red'[m].parent = red[m].parent, NEW n \in Reds
  PROVE  Above(red', n) = Above(red, n)
<1>1. \A S \in SUBSET Reds : Closed(red', S) <=> Closed(red, S)
  BY DEF Closed
<1> QED BY <1>1 DEF Above

(* The turns of the loops leave a child that is referred to where it is. *)
LEMMA RespineStill ==
  ASSUME TreeInv, GreenInv, stolen = NULL, NEW n \in Reds, Under(n), RespineStep
  PROVE  Still(n)
<1>1. PICK p \in Reds : p = red[n].parent /\ p # NULL
  BY ParentHasGreen, RedsAssumption DEF Under, GreenInv
<1>2. PICK s \in Reds : s = spine.node /\ s \in Above(red, p) /\ s # NULL
  BY <1>1, TreeIsForested DEF RespineStep, Under, Forested, RefType, RedOrNull
<1>3. /\ red'[s].parent = red[s].parent /\ red'[s].index = red[s].index /\ red'[s].green = spine.green
      /\ \A m \in Reds \ {s} : /\ red'[m].parent = red[m].parent /\ red'[m].index = red[m].index
                               /\ red'[m].green = red[m].green
  <2>1. Regreens(red', s, spine.green)
    BY <1>2, RespineRegreens, TreeIsForested DEF Forested
  <2> QED BY <2>1 DEF Regreens, Keeps
<1>4. \A m \in Reds : red'[m].parent = red[m].parent
  BY <1>3
<1>5. Parents(red) /\ Acyclic(red)
  BY TreeIsForested
<1>6. n # s
  BY <1>1, <1>2, <1>5, NoCycle
<1>7. spine'.node = red[s].parent
  <2>1. "node" \in DOMAIN spine
    BY TreeIsForested DEF Forested, RefType
  <2>2. \/ red[s].parent # NULL /\ \E a : spine' = Climb(red[s].parent, a)
        \/ red[s].parent = NULL /\ spine' = NoSpine
    BY <1>2 DEF RespineStep
  <2>3. \A a : Climb(red[s].parent, a).node = red[s].parent
    BY <2>1 DEF Climb
  <2> QED BY <2>2, <2>3 DEF NoSpine
<1>8. spine'.node # p
  <2>1. CASE red[s].parent = NULL
    BY <1>1, <1>7, <2>1
  <2>2. CASE red[s].parent # NULL
    <3>1. s \notin Above(red, red[s].parent)
      BY <1>5, <2>2, NoCycle
    <3> QED BY <1>2, <1>7, <3>1
  <2> QED BY <2>1, <2>2
<1>9. CurrentGreen(p)' = CurrentGreen(p)
  BY <1>2, <1>3, <1>8 DEF CurrentGreen
<1>10. [Next]_vars
  BY DEF Next, Loop
<1>11. Home(n)' = Home(n) /\ \A i \in DOMAIN Home(n) : heap'[Home(n)[i]].kind = heap[Home(n)[i]].kind
  <2>1. red[n].parent # NULL
    BY <1>1
  <2>2. /\ heap'[CurrentGreen(red[n].parent)].kids = Home(n)
        /\ \A i \in DOMAIN Home(n) : heap'[Home(n)[i]].kind = heap[Home(n)[i]].kind
    BY <1>10, <2>1, HomeLasts
  <2>3. CurrentGreen(red[n].parent)' = CurrentGreen(red[n].parent)
    BY <1>1, <1>4, <1>9
  <2> QED BY <2>2, <2>3 DEF Home
<1>12. Under(n)'
  <2>1. Above(red', p) = Above(red, p)
    BY <1>4, AboveStays
  <2>2. spine'.node # NULL => spine'.node \in Above(red, p)
    BY <1>1, <1>2, <1>5, <1>7, AboveClosed DEF Closed
  <2>3. red'[n].parent = p
    BY <1>1, <1>4
  <2> QED BY <1>1, <2>1, <2>2, <2>3 DEF Under
<1> QED BY <1>3, <1>6, <1>11, <1>12 DEF Still

LEMMA FreeStill ==
  ASSUME TreeInv, GreenInv, stolen = NULL, NEW n \in Reds, Under(n), red[n].rc > 0, FreeStep
  PROVE  Still(n)
<1>1. PICK p \in Reds : p = red[n].parent /\ p # NULL
  BY ParentHasGreen, RedsAssumption DEF Under, GreenInv
<1>2. PICK d \in Reds : d = dying /\ red[d].rc = 0 /\ Frees(red', d)
  BY TreeIsForested, FreeFrees DEF FreeStep, Accounted, Forested, RefType, RedOrNull
<1>3. n # d /\ p # d
  BY <1>1, <1>2 DEF Frees, Childless
<1>4. /\ red'[n].parent = red[n].parent /\ red'[n].index = red[n].index
      /\ red'[n].green = red[n].green /\ red'[p].green = red[p].green
  BY <1>2, <1>3 DEF Frees
<1>5. spine' = spine /\ heap' = heap /\ spine.node = NULL
  BY DEF FreeStep, GreenInv, Stages, RespineSafe
<1>6. CurrentGreen(red[n].parent)' = CurrentGreen(red[n].parent)
  BY <1>1, <1>4, <1>5 DEF CurrentGreen
<1> QED BY <1>1, <1>4, <1>5, <1>6 DEF Still, Home, Under

LEMMA DropStill ==
  ASSUME TreeInv, GreenInv, stolen = NULL, NEW n \in Reds, Under(n), DropGreenStep
  PROVE  Still(n)
<1>1. [Next]_vars /\ red' = red /\ spine' = spine
  BY DEF Next, Loop, DropGreenStep
<1>2. red[n].parent # NULL
  BY DEF Under
<1>3. CurrentGreen(red[n].parent)' = CurrentGreen(red[n].parent)
  BY <1>1 DEF CurrentGreen
<1>4. Under(n)'
  BY <1>1 DEF Under
<1>5. /\ heap'[CurrentGreen(red[n].parent)].kids = Home(n)
      /\ \A i \in DOMAIN Home(n) : heap'[Home(n)[i]].kind = heap[Home(n)[i]].kind
  BY <1>1, <1>2, HomeLasts
<1> QED BY <1>1, <1>3, <1>4, <1>5 DEF Still, Home

LEMMA LoopStill ==
  ASSUME TreeInv, GreenInv, stolen = NULL, todo = NoTodo, Loop
  PROVE  /\ stolen' = NULL /\ todo' = NoTodo /\ handle' = handle
         /\ \A n \in Reds : Under(n) /\ red[n].rc > 0 => Still(n)
<1>1. todo.stage = "none"
  BY DEF NoTodo
<1>2. RespineStep \/ FreeStep \/ DropGreenStep
  BY <1>1 DEF Loop, AttachLink, AttachPanic, AttachEnd, CloneStep, CloneEnd, ReplaceStep, ReplaceEnd
<1>3. stolen' = NULL /\ todo' = NoTodo /\ handle' = handle
  BY <1>2 DEF RespineStep, FreeStep, DropGreenStep
<1> QED BY <1>2, <1>3, RespineStill, FreeStill, DropStill

(***************************************************************************)
(* The user comes to a child: c is the reference to the child in slot i of *)
(* p.  Those before it, from slot a on, that nobody asks for are passed.   *)
(***************************************************************************)
Passes(p, a, i, K) ==
  /\ p \in Reds /\ red[p].rc > 0
  /\ a \in Nat /\ i \in Slots(heap, red[p].green) /\ a <= i
  /\ \A j \in a .. i - 1 : heap[Kid(heap, red[p].green, j)].kind \notin K

Sits(p, i, c) ==
  /\ c \in Reds
  /\ red'[c].parent = p /\ red'[c].index = i /\ red'[c].green = Kid(heap, red[p].green, i)
  /\ red'[p].green = red[p].green
  /\ UNCHANGED <<heap, spine>>

LEMMA ChildSits ==
  ASSUME TreeInv, GreenInv, stolen = NULL, spine.node = NULL, NEW p \in Reds, red[p].rc > 0, NEW i,
         NEW c \in Reds, IsChild(p, i, c), Alike(red', WithChild(p, i, c)), UNCHANGED <<heap, spine>>
  PROVE  Sits(p, i, c)
<1> SUFFICES /\ red'[c].parent = p /\ red'[c].index = i /\ red'[c].green = Kid(heap, red[p].green, i)
             /\ red'[p].green = red[p].green
  BY DEF Sits
<1>1. Forested
  BY TreeIsForested
<1>2. CASE c \in Linked(p, i)
  <2>1. \A m \in Reds : /\ red'[m].parent = red[m].parent /\ red'[m].index = red[m].index
                         /\ red'[m].green = red[m].green
    <3>1. WithChild(p, i, c) = [red EXCEPT ![c].rc = @ + 1]
      BY <1>2 DEF WithChild
    <3> QED BY <1>1, <3>1 DEF Alike, Forested, RefType, FreeRed
  <2>2. red[c].parent = p /\ red[c].index = i
    <3>1. c \in red[p].first /\ red[c].index = i
      BY <1>2 DEF Linked
    <3> QED BY <1>1, <3>1, ListsAre DEF Forested
  <2>3. red[c].green = Kid(heap, red[p].green, i)
    <3>1. p # NULL /\ spine.node # p
      BY <1>1, RedsAssumption
    <3> QED BY <1>1, <2>2, <3>1, SlotOfChild
  <2> QED BY <1>1, <2>1, <2>2, <2>3
<1>3. CASE c \notin Linked(p, i)
  <2>1. red[c] = FreeRed /\ WithChild(p, i, c)[c].parent = p
    BY <1>1, <1>3, FreshChild DEF Forested
  <2>2. red'[c].parent = p /\ p # NULL
    BY <1>1, <2>1, RedsAssumption DEF Alike
  <2>3. ~ Quiet(red')
    BY <1>1, <2>1, <2>2 DEF Quiet, Keeps, FreeRed
  <2>4. MakesChild(red', c, p, i, Kid(heap, red[p].green, i))
    BY <1>1, <2>3, ChildMade
  <2> QED BY <2>4 DEF MakesChild
<1> QED BY <1>2, <1>3

LEMMA Arrived ==
  ASSUME TreeInv, GreenInv, stolen = NULL, spine.node = NULL, NEW p, NEW a, NEW i, NEW c, NEW K,
         Passes(p, a, i, K), Sits(p, i, c), NEW C \in SUBSET K
  PROVE  Under(c)' /\ Rest(c, 0, C)' = Those(From(heap[red[p].green].kids, a + 1), C)
<1>1. /\ p \in Reds /\ c \in Reds /\ p # NULL /\ c # NULL /\ a \in Nat /\ red[p].rc > 0
      /\ heap' = heap /\ spine' = spine
  BY RedsAssumption DEF Passes, Sits
<1>2. /\ red'[c].parent = p /\ red'[c].index = i /\ red'[c].green = Kid(heap, red[p].green, i)
      /\ red'[p].green = red[p].green
  BY DEF Sits
<1>3. PICK g \in Greens : g = red[p].green
  BY <1>1, LiveHasGreen DEF GreenInv
<1>4. PICK s \in Seq(Greens) : s = heap[g].kids
  BY DEF GreenInv, Stored, HeapType
<1>5. i \in Slots(heap, g) /\ a <= i
  BY <1>3 DEF Passes
<1>6. i \in Nat /\ i + 1 \in 1 .. Len(s) /\ a + 1 \in 1 .. Len(s) + 1 /\ i + 1 \in a + 1 .. Len(s) + 1
  BY <1>1, <1>4, <1>5 DEF Slots
<1>7. \A j \in a + 1 .. (i + 1) - 1 : heap[s[j]].kind \notin C
  <2> SUFFICES ASSUME NEW j \in a + 1 .. (i + 1) - 1 PROVE heap[s[j]].kind \notin C
    OBVIOUS
  <2>1. j - 1 \in a .. i - 1 /\ (j - 1) + 1 = j
    BY <1>1, <1>6
  <2>2. heap[Kid(heap, g, j - 1)].kind \notin K
    BY <1>3, <2>1 DEF Passes
  <2> QED BY <1>4, <2>1, <2>2 DEF Kid
<1>8. Those(From(s, a + 1), C) = Those(From(s, i + 1), C)
  BY <1>6, <1>7, ThoseSkip
<1>9. Home(c)' = s
  BY <1>1, <1>2, <1>3, <1>4 DEF Home, CurrentGreen
<1>10. Rest(c, 0, C)' = Those(From(s, i + 1), C)
  <2>1. From(Home(c), red[c].index + 1 + 0)' = From(s, i + 1)
    BY <1>2, <1>6, <1>9 DEF From
  <2> QED BY <1>1, <2>1 DEF Rest, Those
<1>11. Under(c)'
  BY <1>1, <1>2 DEF Under
<1> QED BY <1>1, <1>2, <1>3, <1>4, <1>8, <1>10, <1>11

(* Nothing the user asks for is left. *)
LEMMA NoneLeft ==
  ASSUME NEW g \in Greens, Stored, NEW a \in Nat, a <= Len(heap[g].kids), NEW K, NEW C \in SUBSET K,
         \A j \in Slots(heap, g) : j >= a => heap[Kid(heap, g, j)].kind \notin K
  PROVE  Those(From(heap[g].kids, a + 1), C) = <<>>
<1>1. PICK s \in Seq(Greens) : s = heap[g].kids
  BY DEF Stored, HeapType
<1>2. PICK e \in Nat : e = Len(s) + 1
  OBVIOUS
<1>3. a + 1 \in 1 .. Len(s) + 1 /\ e \in a + 1 .. Len(s) + 1 /\ e \in 1 .. Len(s) + 1
  BY <1>1, <1>2
<1>4. \A j \in a + 1 .. e - 1 : heap[s[j]].kind \notin C
  <2> SUFFICES ASSUME NEW j \in a + 1 .. e - 1 PROVE heap[s[j]].kind \notin C
    OBVIOUS
  <2>1. j - 1 \in Slots(heap, g) /\ j - 1 >= a /\ (j - 1) + 1 = j
    BY <1>1, <1>2 DEF Slots
  <2> QED BY <1>1, <2>1 DEF Kid
<1>5. Those(From(s, a + 1), C) = Those(From(s, e), C)
  BY <1>3, <1>4, ThoseSkip
<1>6. From(s, e) = <<>>
  <2>1. From(s, e) \in Seq(Greens) /\ Len(From(s, e)) = Len(s) + 1 - e
    BY <1>3, FromIs
  <2>2. Len(From(s, e)) = 0
    BY <1>2, <2>1
  <2> QED BY <2>1, <2>2, LengthZero
<1> QED BY <1>1, <1>5, <1>6, ThoseNone

(***************************************************************************)
(* A child is detached: those behind it move up, and respine begins at the *)
(* parent.                                                                 *)
(***************************************************************************)
LEMMA DetachRest ==
  ASSUME TreeInv, GreenInv, NEW h \in Handles, Detach(h), NEW n \in Reds,
         red[n].parent = red[handle[h]].parent, red[n].index > red[handle[h]].index, NEW K
  PROVE  /\ Under(n)' /\ Rest(n, 0, K)' = Rest(n, 0, K)
         /\ heap'[red'[n].green].kind = heap[red[n].green].kind
<1>1. PICK m \in Reds : /\ m = handle[h] /\ red[m].mutable /\ red[m].parent # NULL /\ DetachData(m)
                        /\ User /\ stolen = NULL /\ spine.node = NULL
  BY TreeIsForested, IdleHolds DEF Detach, User, Forested, RefType, RedOrNull
<1>2. PICK p \in Reds : p = red[m].parent /\ p = red[n].parent /\ p # NULL /\ red[p].mutable
  BY <1>1, ParentHasGreen, TreeIsForested DEF GreenInv, Forested, Uniform
<1>3. PICK j \in Nat, g \in Greens : /\ j = red[m].index /\ g = red[p].green /\ j \in Slots(heap, g)
  BY <1>1, <1>2, SlotOfChild
<1>4. PICK i \in Nat : i = red[n].index /\ i > j /\ i \in Slots(heap, g) /\ red[n].green \in Greens
  BY <1>1, <1>2, <1>3, SlotOfChild
<1>5. PICK s \in Seq(Greens), l \in Nat : /\ s = heap[g].kids /\ l = Len(s)
                                          /\ j + 1 \in 1 .. l /\ i + 1 \in 1 .. l
  <2>1. /\ heap[g].kids \in Seq(Greens) /\ Len(heap[g].kids) \in Nat
        /\ j + 1 \in 1 .. Len(heap[g].kids) /\ i + 1 \in 1 .. Len(heap[g].kids)
    BY <1>3, <1>4, SlotPlace DEF GreenInv, Stored
  <2> QED BY <2>1
<1>25. i > j /\ i + 1 <= l
  <2>1. i > j
    BY <1>4
  <2>2. i + 1 <= l
    BY <1>5
  <2> QED BY <2>1, <2>2
<1>6. PICK own : own = OwnGreen(m)
  OBVIOUS
<1>7. /\ \A k \in Greens : own[k].kids = heap[k].kids
  BY <1>6, ShareOneKeeps DEF OwnGreen, SameNode, Shaped, GreenInv, Stored, HeapType
<1>8. PICK a \in Greens : /\ heap' = RemoveChild(own, a, g, j)
                          /\ spine' = [node |-> p, green |-> a, release |-> p]
  BY <1>1, <1>2, <1>3, <1>6 DEF DetachData, NextGreen, Lowest, FreeGreens
<1>9. heap'[a].kids = RemoveAt(s, j + 1)
  BY <1>3, <1>5, <1>7, <1>8 DEF RemoveChild, NewNode, Share
<1>10. PICK t \in Seq(Greens) : /\ t = RemoveAt(s, j + 1) /\ Len(t) = l - 1
                                /\ \A k \in 1 .. l - 1 : t[k] = IF k < j + 1 THEN s[k] ELSE s[k + 1]
  <2>1. PICK t : t = RemoveAt(s, j + 1)
    OBVIOUS
  <2>2. j + 1 \in 1 .. Len(s)
    BY <1>5
  <2>3. /\ t \in Seq(Greens) /\ Len(t) = Len(s) - 1
        /\ \A k \in 1 .. Len(s) - 1 : t[k] = IF k < j + 1 THEN s[k] ELSE s[k + 1]
    BY <2>1, <2>2, RemovedAt
  <2> QED BY <1>5, <2>1, <2>3
<1>11. Detaches(red', m)
  BY <1>1, TreeIsForested, DetachDetaches
<1>12. n \in red[p].first /\ n # m
  BY <1>2, <1>3, <1>4, TreeIsForested, ListsAre DEF Forested
<1>13. red'[n].parent = p /\ red'[n].green = red[n].green
  BY <1>2, <1>11, <1>12 DEF Detaches
<1>14. red'[n].index = i - 1
  BY <1>2, <1>3, <1>4, <1>11, <1>12 DEF Detaches
<1>15. spine'.node = p /\ CurrentGreen(p)' = a
  BY <1>8 DEF CurrentGreen
<1>16. [Next]_vars
  BY DEF Next, Operation
<1>17. heap'[red[n].green].kind = heap[red[n].green].kind
  <2>1. Safe(n)
    BY <1>1, <1>2, SafeWithoutPanic, ParentHasGreen DEF GreenInv
  <2>2. HasOwner(red[n].green)
    BY <2>1, SafeIsOwned
  <2> QED BY <1>16, <2>2, OwnedLast DEF HasOwner, Lasts, SameNode
<1>18. Home(n) = s /\ Home(n)' = t
  BY <1>1, <1>2, <1>3, <1>5, <1>9, <1>10, <1>13, <1>15 DEF Home, CurrentGreen
<1>19. From(t, i) = From(s, i + 1)
  <2>1. i \in 1 .. Len(t) + 1 /\ i + 1 \in 1 .. Len(s) + 1
    BY <1>4, <1>5, <1>10
  <2>2. PICK x, y : x = From(t, i) /\ y = From(s, i + 1)
    OBVIOUS
  <2>8. PICK d \in Nat : d = l - i
    <3>1. l - i \in Nat
      BY <1>25
    <3> QED BY <3>1
  <2>3. Len(t) + 1 - i = d /\ Len(s) + 1 - (i + 1) = d
    <3>1. Len(t) = l - 1 /\ Len(s) = l
      BY <1>5, <1>10
    <3>2. (l - 1) + 1 - i = d /\ l + 1 - (i + 1) = d
      BY <2>8
    <3> QED BY <3>1, <3>2
  <2>4. x \in Seq(Greens) /\ Len(x) = d /\ \A k \in 1 .. d : x[k] = t[i + k - 1]
    BY <2>1, <2>2, <2>3, FromIs
  <2>5. y \in Seq(Greens) /\ Len(y) = d /\ \A k \in 1 .. d : y[k] = s[(i + 1) + k - 1]
    <3>1. /\ From(s, i + 1) \in Seq(Greens) /\ Len(From(s, i + 1)) = Len(s) + 1 - (i + 1)
          /\ \A k \in 1 .. Len(s) + 1 - (i + 1) : From(s, i + 1)[k] = s[(i + 1) + k - 1]
      BY <2>1, FromIs
    <3> QED BY <2>2, <2>3, <3>1
  <2>6. ASSUME NEW k \in 1 .. d PROVE x[k] = y[k]
    <3>1. PICK e \in Nat : e = i + k - 1
      OBVIOUS
    <3>2. e \in 1 .. l - 1 /\ ~ (e < j + 1) /\ e + 1 = (i + 1) + k - 1
      BY <1>25, <2>8, <3>1
    <3>3. t[e] = s[e + 1]
      BY <1>10, <3>2
    <3> QED BY <2>4, <2>5, <3>1, <3>2, <3>3
  <2>7. x = y
    BY <2>4, <2>5, <2>6, SameSeq
  <2> QED BY <2>2, <2>7
<1>20. PICK u \in Seq(Greens) : u = From(s, i + 1) /\ \A k \in 1 .. Len(u) : heap'[u[k]].kind = heap[u[k]].kind
  <2>1. \A k \in 1 .. Len(s) : heap'[s[k]].kind = heap[s[k]].kind
    <3>1. red[n].parent # NULL
      BY <1>2
    <3> QED BY <1>1, <1>16, <1>18, <3>1, HomeLasts
  <2>2. i + 1 \in 1 .. Len(s) + 1
    BY <1>5
  <2>3. PICK u : u = From(s, i + 1)
    OBVIOUS
  <2>4. /\ u \in Seq(Greens) /\ Len(u) = Len(s) + 1 - (i + 1)
        /\ \A k \in 1 .. Len(s) + 1 - (i + 1) : u[k] = s[(i + 1) + k - 1]
    BY <2>2, <2>3, FromIs
  <2>5. ASSUME NEW k \in 1 .. Len(u) PROVE heap'[u[k]].kind = heap[u[k]].kind
    <3>1. k \in 1 .. Len(s) + 1 - (i + 1)
      BY <2>4
    <3>2. PICK e : e = (i + 1) + k - 1
      OBVIOUS
    <3>3. e \in 1 .. l
      <4>1. k \in 1 .. l + 1 - (i + 1)
        BY <1>5, <3>1
      <4> QED BY <1>25, <3>2, <4>1
    <3>4. u[k] = s[e]
      BY <2>4, <3>1, <3>2
    <3> QED BY <1>5, <2>1, <3>3, <3>4
  <2> QED BY <2>3, <2>4, <2>5
<1>21. Rest(n, 0, K) = Those(u, K)
  <2>1. n # NULL /\ red[n].index + 1 + 0 = i + 1
    BY <1>4, RedsAssumption
  <2> QED BY <1>18, <1>20, <2>1 DEF Rest
<1>22. Rest(n, 0, K)' = Those(u, K)'
  <2>1. n # NULL /\ (i - 1) + 1 + 0 = i
    BY <1>4, RedsAssumption
  <2>2. From(Home(n), red[n].index + 1 + 0)' = u
    BY <1>14, <1>18, <1>19, <1>20, <2>1 DEF From
  <2> QED BY <2>1, <2>2 DEF Rest, Those
<1>23. Those(u, K)' = Those(u, K)
  BY <1>20, ThoseAgree
<1>24. Under(n)'
  <2>1. p \in Above(red', p)
    <3>1. Parents(red')
      BY <1>11, TreeIsForested DEF Detaches, Parents, RedOrNull
    <3> QED BY <3>1, AboveClosed
  <2> QED BY <1>2, <1>13, <1>15, <2>1 DEF Under
<1> QED BY <1>13, <1>17, <1>21, <1>22, <1>23, <1>24

(***************************************************************************)
(* The invariant of the loops.  A variable follows the loop if what is     *)
(* left of the children k places after the child it refers to is what the  *)
(* body has not seen yet.                                                  *)
(***************************************************************************)
Reached(n, k) == (n # NULL => Under(n)) /\ expected = visited \o Rest(n, k, loop.casts)

Follows(h, k) == \A n \in RedOrNull : n = handle[h] => Reached(n, k)

Castable(h) == handle[h] # NULL => Casts(handle[h])

Ready == Follows(NextVar, 0) /\ Castable(NextVar)

Resumes == IF loop.byKind THEN Ready ELSE handle[NextVar] # NULL /\ Follows(NextVar, 1)

Begins == handle[ItemVar] = NULL /\ handle[NextVar] = NULL /\ visited = <<>> /\ Idle

Behind(n, m) == red[n].parent = red[m].parent /\ red[n].index > red[m].index

Going ==
  /\ pc \notin {"tree", "iterator"} => loop \in Loops
  /\ pc \in {"tree", "iterator", "first"} => Begins
  /\ pc = "first" => /\ handle[ParentVar] # NULL
                     /\ expected = GreenKids(handle[ParentVar], loop.casts)
  /\ pc \in {"by_kind", "yield", "advance"} => handle[ItemVar] = NULL
  /\ pc = "by_kind" => loop.byKind
  /\ pc \in {"by_kind", "yield"} => IF loop.byKind THEN Ready ELSE Follows(NextVar, 0)
  /\ pc = "ahead" => /\ loop.byKind /\ handle[NextVar] = NULL /\ handle[ItemVar] # NULL
                     /\ Follows(ItemVar, 1)
  /\ pc \in {"body", "advance"} => Resumes
  /\ pc = "body" /\ loop.byKind /\ handle[NextVar] # NULL /\ handle[ItemVar] # NULL
       => Behind(handle[NextVar], handle[ItemVar])
  /\ pc = "end of body" => loop.byKind /\ Ready
  /\ pc = "done" => visited = expected

Calm ==
  /\ TreeInv /\ GreenInv
  /\ stolen = NULL /\ todo = NoTodo
  /\ visited \in Seq(Greens)
  /\ Going

LoopPcs == {"tree", "iterator", "first", "by_kind", "yield", "ahead", "body", "end of body",
            "advance", "done"}

LoopInv == pc \in LoopPcs => Calm

LEMMA LoopIs ==
  ASSUME NEW l \in Loops
  PROVE  l.byKind \in BOOLEAN /\ l.casts \subseteq l.kinds /\ (l.byKind => l.casts = l.kinds)
BY LoopsAssumption

LEMMA VarsAre ==
  /\ NodeVar \in Handles /\ ParentVar \in Handles /\ NextVar \in Handles /\ ItemVar \in Handles
  /\ ParentVar # NodeVar /\ NextVar # NodeVar /\ NextVar # ParentVar
  /\ ItemVar # NodeVar /\ ItemVar # ParentVar /\ ItemVar # NextVar
  /\ \A h \in KeptVars : h \in Handles /\ h \notin {NodeVar, ParentVar, NextVar, ItemVar}
BY VariablesAssumption DEF KeptVars

(* What a variable refers to. *)
LEMMA Refers ==
  ASSUME TreeInv, GreenInv, NEW h \in Handles
  PROVE  /\ handle[h] \in RedOrNull
         /\ handle[h] # NULL => /\ handle[h] \in Reds /\ red[handle[h]].rc > 0
                                /\ red[handle[h]] # FreeRed /\ red[handle[h]].green \in Greens
<1>1. handle[h] \in RedOrNull
  BY TreeIsForested DEF Forested, RefType
<1>2. ASSUME handle[h] # NULL
      PROVE  /\ handle[h] \in Reds /\ red[handle[h]].rc > 0
             /\ red[handle[h]] # FreeRed /\ red[handle[h]].green \in Greens
  <2>1. handle[h] \in Reds
    BY <1>1, <1>2 DEF RedOrNull
  <2>2. red[handle[h]].rc > 0
    BY <2>1, TreeIsForested, Referenced DEF Forested
  <2> QED BY <2>1, <2>2, LiveHasGreen DEF GreenInv
<1> QED BY <1>1, <1>2

(* A variable follows the loop while its child stands still. *)
LEMMA StillReached ==
  ASSUME TreeInv, GreenInv, stolen = NULL, NEW n \in Reds, red[n].parent # NULL, Still(n),
         NEW k \in {0, 1}, expected' = visited' \o Rest(n, k, loop'.casts)
  PROVE  Reached(n, k)' /\ (heap[red[n].green].kind \in loop'.casts => Casts(n)')
<1>1. PICK K : K = loop'.casts
  OBVIOUS
<1>2. Rest(n, k, K)' = Rest(n, k, K) /\ heap'[red'[n].green].kind = heap[red[n].green].kind
  BY StillRest
<1>3. expected' = visited' \o Rest(n, k, K)
  BY <1>1
<1>4. Rest(n, k, loop.casts)' = Rest(n, k, K)'
  BY <1>1 DEF Rest, Those
<1>5. Under(n)'
  BY DEF Still
<1>6. red'[n].green = red[n].green
  BY DEF Still
<1> QED BY <1>1, <1>2, <1>3, <1>4, <1>5, <1>6 DEF Reached, Casts

LEMMA FollowsStill ==
  ASSUME TreeInv, GreenInv, stolen = NULL, NEW h \in Handles, NEW k \in {0, 1}, Follows(h, k),
         handle'[h] = handle[h], UNCHANGED <<loop, expected, visited>>,
         \A n \in Reds : n = handle[h] => Still(n)
  PROVE  Follows(h, k)' /\ (Castable(h) => Castable(h)')
<1>1. PICK n \in RedOrNull : n = handle[h]
  BY Refers
<1>2. Reached(n, k)
  BY <1>1 DEF Follows
<1>3. Reached(n, k)' /\ (Castable(h) => Castable(h)')
  <2>1. CASE n = NULL
    BY <1>1, <1>2, <2>1 DEF Reached, Rest, Castable
  <2>2. CASE n # NULL
    <3>1. n \in Reds /\ Still(n) /\ red[n].parent # NULL
      BY <1>1, <1>2, <2>2 DEF RedOrNull, Reached, Under
    <3>2. expected' = visited' \o Rest(n, k, loop'.casts)
      BY <1>2 DEF Reached
    <3>3. Reached(n, k)' /\ (heap[red[n].green].kind \in loop'.casts => Casts(n)')
      BY <3>1, <3>2, StillReached
    <3> QED BY <1>1, <3>3 DEF Castable, Casts
  <2> QED BY <2>1, <2>2
<1> QED BY <1>1, <1>3 DEF Follows

(* While the user looks around, everything stands still. *)
Looks ==
  /\ Quiet(red') \/ \E c, p, i, g : MakesChild(red', c, p, i, g)
  /\ UNCHANGED <<heap, spine, todo, stolen>>

LEMMA LooksFollow ==
  ASSUME TreeInv, GreenInv, Idle, stolen = NULL, Looks,
         NEW h \in Handles, NEW k \in {0, 1}, Follows(h, k),
         handle'[h] = handle[h], UNCHANGED <<loop, expected, visited>>
  PROVE  Follows(h, k)' /\ (Castable(h) => Castable(h)')
<1> SUFFICES ASSUME NEW n \in Reds, n = handle[h] PROVE Still(n)
  BY FollowsStill
<1>1. red[n].parent # NULL
  <2>1. n # NULL /\ n \in RedOrNull
    BY RedsAssumption DEF RedOrNull
  <2>2. Reached(n, k)
    BY <2>1 DEF Follows
  <2> QED BY <2>1, <2>2 DEF Reached, Under
<1>2. spine.node = NULL
  BY IdleHolds
<1> QED BY <1>1, <1>2, UserStill DEF Looks

(* A child is yielded, or passed over if it cannot be cast. *)
LEMMA Yielded ==
  ASSUME TreeInv, GreenInv, stolen = NULL, visited \in Seq(Greens), NEW n \in Reds, Reached(n, 0)
  PROVE  /\ red[n].parent # NULL
         /\ Casts(n) => /\ Append(visited, red[n].green) \in Seq(Greens)
                        /\ expected = Append(visited, red[n].green) \o Rest(n, 1, loop.casts)
         /\ ~ Casts(n) => expected = visited \o Rest(n, 1, loop.casts)
<1>1. red[n].parent # NULL /\ expected = visited \o Rest(n, 0, loop.casts)
  BY RedsAssumption DEF Reached, Under
<1>2. PICK g \in Greens : g = red[n].green
  BY <1>1, ParentHasGreen DEF GreenInv, GreenSet
<1>3. PICK r \in Seq(Greens) : r = Rest(n, 1, loop.casts)
  BY <1>1, RestIs
<1>4. Rest(n, 0, loop.casts) = Pick(g, loop.casts) \o r
  BY <1>1, <1>2, <1>3, RestIs
<1>5. ASSUME Casts(n)
      PROVE  Append(visited, g) \in Seq(Greens) /\ expected = Append(visited, g) \o r
  <2>1. Pick(g, loop.casts) = <<g>>
    BY <1>2, <1>5 DEF Casts, Pick
  <2>2. <<g>> \in Seq(Greens)
    OBVIOUS
  <2>3. Append(visited, g) = visited \o <<g>>
    OBVIOUS
  <2>4. (visited \o <<g>>) \o r = visited \o (<<g>> \o r)
    BY <2>2, Associative
  <2>5. expected = visited \o (<<g>> \o r)
    BY <1>1, <1>4, <2>1
  <2>6. Append(visited, g) \in Seq(Greens)
    OBVIOUS
  <2> QED BY <2>3, <2>4, <2>5, <2>6
<1>6. ASSUME ~ Casts(n) PROVE expected = visited \o r
  <2>1. Pick(g, loop.casts) = <<>>
    BY <1>2, <1>6 DEF Casts, Pick
  <2>2. <<>> \o r = r
    OBVIOUS
  <2> QED BY <1>1, <1>4, <2>1, <2>2
<1> QED BY <1>1, <1>2, <1>3, <1>5, <1>6

(* The user comes to the child in slot i of p, the next one it asks for. *)
LEMMA Comes ==
  ASSUME TreeInv, GreenInv, Idle, stolen = NULL, NEW p, NEW a, NEW i, NEW c, NEW K,
         Passes(p, a, i, K), Sits(p, i, c), loop'.casts \subseteq K,
         expected' = visited' \o Those(From(heap[red[p].green].kids, a + 1), loop'.casts)
  PROVE  /\ Reached(c, 0)'
         /\ heap[Kid(heap, red[p].green, i)].kind \in loop'.casts => Casts(c)'
<1>1. PICK C \in SUBSET K : C = loop'.casts
  OBVIOUS
<1>2. spine.node = NULL
  BY IdleHolds
<1>3. Under(c)' /\ Rest(c, 0, C)' = Those(From(heap[red[p].green].kids, a + 1), C)
  BY <1>2, Arrived
<1>4. Rest(c, 0, loop.casts)' = Rest(c, 0, C)'
  BY <1>1 DEF Rest, Those
<1>5. heap' = heap /\ red'[c].green = Kid(heap, red[p].green, i)
  BY DEF Sits
<1> QED BY <1>1, <1>3, <1>4, <1>5 DEF Reached, Casts

(* The tree is made, and looked at; the iterator takes the node. *)
LEMMA MakeTreeCalm ==
  ASSUME Calm, MakeTree PROVE Calm'
<1>1. PICK mut \in BOOLEAN : NewRoot(NodeVar, mut)
  BY DEF MakeTree
<1>2. TreeInv' /\ GreenInv'
  <2>1. [Next]_vars
    BY <1>1, VarsAre DEF Next, Operation
  <2> QED BY <2>1, StepCursor DEF Calm
<1>3. /\ UNCHANGED <<stolen, todo, visited>> /\ Idle'
      /\ handle'[ItemVar] = handle[ItemVar] /\ handle'[NextVar] = handle[NextVar]
  <2>1. \E r : handle' = [handle EXCEPT ![NodeVar] = r]
    BY <1>1 DEF NewRoot, NewRootData
  <2>2. Idle' /\ UNCHANGED <<stolen, todo, visited>>
    BY <1>1 DEF NewRoot, NewRootData, User, Idle, MakeTree
  <2> QED BY <2>1, <2>2, VarsAre
<1>4. pc = "tree" /\ pc' = "iterator"
  BY DEF MakeTree, Goto
<1>5. Going'
  BY <1>3, <1>4 DEF Calm, Going, Begins
<1> QED BY <1>2, <1>3, <1>5 DEF Calm

LEMMA LookCalm ==
  ASSUME Calm, NEW h \in KeptVars, Look(h) PROVE Calm'
<1>1. PICK g, K : g \in Handles /\ (FirstChild(g, K, h) \/ LastChild(g, K, h))
  BY VarsAre DEF Look
<1>2. TreeInv' /\ GreenInv'
  BY <1>1, VarsAre, NavigateCursor DEF Calm
<1>3. /\ UNCHANGED <<stolen, todo, visited>> /\ Idle'
      /\ handle'[ItemVar] = handle[ItemVar] /\ handle'[NextVar] = handle[NextVar]
  <2>1. PICK p, i : NewChild(p, i, h) /\ User
    BY <1>1 DEF FirstChild, LastChild
  <2>2. \E r : handle' = [handle EXCEPT ![h] = r]
    BY <2>1 DEF NewChild
  <2>3. Idle' /\ UNCHANGED <<stolen, todo, visited>>
    BY <2>1 DEF NewChild, User, Idle, Look
  <2> QED BY <2>2, <2>3, VarsAre
<1>4. pc = "iterator" /\ pc' = "iterator"
  BY DEF Look, Goto
<1>5. Going'
  BY <1>3, <1>4 DEF Calm, Going, Begins
<1> QED BY <1>2, <1>3, <1>5 DEF Calm

(* Another reference to a red. *)
LEMMA CloneLooks ==
  ASSUME TreeInv, GreenInv, NEW h \in Handles, NEW new \in Handles, Clone(h, new)
  PROVE  /\ TreeInv' /\ GreenInv' /\ Quiet(red') /\ Looks /\ Idle'
         /\ handle[h] # NULL /\ handle[new] = NULL
         /\ handle' = [handle EXCEPT ![new] = handle[h]]
<1>1. handle[h] # NULL /\ Refer(handle[h], new) /\ User
  BY DEF Clone
<1>2. TreeInv' /\ GreenInv'
  <2>1. [Next]_vars
    BY DEF Next, Operation
  <2> QED BY <2>1, StepCursor
<1>3. Quiet(red')
  BY <1>1, Refers, ReferQuiet, TreeIsForested DEF Forested
<1> QED BY <1>1, <1>2, <1>3 DEF Refer, Looks, User, Idle

LEMMA DropLooks ==
  ASSUME TreeInv, GreenInv, NEW h \in Handles, Drop(h)
  PROVE  /\ TreeInv' /\ GreenInv' /\ Looks
         /\ handle' = [handle EXCEPT ![h] = NULL]
<1>1. handle[h] # NULL /\ Release(red, handle[h])
  BY DEF Drop
<1>2. TreeInv' /\ GreenInv'
  <2>1. [Next]_vars
    BY DEF Next, Operation
  <2> QED BY <2>1, StepCursor
<1>3. Quiet(red')
  BY <1>1, Refers, ReleaseQuiet, TreeIsForested DEF Forested
<1> QED BY <1>2, <1>3 DEF Drop, Looks

LEMMA ChildrenCalm ==
  ASSUME Calm, Children PROVE Calm'
<1>1. /\ TreeInv' /\ GreenInv' /\ Quiet(red') /\ Looks /\ Idle' /\ handle[NodeVar] # NULL
      /\ handle' = [handle EXCEPT ![ParentVar] = handle[NodeVar]]
  BY VarsAre, CloneLooks DEF Children, Calm
<1>2. /\ stolen' = NULL /\ todo' = NoTodo /\ visited' = visited /\ loop' \in Loops /\ heap' = heap
      /\ pc = "iterator" /\ pc' = "first"
  BY <1>1 DEF Children, Looks, Goto, Calm
<1>3. PICK n \in Reds : n = handle[NodeVar] /\ red'[n].green = red[n].green
  BY <1>1, VarsAre, Refers DEF Calm, Quiet, Keeps
<1>4. /\ handle'[ParentVar] = n /\ n # NULL
      /\ handle'[ItemVar] = handle[ItemVar] /\ handle'[NextVar] = handle[NextVar]
  <2>1. handle \in [Handles -> RedOrNull]
    BY TreeIsForested DEF Calm, Forested, RefType
  <2> QED BY <1>1, <1>3, <2>1, VarsAre
<1>5. expected' = GreenKids(handle[ParentVar], loop.casts)'
  <2>1. expected' = GreenKids(n, loop'.casts)
    BY <1>3 DEF Children
  <2> QED BY <1>2, <1>3, <1>4, <2>1 DEF GreenKids, Those
<1>6. Begins'
  BY <1>1, <1>2, <1>4 DEF Calm, Going, Begins
<1>7. Going'
  BY <1>2, <1>4, <1>5, <1>6 DEF Going
<1> QED BY <1>1, <1>2, <1>7 DEF Calm

LEMMA FollowsNone ==
  ASSUME NEW h, NEW k, handle'[h] = NULL, expected' = visited', visited' \in Seq(Greens)
  PROVE  Follows(h, k)' /\ Castable(h)'
<1>1. \A n : n = NULL => Rest(n, k, loop.casts)' = <<>>
  BY DEF Rest
<1>2. visited' \o <<>> = visited'
  OBVIOUS
<1> QED BY <1>1, <1>2 DEF Follows, Reached, Castable

LEMMA FollowsNew ==
  ASSUME NEW h, NEW k, NEW c \in Reds, handle'[h] = c, Reached(c, k)'
  PROVE  Follows(h, k)' /\ (Casts(c)' => Castable(h)')
BY DEF Follows, Castable, Casts

(* What is picked from the first position on is what is picked. *)
LEMMA FromFirst ==
  ASSUME NEW s \in Seq(Greens) PROVE From(s, 1) = s
<1>1. PICK t : t = From(s, 1)
  OBVIOUS
<1>2. 1 \in 1 .. Len(s) + 1
  OBVIOUS
<1>3. t \in Seq(Greens) /\ Len(t) = Len(s) + 1 - 1 /\ \A j \in 1 .. Len(s) + 1 - 1 : t[j] = s[1 + j - 1]
  BY <1>1, <1>2, FromIs
<1>4. PICK n \in Nat : n = Len(s)
  OBVIOUS
<1>5. Len(t) = n /\ \A j \in 1 .. n : t[j] = s[j]
  <2>1. n + 1 - 1 = n /\ \A j \in 1 .. n : 1 + j - 1 = j
    OBVIOUS
  <2> QED BY <1>3, <1>4, <2>1
<1>6. t = s
  BY <1>3, <1>4, <1>5, SameSeq
<1> QED BY <1>1, <1>6

(* The slots of p from a on that are asked for. *)
Asks(p, a, K) == {i \in Wanted(p, K) : i >= a}

LEMMA AskedPasses ==
  ASSUME TreeInv, GreenInv, NEW p \in Reds, red[p].rc > 0, NEW a \in Nat, NEW K,
         NEW i \in Lowest(Asks(p, a, K))
  PROVE  Passes(p, a, i, K) /\ heap[Kid(heap, red[p].green, i)].kind \in K
<1>1. /\ i \in Slots(heap, red[p].green) /\ heap[Kid(heap, red[p].green, i)].kind \in K
      /\ i >= a /\ \A j \in Asks(p, a, K) : i <= j
  BY DEF Lowest, Asks, Wanted
<1>2. PICK s \in Seq(Greens) : s = heap[red[p].green].kids
  BY LiveHasGreen DEF GreenInv, Stored, HeapType
<1>3. PICK l \in Nat : l = Len(s) /\ Slots(heap, red[p].green) = 0 .. l - 1
  BY <1>2 DEF Slots
<1>4. ASSUME NEW j \in a .. i - 1 PROVE heap[Kid(heap, red[p].green, j)].kind \notin K
  <2>1. j \in Slots(heap, red[p].green) /\ j >= a /\ ~ (i <= j)
    BY <1>1, <1>3
  <2> QED BY <1>1, <2>1 DEF Asks, Wanted
<1> QED BY <1>1, <1>4 DEF Passes

LEMMA NoneAsked ==
  ASSUME GreenInv, NEW p \in Reds, red[p].green \in Greens, NEW a \in Nat,
         a <= Len(heap[red[p].green].kids), NEW K, Asks(p, a, K) = {}, NEW C \in SUBSET K
  PROVE  Those(From(heap[red[p].green].kids, a + 1), C) = <<>>
<1>1. \A j \in Slots(heap, red[p].green) : j >= a => heap[Kid(heap, red[p].green, j)].kind \notin K
  BY DEF Asks, Wanted
<1> QED BY <1>1, NoneLeft DEF GreenInv

LEMMA FirstCalm ==
  ASSUME Calm, First PROVE Calm'
<1>1. /\ TreeInv /\ GreenInv /\ stolen = NULL /\ todo = NoTodo /\ visited = <<>> /\ Idle
      /\ loop \in Loops /\ handle[ItemVar] = NULL /\ handle[NextVar] = NULL
      /\ pc' = IF loop.byKind THEN "by_kind" ELSE "yield"
      /\ UNCHANGED <<loop, expected, visited>>
      /\ expected = GreenKids(handle[ParentVar], loop.casts)
  BY DEF First, Goto, Calm, Going, Begins
<1>2. PICK p \in Reds : p = handle[ParentVar] /\ red[p].rc > 0 /\ red[p].green \in Greens
  BY VarsAre, Refers DEF First, Goto, Calm, Going
<1>3. PICK s \in Seq(Greens) : s = heap[red[p].green].kids /\ From(s, 0 + 1) = s
  <2>1. heap[red[p].green].kids \in Seq(Greens)
    BY <1>1, <1>2 DEF GreenInv, Stored, HeapType
  <2>2. 0 + 1 = 1
    OBVIOUS
  <2> QED BY <2>1, <2>2, FromFirst
<1>4. expected = visited \o Those(From(s, 0 + 1), loop.casts)
  <2>1. expected = Those(s, loop.casts)
    BY <1>1, <1>2, <1>3 DEF GreenKids
  <2>2. Those(s, loop.casts) \in Seq(Greens)
    BY ThoseIs
  <2> QED BY <1>1, <1>3, <2>1, <2>2
<1>5. PICK K : K = loop.kinds /\ loop.casts \subseteq K /\ loop.byKind \in BOOLEAN /\ (loop.byKind => loop.casts = K)
  BY <1>1, LoopIs
<1>6. Asks(p, 0, K) = Wanted(p, K)
  BY <1>1, <1>2 DEF Asks, Wanted, Slots
<1>7. CASE FirstChild(ParentVar, K, NextVar)
  <2>1. TreeInv' /\ GreenInv'
    BY <1>1, <1>7, VarsAre, NavigateCursor
  <2>2. PICK i \in Lowest(Wanted(p, K)) : NewChild(p, i, NextVar)
    BY <1>2, <1>7 DEF FirstChild
  <2>3. PICK c \in Reds : /\ IsChild(p, i, c) /\ red' = WithChild(p, i, c)
                          /\ handle' = [handle EXCEPT ![NextVar] = c]
                          /\ UNCHANGED <<heap, spine, todo, stolen>>
    BY <2>2 DEF NewChild
  <2>4. /\ Passes(p, 0, i, K) /\ heap[Kid(heap, red[p].green, i)].kind \in K
        /\ Sits(p, i, c)
    <3>1. Alike(red', WithChild(p, i, c))
      BY <2>3 DEF Alike
    <3>2. spine.node = NULL
      BY <1>1, IdleHolds
    <3>3. Sits(p, i, c)
      BY <1>1, <1>2, <2>3, <3>1, <3>2, ChildSits
    <3> QED BY <1>1, <1>2, <1>6, <3>3, AskedPasses
  <2>5. Reached(c, 0)' /\ (loop.byKind => Casts(c)')
    <3>1. expected' = visited' \o Those(From(heap[red[p].green].kids, 0 + 1), loop'.casts)
      BY <1>1, <1>3, <1>4
    <3>2. loop'.casts \subseteq K
      BY <1>1, <1>5
    <3>3. /\ Reached(c, 0)'
          /\ heap[Kid(heap, red[p].green, i)].kind \in loop'.casts => Casts(c)'
      BY <1>1, <2>4, <3>1, <3>2, Comes
    <3> QED BY <1>1, <1>5, <2>4, <3>3
  <2>6. handle'[NextVar] = c /\ handle'[ItemVar] = NULL
    <3>1. handle \in [Handles -> RedOrNull]
      BY <1>1, TreeIsForested DEF Forested, RefType
    <3> QED BY <1>1, <2>3, <3>1, VarsAre
  <2>7. Follows(NextVar, 0)' /\ (loop.byKind => Castable(NextVar)')
    BY <2>5, <2>6, FollowsNew
  <2>8. Going'
    BY <1>1, <1>5, <2>6, <2>7 DEF Going, Ready
  <2> QED BY <1>1, <2>1, <2>3, <2>8 DEF Calm
<1>8. CASE Wanted(p, K) = {} /\ UNCHANGED vars
  <2>1. TreeInv' /\ GreenInv'
    BY <1>1, <1>8, StepCursor
  <2>2. handle' = handle /\ todo' = todo /\ stolen' = stolen
    BY <1>8 DEF vars
  <2>3. Those(From(s, 0 + 1), loop.casts) = <<>>
    <3>1. 0 \in Nat /\ 0 <= Len(s)
      OBVIOUS
    <3> QED BY <1>1, <1>2, <1>3, <1>5, <1>6, <1>8, <3>1, NoneAsked
  <2>4. Follows(NextVar, 0)' /\ Castable(NextVar)'
    <3>1. expected' = visited' /\ visited' \in Seq(Greens) /\ handle'[NextVar] = NULL
      BY <1>1, <1>4, <2>2, <2>3
    <3> QED BY <3>1, FollowsNone
  <2>5. Going'
    BY <1>1, <1>5, <2>2, <2>4 DEF Going, Ready
  <2> QED BY <1>1, <2>1, <2>2, <2>5 DEF Calm
<1> QED BY <1>2, <1>5, <1>7, <1>8 DEF First

LEMMA LooksReached ==
  ASSUME TreeInv, GreenInv, Idle, stolen = NULL, Looks, NEW n \in Reds, red[n].parent # NULL,
         NEW k \in {0, 1}, expected' = visited' \o Rest(n, k, loop'.casts)
  PROVE  Reached(n, k)' /\ (heap[red[n].green].kind \in loop'.casts => Casts(n)')
<1>1. spine.node = NULL
  BY IdleHolds
<1>2. Still(n)
  BY <1>1, UserStill DEF Looks
<1> QED BY <1>2, StillReached

LEMMA LoopTyped ==
  ASSUME Calm, pc \notin {"tree", "iterator"}
  PROVE  /\ loop \in Loops /\ loop.byKind \in BOOLEAN /\ loop.casts \subseteq loop.kinds
         /\ loop.byKind => loop.casts = loop.kinds
         /\ handle \in [Handles -> RedOrNull]
<1>1. loop \in Loops
  BY DEF Calm, Going
<1> QED BY <1>1, LoopIs, TreeIsForested DEF Calm, Forested, RefType

LEMMA ConsumeCalm ==
  ASSUME Calm, Consume PROVE Calm'
<1>1. /\ TreeInv /\ GreenInv /\ stolen = NULL /\ todo = NoTodo /\ Idle
      /\ pc = "by_kind" /\ pc' = "yield" /\ Drop(ParentVar) /\ UNCHANGED <<loop, expected, visited>>
  BY DEF Calm, Consume, Goto, User
<1>2. handle[ItemVar] = NULL /\ loop.byKind /\ Ready
  BY <1>1 DEF Calm, Going
<1>3. /\ TreeInv' /\ GreenInv' /\ Looks
      /\ handle' = [handle EXCEPT ![ParentVar] = NULL]
  BY <1>1, VarsAre, DropLooks
<1>4. handle'[NextVar] = handle[NextVar] /\ handle'[ItemVar] = NULL
  BY <1>1, <1>2, <1>3, VarsAre, LoopTyped
<1>5. Ready'
  BY <1>1, <1>2, <1>3, <1>4, VarsAre, LooksFollow DEF Ready
<1>6. Going'
  BY <1>1, <1>2, <1>4, <1>5, LoopTyped DEF Going
<1> QED BY <1>1, <1>3, <1>6 DEF Calm, Looks

(* The child of the loop at "yield". *)
LEMMA NextChild ==
  ASSUME Calm, pc = "yield", handle[NextVar] # NULL
  PROVE  \E n \in Reds :
           /\ n = handle[NextVar] /\ Reached(n, 0) /\ red[n].parent # NULL
           /\ Casts(n) => /\ Append(visited, red[n].green) \in Seq(Greens)
                          /\ expected = Append(visited, red[n].green) \o Rest(n, 1, loop.casts)
           /\ ~ Casts(n) => expected = visited \o Rest(n, 1, loop.casts)
<1>1. PICK n \in Reds : n = handle[NextVar]
  BY VarsAre, Refers DEF Calm
<1>2. Reached(n, 0)
  <2>1. Follows(NextVar, 0)
    BY DEF Calm, Going, Ready
  <2> QED BY <1>1, <2>1 DEF Follows, RedOrNull
<1> QED BY <1>1, <1>2, Yielded DEF Calm

LEMMA PassOverCalm ==
  ASSUME Calm, PassOver PROVE Calm'
<1>1. /\ TreeInv /\ GreenInv /\ stolen = NULL /\ todo = NoTodo /\ Idle /\ ~ loop.byKind
      /\ pc = "yield" /\ pc' = "advance" /\ UNCHANGED <<vars, loop, expected, visited>>
      /\ handle[NextVar] # NULL /\ ~ Casts(handle[NextVar])
  BY DEF Calm, PassOver, Goto, User
<1>2. PICK n \in Reds : /\ n = handle[NextVar] /\ red[n].parent # NULL
                        /\ ~ Casts(n) => expected = visited \o Rest(n, 1, loop.casts)
  BY <1>1, NextChild
<1>3. /\ UNCHANGED <<red, heap, spine, todo, stolen, handle>>
  BY <1>1 DEF vars
<1>4. TreeInv' /\ GreenInv' /\ Looks
  BY <1>1, <1>3, StepCursor DEF Looks, Quiet, Keeps
<1>5. Reached(n, 1)'
  <2>1. expected' = visited' \o Rest(n, 1, loop'.casts)
    BY <1>1, <1>2
  <2> QED BY <1>1, <1>2, <1>4, <2>1, LooksReached
<1>6. Follows(NextVar, 1)' /\ handle'[NextVar] # NULL /\ handle'[ItemVar] = NULL
  <2>1. handle[ItemVar] = NULL
    BY <1>1 DEF Calm, Going
  <2> QED BY <1>1, <1>2, <1>3, <1>5, <2>1, FollowsNew
<1>7. Going'
  BY <1>1, <1>6, LoopTyped DEF Going, Resumes
<1> QED BY <1>1, <1>3, <1>4, <1>7 DEF Calm

LEMMA YieldCloneCalm ==
  ASSUME Calm, YieldClone PROVE Calm'
<1>1. /\ TreeInv /\ GreenInv /\ stolen = NULL /\ todo = NoTodo /\ Idle /\ ~ loop.byKind
      /\ pc = "yield" /\ pc' = "body" /\ UNCHANGED <<loop, expected>>
      /\ handle[NextVar] # NULL /\ Casts(handle[NextVar]) /\ Clone(NextVar, ItemVar)
      /\ visited' = Append(visited, red[handle[NextVar]].green)
  BY DEF Calm, YieldClone, Goto, Clone, User
<1>2. PICK n \in Reds : /\ n = handle[NextVar] /\ red[n].parent # NULL
                        /\ Casts(n) => /\ Append(visited, red[n].green) \in Seq(Greens)
                                       /\ expected = Append(visited, red[n].green) \o Rest(n, 1, loop.casts)
  BY <1>1, NextChild
<1>3. /\ TreeInv' /\ GreenInv' /\ Looks
      /\ handle' = [handle EXCEPT ![ItemVar] = handle[NextVar]]
  BY <1>1, VarsAre, CloneLooks
<1>4. visited' \in Seq(Greens) /\ expected' = visited' \o Rest(n, 1, loop'.casts)
  BY <1>1, <1>2
<1>5. Reached(n, 1)'
  BY <1>1, <1>2, <1>3, <1>4, LooksReached
<1>6. handle'[NextVar] = n /\ handle'[NextVar] # NULL
  BY <1>1, <1>2, <1>3, VarsAre, LoopTyped
<1>7. Follows(NextVar, 1)'
  BY <1>5, <1>6, FollowsNew
<1>8. Going'
  BY <1>1, <1>6, <1>7, LoopTyped DEF Going, Resumes
<1> QED BY <1>1, <1>3, <1>4, <1>8 DEF Calm, Looks

LEMMA YieldTakenCalm ==
  ASSUME Calm, YieldTaken PROVE Calm'
<1>1. /\ TreeInv /\ GreenInv /\ stolen = NULL /\ todo = NoTodo /\ Idle /\ loop.byKind /\ User
      /\ pc = "yield" /\ pc' = "ahead" /\ UNCHANGED <<loop, expected>>
      /\ handle[NextVar] # NULL
      /\ handle' = [handle EXCEPT ![ItemVar] = handle[NextVar], ![NextVar] = NULL]
      /\ visited' = Append(visited, red[handle[NextVar]].green)
      /\ UNCHANGED <<heap, kept, red, spine, dying, drops, todo, stolen, forgotten, edits>>
  BY DEF Calm, YieldTaken, Goto, User
<1>2. handle[ItemVar] = NULL /\ Casts(handle[NextVar])
  BY <1>1 DEF Calm, Going, Ready, Castable
<1>3. PICK n \in Reds : /\ n = handle[NextVar] /\ red[n].parent # NULL
                        /\ Casts(n) => /\ Append(visited, red[n].green) \in Seq(Greens)
                                       /\ expected = Append(visited, red[n].green) \o Rest(n, 1, loop.casts)
  BY <1>1, NextChild
<1>4. TreeInv' /\ GreenInv'
  <2>1. Shifts(ItemVar, NextVar)
    BY <1>1, <1>2, VarsAre DEF Shifts
  <2> QED BY <1>1, <2>1, VarsAre, ShiftCursor
<1>5. Looks
  BY <1>1 DEF Looks, Quiet, Keeps
<1>6. visited' \in Seq(Greens) /\ expected' = visited' \o Rest(n, 1, loop'.casts)
  BY <1>1, <1>2, <1>3
<1>7. Reached(n, 1)'
  BY <1>1, <1>3, <1>5, <1>6, LooksReached
<1>8. handle'[ItemVar] = n /\ handle'[ItemVar] # NULL /\ handle'[NextVar] = NULL
  BY <1>1, <1>3, VarsAre, LoopTyped
<1>9. Follows(ItemVar, 1)'
  BY <1>7, <1>8, FollowsNew
<1>10. Going'
  BY <1>1, <1>8, <1>9, LoopTyped DEF Going
<1> QED BY <1>1, <1>4, <1>6, <1>10 DEF Calm

(* What comes after a child. *)
LEMMA Onwards ==
  ASSUME TreeInv, GreenInv, Idle, stolen = NULL, NEW m \in Reds, red[m].parent # NULL
  PROVE  \E p \in Reds, a \in Nat :
           /\ p = red[m].parent /\ a = red[m].index + 1 /\ red[m].index \in Nat
           /\ red[p].rc > 0 /\ red[p].green \in Greens
           /\ a <= Len(heap[red[p].green].kids)
           /\ \A K : /\ After(m, K) = Asks(p, a, K)
                     /\ Rest(m, 1, K) = Those(From(heap[red[p].green].kids, a + 1), K)
                     /\ Rest(m, 0, K) = Those(From(heap[red[p].green].kids, a), K)
<1>1. PICK p \in Reds : p = red[m].parent /\ red[p].rc > 0 /\ red[p].green \in Greens
  BY ParentHasGreen DEF GreenInv
<1>2. spine.node = NULL /\ p # NULL /\ m # NULL
  BY IdleHolds, RedsAssumption
<1>3. Home(m) = heap[red[p].green].kids
  BY <1>1, <1>2 DEF Home, CurrentGreen
<1>4. PICK s \in Seq(Greens), j \in Nat : /\ s = heap[red[p].green].kids /\ j = red[m].index
                                          /\ j + 1 \in 1 .. Len(s)
  BY <1>3, HomeIs
<1>5. PICK a \in Nat : a = j + 1 /\ a <= Len(s) /\ a + 0 = a
  BY <1>4
<1>6. ASSUME NEW K
      PROVE  /\ After(m, K) = Asks(p, a, K)
             /\ Rest(m, 1, K) = Those(From(s, a + 1), K)
             /\ Rest(m, 0, K) = Those(From(s, a), K)
  <2>1. \A i \in Wanted(p, K) : i > j <=> i >= a
    <3> SUFFICES ASSUME NEW i \in Wanted(p, K) PROVE i > j <=> i >= a
      OBVIOUS
    <3>1. i \in Slots(heap, red[p].green)
      BY DEF Wanted
    <3>2. i \in Nat
      BY <1>4, <3>1 DEF Slots
    <3> QED BY <1>5, <3>2
  <2>2. After(m, K) = {i \in Wanted(p, K) : i > j}
    BY <1>1, <1>4 DEF After
  <2>3. Rest(m, 1, K) = Those(From(s, a + 1), K) /\ Rest(m, 0, K) = Those(From(s, a), K)
    BY <1>2, <1>3, <1>4, <1>5 DEF Rest
  <2> QED BY <2>1, <2>2, <2>3 DEF Asks
<1> QED BY <1>1, <1>4, <1>5, <1>6

LEMMA FollowsOn ==
  ASSUME TreeInv, GreenInv, Idle, stolen = NULL, NEW m \in Reds, red[m].parent # NULL,
         NEW K, NEW i \in Lowest(After(m, K)), NEW c, Sits(red[m].parent, i, c),
         loop'.casts \subseteq K, expected' = visited' \o Rest(m, 1, loop'.casts)
  PROVE  /\ Reached(c, 0)' /\ c \in Reds
         /\ K \subseteq loop'.casts => Casts(c)'
         /\ red'[c].parent = red[m].parent /\ red'[c].index > red[m].index
<1>1. PICK p \in Reds, a \in Nat :
        /\ p = red[m].parent /\ a = red[m].index + 1 /\ red[m].index \in Nat
        /\ red[p].rc > 0
        /\ \A C : /\ After(m, C) = Asks(p, a, C)
                  /\ Rest(m, 1, C) = Those(From(heap[red[p].green].kids, a + 1), C)
  BY Onwards
<1>2. Passes(p, a, i, K) /\ heap[Kid(heap, red[p].green, i)].kind \in K
  BY <1>1, AskedPasses
<1>3. expected' = visited' \o Those(From(heap[red[p].green].kids, a + 1), loop'.casts)
  <2>1. PICK C : C = loop'.casts
    OBVIOUS
  <2> QED BY <1>1, <2>1
<1>4. /\ Reached(c, 0)'
      /\ heap[Kid(heap, red[p].green, i)].kind \in loop'.casts => Casts(c)'
  BY <1>1, <1>2, <1>3, Comes
<1>5. c \in Reds /\ red'[c].parent = p /\ red'[c].index = i
  BY <1>1 DEF Sits
<1>6. i > red[m].index
  BY DEF Lowest, After
<1> QED BY <1>1, <1>2, <1>4, <1>5, <1>6

LEMMA NoneFollows ==
  ASSUME TreeInv, GreenInv, Idle, stolen = NULL, NEW m \in Reds, red[m].parent # NULL,
         NEW K, After(m, K) = {}, NEW C \in SUBSET K
  PROVE  Rest(m, 1, C) = <<>>
<1>1. PICK p \in Reds, a \in Nat :
        /\ red[p].green \in Greens /\ a <= Len(heap[red[p].green].kids)
        /\ \A D : /\ After(m, D) = Asks(p, a, D)
                  /\ Rest(m, 1, D) = Those(From(heap[red[p].green].kids, a + 1), D)
  BY Onwards
<1>2. Asks(p, a, K) = {}
  BY <1>1
<1>3. Those(From(heap[red[p].green].kids, a + 1), C) = <<>>
  BY <1>1, <1>2, NoneAsked
<1> QED BY <1>1, <1>3

(* The red that is released after a child was asked for does not matter. *)
LEMMA HopSits ==
  ASSUME TreeInv, GreenInv, Idle, stolen = NULL, NEW p \in Reds, red[p].rc > 0, NEW i,
         NEW c \in Reds, IsChild(p, i, c), NEW n \in Reds, red[n] # FreeRed,
         Release(WithChild(p, i, c), n), UNCHANGED <<heap, spine>>
  PROVE  Sits(p, i, c)
<1>1. Forested /\ spine.node = NULL
  BY TreeIsForested, IdleHolds
<1>2. /\ DOMAIN WithChild(p, i, c) = Reds
      /\ \A m \in Reds : DOMAIN WithChild(p, i, c)[m] = DOMAIN FreeRed
  BY <1>1, WithChildFields
<1>3. Alike(red', WithChild(p, i, c))
  BY <1>2, ReleaseAlike
<1> QED BY <1>1, <1>3, ChildSits

(* The element a variable of the loop follows. *)
LEMMA FollowedChild ==
  ASSUME TreeInv, GreenInv, NEW h \in Handles, NEW k, handle[h] # NULL, Follows(h, k)
  PROVE  \E m \in Reds : /\ m = handle[h] /\ red[m].parent # NULL /\ Under(m) /\ red[m].rc > 0
                         /\ red[m] # FreeRed /\ expected = visited \o Rest(m, k, loop.casts)
<1>1. PICK m \in Reds : m = handle[h] /\ red[m].rc > 0 /\ red[m] # FreeRed
  BY Refers
<1>2. Reached(m, k)
  BY <1>1 DEF Follows, RedOrNull
<1> QED BY <1>1, <1>2, RedsAssumption DEF Reached, Under

LEMMA LookAheadCalm ==
  ASSUME Calm, LookAhead PROVE Calm'
<1>1. /\ TreeInv /\ GreenInv /\ stolen = NULL /\ todo = NoTodo /\ visited \in Seq(Greens) /\ Idle
      /\ pc = "ahead" /\ pc' = "body" /\ UNCHANGED <<loop, expected, visited>>
      /\ loop.byKind /\ handle[NextVar] = NULL /\ handle[ItemVar] # NULL /\ Follows(ItemVar, 1)
  BY DEF Calm, Going, LookAhead, Goto, NextSibling, User
<1>2. PICK m \in Reds : /\ m = handle[ItemVar] /\ red[m].parent # NULL /\ Under(m) /\ red[m].rc > 0
                        /\ expected = visited \o Rest(m, 1, loop.casts)
  BY <1>1, VarsAre, FollowedChild
<1>3. PICK K : K = loop.kinds /\ loop.casts = K /\ loop.byKind = TRUE /\ loop \in Loops
  BY <1>1, LoopTyped
<1>4. handle \in [Handles -> RedOrNull]
  BY <1>1, LoopTyped
<1>5. CASE NextSibling(ItemVar, K, NextVar)
  <2>1. TreeInv' /\ GreenInv'
    BY <1>1, <1>5, VarsAre, NavigateCursor
  <2>2. PICK i \in Lowest(After(m, K)) : NewChild(red[m].parent, i, NextVar)
    BY <1>2, <1>5 DEF NextSibling
  <2>3. PICK p \in Reds : p = red[m].parent /\ red[p].rc > 0
    BY <1>1, <1>2, Onwards
  <2>4. PICK c \in Reds : /\ IsChild(p, i, c) /\ red' = WithChild(p, i, c)
                          /\ handle' = [handle EXCEPT ![NextVar] = c]
                          /\ UNCHANGED <<heap, spine, todo, stolen>>
    BY <2>2, <2>3 DEF NewChild
  <2>5. Sits(p, i, c)
    <3>1. Alike(red', WithChild(p, i, c))
      BY <2>4 DEF Alike
    <3>2. spine.node = NULL
      BY <1>1, IdleHolds
    <3> QED BY <1>1, <2>3, <2>4, <3>1, <3>2, ChildSits
  <2>6. /\ Reached(c, 0)' /\ Casts(c)'
        /\ red'[c].parent = red[m].parent /\ red'[c].index > red[m].index
    <3>1. expected' = visited' \o Rest(m, 1, loop'.casts) /\ loop'.casts \subseteq K /\ K \subseteq loop'.casts
      BY <1>1, <1>2, <1>3
    <3>2. Sits(red[m].parent, i, c)
      BY <2>3, <2>5
    <3>3. TreeInv /\ GreenInv /\ Idle /\ stolen = NULL /\ red[m].parent # NULL
      BY <1>1, <1>2
    <3>4. /\ Reached(c, 0)' /\ (K \subseteq loop'.casts => Casts(c)')
          /\ red'[c].parent = red[m].parent /\ red'[c].index > red[m].index
      BY <3>1, <3>2, <3>3, FollowsOn
    <3> QED BY <3>1, <3>4
  <2>7. handle'[NextVar] = c /\ handle'[ItemVar] = m /\ c # NULL
    BY <1>2, <1>4, <2>4, VarsAre, RedsAssumption
  <2>8. Ready'
    BY <2>6, <2>7, FollowsNew DEF Ready
  <2>9. red'[m].parent = red[m].parent /\ red'[m].index = red[m].index
    <3>1. Forested /\ spine.node = NULL
      BY <1>1, TreeIsForested, IdleHolds
    <3>2. Quiet(red') \/ \E d : MakesChild(red', d, p, i, Kid(heap, red[p].green, i))
      BY <2>2, <2>3, <3>1, NewChildMade
    <3>3. Still(m)
      BY <1>1, <1>2, <2>4, <3>1, <3>2, UserStill
    <3> QED BY <3>3 DEF Still
  <2>10. Behind(handle[NextVar], handle[ItemVar])'
    BY <2>6, <2>7, <2>9 DEF Behind
  <2>11. Going'
    BY <1>1, <1>3, <2>8, <2>10 DEF Going, Resumes
  <2> QED BY <1>1, <2>1, <2>4, <2>11 DEF Calm
<1>6. CASE After(m, K) = {} /\ UNCHANGED vars
  <2>1. TreeInv' /\ GreenInv' /\ handle' = handle /\ todo' = todo /\ stolen' = stolen
    BY <1>1, <1>6, StepCursor DEF vars
  <2>2. Rest(m, 1, loop.casts) = <<>>
    <3>1. loop.casts \in SUBSET K
      BY <1>3
    <3> QED BY <1>1, <1>2, <1>6, <3>1, NoneFollows
  <2>3. Ready'
    <3>1. expected' = visited' /\ visited' \in Seq(Greens) /\ handle'[NextVar] = NULL
      BY <1>1, <1>2, <2>1, <2>2
    <3> QED BY <3>1, FollowsNone DEF Ready
  <2>4. Going'
    BY <1>1, <1>3, <2>1, <2>3 DEF Going, Resumes
  <2> QED BY <1>1, <2>1, <2>4 DEF Calm
<1> QED BY <1>2, <1>3, <1>5, <1>6 DEF LookAhead

(* to_next_sibling: the variable moves on to the next child, or to none. *)
LEMMA StepsOn ==
  ASSUME TreeInv, GreenInv, Idle, stolen = NULL, visited' \in Seq(Greens),
         NEW h \in Handles, NEW m \in Reds, m = handle[h], red[m].parent # NULL,
         red[m].rc > 0, red[m] # FreeRed, NEW K, ToNextSibling(h, K),
         loop'.casts \subseteq K, expected' = visited' \o Rest(m, 1, loop'.casts)
  PROVE  /\ TreeInv' /\ GreenInv' /\ UNCHANGED <<todo, stolen>>
         /\ Follows(h, 0)'
         /\ \A g \in Handles : g # h => handle'[g] = handle[g]
<1>1. TreeInv' /\ GreenInv'
  BY ToNextSiblingCursor
<1>2. handle \in [Handles -> RedOrNull] /\ Forested
  BY TreeIsForested DEF Forested, RefType
<1>3. PICK p \in Reds : p = red[m].parent /\ red[p].rc > 0
  BY Onwards
<1>4. CASE StepShared(h, K)
  <2>1. PICK i \in Lowest(After(m, K)), c \in Reds :
          /\ IsChild(p, i, c) /\ handle' = [handle EXCEPT ![h] = c]
          /\ Release(WithChild(p, i, c), m) /\ UNCHANGED <<heap, spine, todo, stolen>>
    BY <1>3, <1>4 DEF StepShared
  <2>2. Sits(red[m].parent, i, c)
    BY <1>3, <2>1, HopSits
  <2>3. Reached(c, 0)'
    BY <2>2, FollowsOn
  <2>4. handle'[h] = c /\ \A g \in Handles : g # h => handle'[g] = handle[g]
    BY <1>2, <2>1
  <2> QED BY <1>1, <2>1, <2>3, <2>4, FollowsNew
<1>5. CASE StepInPlace(h, K)
  <2>1. /\ UNCHANGED <<heap, handle, spine, todo, stolen>>
        /\ \E i \in Lowest(After(m, K)) :
             red' = [red EXCEPT ![m].index = i,
                                ![m].offset = ChildOffset(p, i),
                                ![m].green = Kid(heap, red[p].green, i)]
    BY <1>3, <1>5 DEF StepInPlace
  <2>2. PICK i \in Lowest(After(m, K)) :
             red' = [red EXCEPT ![m].index = i,
                                ![m].offset = ChildOffset(p, i),
                                ![m].green = Kid(heap, red[p].green, i)]
    BY <2>1
  <2>3. p # m
    <3>1. {m} \in SUBSET Reds /\ {m} # {}
      OBVIOUS
    <3>2. PICK k \in {m} : red[k].parent \notin {m}
      BY <1>2, <3>1 DEF Forested, Acyclic
    <3> QED BY <1>3, <3>2
  <2>4. Sits(red[m].parent, i, m)
    BY <1>2, <1>3, <2>1, <2>2, <2>3 DEF Sits, Forested, RefType, FreeRed
  <2>5. Reached(m, 0)'
    BY <2>2, <2>4, FollowsOn
  <2> QED BY <1>1, <2>1, <2>5, FollowsNew
<1>6. CASE StepOffEnd(h, K)
  <2>1. /\ After(m, K) = {} /\ handle' = [handle EXCEPT ![h] = NULL]
        /\ UNCHANGED <<todo, stolen>>
    BY <1>6 DEF StepOffEnd
  <2>2. PICK C \in SUBSET K : C = loop'.casts
    OBVIOUS
  <2>3. Rest(m, 1, C) = <<>>
    BY <2>1, NoneFollows
  <2>4. expected' = visited' /\ handle'[h] = NULL /\ \A g \in Handles : g # h => handle'[g] = handle[g]
    BY <1>2, <2>1, <2>2, <2>3
  <2> QED BY <1>1, <2>1, <2>4, FollowsNone
<1>7. ~ StepOffRoot(h, K)
  BY DEF StepOffRoot
<1> QED BY <1>4, <1>5, <1>6, <1>7 DEF ToNextSibling

LEMMA AdvanceCalm ==
  ASSUME Calm, Advance PROVE Calm'
<1>1. /\ TreeInv /\ GreenInv /\ stolen = NULL /\ todo = NoTodo /\ visited \in Seq(Greens) /\ Idle
      /\ pc = "advance" /\ pc' = "yield" /\ UNCHANGED <<loop, expected, visited>>
      /\ handle[ItemVar] = NULL /\ Resumes
  BY DEF Calm, Going, Advance, Goto, ToNextSibling, StepShared, StepInPlace, StepOffEnd,
         StepOffRoot, User
<1>2. /\ loop \in Loops /\ loop.byKind \in BOOLEAN /\ loop.casts \subseteq loop.kinds
      /\ handle \in [Handles -> RedOrNull]
  BY <1>1, LoopTyped
<1>3. CASE loop.byKind /\ UNCHANGED vars
  <2>1. TreeInv' /\ GreenInv' /\ handle' = handle /\ todo' = todo /\ stolen' = stolen
    BY <1>1, <1>3, StepCursor DEF vars
  <2>2. Looks
    BY <1>3 DEF Looks, Quiet, Keeps, vars
  <2>3. Ready'
    <3>1. Follows(NextVar, 0) /\ Castable(NextVar) /\ handle'[NextVar] = handle[NextVar]
      BY <1>1, <1>3, <2>1 DEF Resumes, Ready
    <3> QED BY <1>1, <2>2, <3>1, VarsAre, LooksFollow DEF Ready
  <2>4. Going'
    BY <1>1, <1>2, <1>3, <2>1, <2>3 DEF Going
  <2> QED BY <1>1, <2>1, <2>4 DEF Calm
<1>4. CASE ~ loop.byKind /\ ToNextSibling(NextVar, loop.kinds)
  <2>1. handle[NextVar] # NULL /\ Follows(NextVar, 1)
    BY <1>1, <1>4 DEF Resumes
  <2>2. PICK m \in Reds : /\ m = handle[NextVar] /\ red[m].parent # NULL /\ red[m].rc > 0
                          /\ red[m] # FreeRed /\ expected = visited \o Rest(m, 1, loop.casts)
    BY <1>1, <2>1, VarsAre, FollowedChild
  <2>3. PICK K : K = loop.kinds
    OBVIOUS
  <2>4. /\ visited' \in Seq(Greens) /\ loop'.casts \subseteq K
        /\ expected' = visited' \o Rest(m, 1, loop'.casts) /\ ToNextSibling(NextVar, K)
    BY <1>1, <1>2, <1>4, <2>2, <2>3
  <2>5. /\ TreeInv' /\ GreenInv' /\ UNCHANGED <<todo, stolen>>
        /\ Follows(NextVar, 0)'
        /\ \A g \in Handles : g # NextVar => handle'[g] = handle[g]
    BY <1>1, <2>2, <2>4, VarsAre, StepsOn
  <2>6. handle'[ItemVar] = NULL
    BY <1>1, <2>5, VarsAre
  <2>7. Going'
    BY <1>1, <1>2, <1>4, <2>5, <2>6 DEF Going
  <2> QED BY <1>1, <2>5, <2>7 DEF Calm
<1> QED BY <1>3, <1>4 DEF Advance

LEMMA FinishCalm ==
  ASSUME Calm, Finish PROVE Calm'
<1>1. /\ TreeInv /\ GreenInv /\ stolen = NULL /\ todo = NoTodo /\ visited \in Seq(Greens) /\ Idle
      /\ pc = "yield" /\ pc' = "done" /\ UNCHANGED <<loop, expected, visited>>
      /\ handle[NextVar] = NULL
  BY DEF Calm, Finish, Goto, User
<1>2. Follows(NextVar, 0)
  BY <1>1 DEF Calm, Going, Ready
<1>3. visited = expected
  <2>1. Reached(NULL, 0)
    BY <1>1, <1>2 DEF Follows, RedOrNull
  <2>2. expected = visited \o <<>>
    BY <2>1 DEF Reached, Rest
  <2>3. visited \o <<>> = visited
    BY <1>1
  <2> QED BY <2>2, <2>3
<1>4. TreeInv' /\ GreenInv' /\ UNCHANGED <<todo, stolen>>
  <2>1. CASE UNCHANGED vars
    BY <1>1, <2>1, StepCursor DEF vars
  <2>2. CASE Drop(ParentVar)
    BY <1>1, <2>2, VarsAre, DropLooks DEF Looks
  <2> QED BY <2>1, <2>2 DEF Finish
<1>5. Going'
  BY <1>1, <1>3, LoopTyped DEF Going
<1> QED BY <1>1, <1>4, <1>5 DEF Calm

LEMMA BodyDropCalm ==
  ASSUME Calm, BodyDrop PROVE Calm'
<1>1. /\ TreeInv /\ GreenInv /\ stolen = NULL /\ todo = NoTodo /\ visited \in Seq(Greens) /\ Idle
      /\ pc \in {"body", "end of body"} /\ pc' = "advance" /\ UNCHANGED <<loop, expected, visited>>
      /\ Drop(ItemVar)
  BY DEF Calm, BodyDrop, Goto, User
<1>2. loop \in Loops /\ loop.byKind \in BOOLEAN /\ handle \in [Handles -> RedOrNull]
  BY <1>1, LoopTyped
<1>3. TreeInv' /\ GreenInv' /\ Looks /\ handle' = [handle EXCEPT ![ItemVar] = NULL]
  BY <1>1, VarsAre, DropLooks
<1>4. handle'[ItemVar] = NULL /\ handle'[NextVar] = handle[NextVar]
  BY <1>2, <1>3, VarsAre
<1>5. Resumes
  BY <1>1 DEF Calm, Going, Resumes
<1>6. Resumes'
  <2>1. CASE loop.byKind
    <3>1. Follows(NextVar, 0) /\ Castable(NextVar)
      BY <1>5, <2>1 DEF Resumes, Ready
    <3>2. Follows(NextVar, 0)' /\ Castable(NextVar)'
      BY <1>1, <1>3, <1>4, <3>1, VarsAre, LooksFollow
    <3> QED BY <1>1, <2>1, <3>2 DEF Resumes, Ready
  <2>2. CASE ~ loop.byKind
    <3>1. Follows(NextVar, 1) /\ handle[NextVar] # NULL
      BY <1>5, <2>2 DEF Resumes
    <3>2. Follows(NextVar, 1)'
      BY <1>1, <1>3, <1>4, <3>1, VarsAre, LooksFollow
    <3> QED BY <1>1, <1>4, <2>2, <3>1, <3>2 DEF Resumes
  <2> QED BY <2>1, <2>2
<1>7. Going'
  BY <1>1, <1>2, <1>4, <1>6 DEF Going
<1> QED BY <1>1, <1>3, <1>7 DEF Calm, Looks

LEMMA BodyKeepCalm ==
  ASSUME Calm, NEW h \in KeptVars, BodyKeep(h) PROVE Calm'
<1>1. /\ TreeInv /\ GreenInv /\ stolen = NULL /\ todo = NoTodo /\ visited \in Seq(Greens) /\ User
      /\ pc = "body" /\ pc' = "advance" /\ UNCHANGED <<loop, expected, visited>>
      /\ handle' = [handle EXCEPT ![h] = handle[ItemVar], ![ItemVar] = NULL]
      /\ UNCHANGED <<heap, kept, spine, drops, todo, stolen, forgotten, edits>>
  BY DEF Calm, BodyKeep, Goto, Keep, User
<1>2. loop \in Loops /\ loop.byKind \in BOOLEAN /\ handle \in [Handles -> RedOrNull]
  BY <1>1, LoopTyped
<1>3. Shifts(h, ItemVar)
  BY <1>1, VarsAre DEF Shifts, BodyKeep, Keep
<1>4. TreeInv' /\ GreenInv' /\ Looks
  <2>1. TreeInv' /\ GreenInv'
    BY <1>1, <1>3, VarsAre, ShiftCursor
  <2>2. Quiet(red')
    BY <1>1, <1>3, VarsAre, ShiftQuiet, TreeIsForested
  <2> QED BY <1>1, <2>1, <2>2 DEF Looks
<1>5. handle'[ItemVar] = NULL /\ handle'[NextVar] = handle[NextVar]
  BY <1>1, <1>2, VarsAre
<1>6. Resumes /\ Idle
  BY <1>1 DEF Calm, Going, User
<1>7. Resumes'
  <2>1. CASE loop.byKind
    <3>1. Follows(NextVar, 0) /\ Castable(NextVar)
      BY <1>6, <2>1 DEF Resumes, Ready
    <3>2. Follows(NextVar, 0)' /\ Castable(NextVar)'
      BY <1>1, <1>4, <1>5, <1>6, <3>1, VarsAre, LooksFollow
    <3> QED BY <1>1, <2>1, <3>2 DEF Resumes, Ready
  <2>2. CASE ~ loop.byKind
    <3>1. Follows(NextVar, 1) /\ handle[NextVar] # NULL
      BY <1>6, <2>2 DEF Resumes
    <3>2. Follows(NextVar, 1)'
      BY <1>1, <1>4, <1>5, <1>6, <3>1, VarsAre, LooksFollow
    <3> QED BY <1>1, <1>5, <2>2, <3>1, <3>2 DEF Resumes
  <2> QED BY <2>1, <2>2
<1>8. Going'
  BY <1>1, <1>2, <1>5, <1>7 DEF Going
<1> QED BY <1>1, <1>4, <1>8 DEF Calm

LEMMA ByKindCalm ==
  ASSUME Calm, ByKind PROVE Calm'
<1>1. /\ TreeInv /\ GreenInv /\ stolen = NULL /\ todo = NoTodo /\ Idle /\ User
      /\ pc = "advance" /\ pc' = "by_kind" /\ visited' = <<>> /\ ~ loop.byKind
      /\ handle[ItemVar] = NULL /\ handle[NextVar] # NULL /\ Follows(NextVar, 1)
      /\ UNCHANGED <<heap, kept, spine, drops, todo, stolen, forgotten, edits>>
  BY DEF Calm, Going, ByKind, Goto, User, Resumes
<1>2. loop' \in Loops /\ loop'.byKind
  BY DEF ByKind
<1>3. PICK n \in Reds : /\ n = handle[NextVar] /\ red[n].parent # NULL /\ red[n].rc > 0 /\ red[n] # FreeRed
  BY <1>1, VarsAre, FollowedChild
<1>4. PICK p \in Reds, a \in Nat :
        /\ p = red[n].parent /\ a = red[n].index + 1 /\ red[n].index \in Nat /\ red[p].rc > 0
        /\ \A C : Rest(n, 0, C) = Those(From(heap[red[p].green].kids, a), C)
  BY <1>1, <1>3, Onwards
<1>5. PICK K : K = loop'.kinds /\ loop'.casts = K
  BY <1>2, LoopIs
<1>6. handle \in [Handles -> RedOrNull]
  BY <1>1, TreeIsForested DEF Forested, RefType
<1>7. expected' = Rest(n, 0, K)
  <2>1. expected' = Those(SubSeq(heap[red[p].green].kids, red[n].index + 1, Len(heap[red[p].green].kids)), K)
    BY <1>3, <1>4, <1>5 DEF ByKind
  <2> QED BY <1>4, <2>1 DEF From
<1>8. /\ Rest(n, 0, K) = Pick(red[n].green, K) \o Rest(n, 1, K)
      /\ Rest(n, 0, K) \in Seq(Greens) /\ Rest(n, 1, K) \in Seq(Greens)
  BY <1>1, <1>3, RestIs
<1>9. ASSUME heap[red[n].green].kind \notin K
      PROVE  StartsFrom(n, K) = After(n, K) /\ expected' = Rest(n, 1, K)
  <2>1. Pick(red[n].green, K) = <<>>
    BY <1>9 DEF Pick
  <2>2. <<>> \o Rest(n, 1, K) = Rest(n, 1, K)
    BY <1>8
  <2> QED BY <1>7, <1>8, <1>9, <2>1, <2>2 DEF StartsFrom
<1>10. red[n].index \notin After(n, K)
  BY <1>4 DEF After
<1>11. SUFFICES TreeInv' /\ GreenInv' /\ handle'[ItemVar] = NULL /\ Ready'
  <2>1. Going'
    BY <1>1, <1>2, <1>11 DEF Going
  <2>2. visited' \in Seq(Greens)
    BY <1>1
  <2> QED BY <1>1, <1>11, <2>1, <2>2 DEF Calm
<1>12. CASE StartsFrom(n, K) = {red[n].index} /\ UNCHANGED <<red, handle, dying>>
  <2>1. heap[red[n].green].kind \in K
    BY <1>9, <1>10, <1>12
  <2>2. TreeInv' /\ GreenInv' /\ Looks
    <3>1. UNCHANGED vars
      BY <1>1, <1>12 DEF vars
    <3>2. Looks
      BY <1>1, <1>12 DEF Looks, Quiet, Keeps
    <3> QED BY <1>1, <3>1, <3>2, StepCursor
  <2>3. expected' = visited' \o Rest(n, 0, loop'.casts)
    BY <1>1, <1>5, <1>7, <1>8
  <2>4. Reached(n, 0)' /\ Casts(n)'
    BY <1>1, <1>3, <1>5, <2>1, <2>2, <2>3, LooksReached
  <2>5. handle'[NextVar] = n /\ handle'[ItemVar] = NULL
    BY <1>1, <1>3, <1>12
  <2> QED BY <2>2, <2>4, <2>5, FollowsNew DEF Ready
<1>13. ASSUME NEW i \in Lowest(StartsFrom(n, K) \ {red[n].index}), NEW c \in Reds,
              IsChild(p, i, c), handle' = [handle EXCEPT ![NextVar] = c],
              Release(WithChild(p, i, c), n)
       PROVE  TreeInv' /\ GreenInv' /\ handle'[ItemVar] = NULL /\ Ready'
  <2>1. heap[red[n].green].kind \notin K
    BY <1>13 DEF StartsFrom, Lowest
  <2>2. i \in Lowest(After(n, K)) /\ i \in After(n, K)
    BY <1>9, <1>10, <1>13, <2>1 DEF Lowest
  <2>3. Hops(NextVar, K)
    BY <1>1, <1>3, <1>4, <1>13, <2>2 DEF Hops
  <2>4. TreeInv' /\ GreenInv'
    BY <1>1, <2>3, VarsAre, HopCursor
  <2>5. Sits(p, i, c)
    BY <1>1, <1>3, <1>4, <1>13, HopSits
  <2>6. expected' = visited' \o Rest(n, 1, loop'.casts)
    BY <1>1, <1>5, <1>8, <1>9, <2>1
  <2>7. Reached(c, 0)' /\ Casts(c)'
    <3>1. Sits(red[n].parent, i, c) /\ loop'.casts \subseteq K /\ K \subseteq loop'.casts
      BY <1>4, <1>5, <2>5
    <3>2. Reached(c, 0)' /\ (K \subseteq loop'.casts => Casts(c)')
      BY <1>1, <1>3, <2>2, <2>6, <3>1, FollowsOn
    <3> QED BY <3>1, <3>2
  <2>8. handle'[NextVar] = c /\ handle'[ItemVar] = NULL
    BY <1>1, <1>6, <1>13, VarsAre
  <2> QED BY <2>4, <2>7, <2>8, FollowsNew DEF Ready
<1>14. CASE /\ StartsFrom(n, K) = {}
            /\ handle' = [handle EXCEPT ![NextVar] = NULL]
            /\ Release(red, n)
  <2>1. heap[red[n].green].kind \notin K
    BY <1>14 DEF StartsFrom
  <2>2. After(n, K) = {}
    BY <1>9, <1>14, <2>1
  <2>3. Drop(NextVar)
    BY <1>1, <1>3, <1>14 DEF Drop
  <2>4. TreeInv' /\ GreenInv'
    BY <1>1, <2>3, VarsAre, DropLooks
  <2>5. Rest(n, 1, K) = <<>>
    BY <1>1, <1>3, <2>2, NoneFollows
  <2>6. expected' = visited' /\ visited' \in Seq(Greens)
    BY <1>1, <1>9, <2>1, <2>5
  <2>7. handle'[NextVar] = NULL /\ handle'[ItemVar] = NULL
    BY <1>1, <1>6, <1>14, VarsAre
  <2> QED BY <2>4, <2>6, <2>7, FollowsNone DEF Ready
<1> QED BY <1>3, <1>4, <1>5, <1>12, <1>13, <1>14 DEF ByKind

(***************************************************************************)
(* A body that detaches its child needs an iterator that has looked ahead: *)
(* the others are left without the child they would step from.             *)
(***************************************************************************)
Gentle == \A l \in Loops : "detach" \in l.bodies => l.byKind

LEMMA BodyDetachCalm ==
  ASSUME Gentle, Calm, BodyDetach PROVE Calm'
<1>1. /\ TreeInv /\ GreenInv /\ stolen = NULL /\ todo = NoTodo /\ visited \in Seq(Greens)
      /\ pc = "body" /\ pc' = "end of body" /\ UNCHANGED <<loop, expected, visited>>
      /\ Detach(ItemVar)
  BY DEF Calm, BodyDetach, Goto
<1>2. loop \in Loops /\ loop.byKind
  BY <1>1, LoopTyped DEF Gentle, BodyDetach
<1>3. /\ handle[ItemVar] # NULL /\ UNCHANGED <<handle, todo, stolen>>
      /\ Follows(NextVar, 0) /\ Castable(NextVar)
      /\ handle[NextVar] # NULL => Behind(handle[NextVar], handle[ItemVar])
  BY <1>1, <1>2 DEF Detach, Calm, Going, Resumes, Ready
<1>4. TreeInv' /\ GreenInv'
  <2>1. [Next]_vars
    BY <1>1, VarsAre DEF Next, Operation
  <2> QED BY <1>1, <2>1, StepCursor
<1>5. Ready'
  <2>1. CASE handle[NextVar] = NULL
    <3>1. Reached(NULL, 0)
      BY <1>3, <2>1 DEF Follows, RedOrNull
    <3>2. expected = visited
      <4>1. expected = visited \o <<>>
        BY <3>1 DEF Reached, Rest
      <4>2. \A s \in Seq(Greens) : s \o <<>> = s
        OBVIOUS
      <4> QED BY <1>1, <4>1, <4>2
    <3>3. expected' = visited' /\ visited' \in Seq(Greens) /\ handle'[NextVar] = NULL
      BY <1>1, <1>3, <2>1, <3>2
    <3> QED BY <3>3, FollowsNone DEF Ready
  <2>2. CASE handle[NextVar] # NULL
    <3>1. PICK n \in Reds : /\ n = handle[NextVar] /\ expected = visited \o Rest(n, 0, loop.casts)
      BY <1>1, <1>3, <2>2, VarsAre, FollowedChild
    <3>2. PICK C : C = loop.casts
      OBVIOUS
    <3>3. red[n].parent = red[handle[ItemVar]].parent /\ red[n].index > red[handle[ItemVar]].index
      BY <1>3, <2>2, <3>1 DEF Behind
    <3>4. /\ Under(n)' /\ Rest(n, 0, C)' = Rest(n, 0, C)
          /\ heap'[red'[n].green].kind = heap[red[n].green].kind
      BY <1>1, <3>3, VarsAre, DetachRest
    <3>5. Rest(n, 0, loop.casts)' = Rest(n, 0, C)'
      BY <1>1, <3>2 DEF Rest, Those
    <3>6. Reached(n, 0)'
      BY <1>1, <3>1, <3>2, <3>4, <3>5 DEF Reached
    <3>7. Casts(n)'
      BY <1>1, <1>3, <2>2, <3>1, <3>4 DEF Castable, Casts
    <3>8. handle'[NextVar] = n
      BY <1>3, <3>1
    <3> QED BY <3>6, <3>7, <3>8, FollowsNew DEF Ready
  <2> QED BY <2>1, <2>2
<1>6. Going'
  BY <1>1, <1>2, <1>5 DEF Going
<1> QED BY <1>1, <1>3, <1>4, <1>6 DEF Calm

(* The loops that free reds and rebuild the path to the root go on. *)
LEMMA WorkFollows ==
  ASSUME TreeInv, GreenInv, stolen = NULL, todo = NoTodo, Loop, UNCHANGED <<loop, expected, visited>>,
         NEW h \in Handles, NEW k \in {0, 1}, Follows(h, k)
  PROVE  Follows(h, k)' /\ (Castable(h) => Castable(h)')
<1>1. handle' = handle /\ \A n \in Reds : Under(n) /\ red[n].rc > 0 => Still(n)
  BY LoopStill
<1> SUFFICES ASSUME NEW n \in Reds, n = handle[h] PROVE Still(n)
  BY <1>1, FollowsStill
<1>2. n # NULL
  BY RedsAssumption
<1>3. Under(n) /\ red[n].rc > 0
  BY <1>2, FollowedChild
<1> QED BY <1>1, <1>3

LEMMA NoLoopWhenIdle ==
  ASSUME Idle PROVE ~ Loop
BY IdleHolds DEF Idle, Loop, RespineStep, FreeStep, DropGreenStep, AttachLink, AttachPanic, AttachEnd,
   CloneStep, CloneEnd, ReplaceStep, ReplaceEnd

LEMMA WorkCalm ==
  ASSUME Calm, pc \in LoopPcs, Work PROVE Calm'
<1>1. /\ TreeInv /\ GreenInv /\ stolen = NULL /\ todo = NoTodo /\ visited \in Seq(Greens)
      /\ Loop /\ UNCHANGED <<pc, loop, expected, visited>> /\ Going
  BY DEF Calm, Work, loopVars
<1>2. pc \notin {"tree", "iterator", "first"}
  BY <1>1, NoLoopWhenIdle DEF Going, Begins
<1>3. stolen' = NULL /\ todo' = NoTodo /\ handle' = handle
      /\ \A n \in Reds : Under(n) /\ red[n].rc > 0 => Still(n)
  BY <1>1, LoopStill
<1>4. TreeInv' /\ GreenInv'
  BY <1>1, StepCursor DEF Next
<1>5. \A k \in {0, 1} : /\ Follows(NextVar, k) => Follows(NextVar, k)' /\ (Castable(NextVar) => Castable(NextVar)')
                        /\ Follows(ItemVar, k) => Follows(ItemVar, k)'
  BY <1>1, VarsAre, WorkFollows
<1>6. Ready => Ready'
  BY <1>5 DEF Ready
<1>7. Resumes => Resumes'
  BY <1>1, <1>3, <1>5, <1>6 DEF Resumes
<1>8. ASSUME pc = "body", loop.byKind, handle[NextVar] # NULL, handle[ItemVar] # NULL
      PROVE  Behind(handle[NextVar], handle[ItemVar])'
  <2>1. Behind(handle[NextVar], handle[ItemVar]) /\ Follows(NextVar, 0)
    BY <1>1, <1>8 DEF Going, Resumes, Ready
  <2>2. PICK n \in Reds : n = handle[NextVar] /\ Under(n) /\ red[n].rc > 0
    BY <1>1, <1>8, <2>1, VarsAre, FollowedChild
  <2>3. PICK m \in Reds : m = handle[ItemVar] /\ red[m].rc > 0
    BY <1>1, <1>8, VarsAre, Refers
  <2>4. red[n].parent = red[m].parent /\ red[n].index > red[m].index
    BY <2>1, <2>2, <2>3 DEF Behind
  <2>5. Under(m)
    BY <2>2, <2>4 DEF Under
  <2>6. Still(n) /\ Still(m)
    BY <1>3, <2>2, <2>3, <2>5
  <2> QED BY <1>3, <2>2, <2>3, <2>4, <2>6 DEF Still, Behind
<1>9. Going'
  BY <1>1, <1>2, <1>3, <1>5, <1>6, <1>7, <1>8 DEF Going
<1> QED BY <1>1, <1>3, <1>4, <1>9 DEF Calm

LEMMA LoopsCalm ==
  ASSUME Gentle, Calm, pc \in LoopPcs, LoopNext PROVE Calm'
<1>1. CASE \E h \in KeptVars : Look(h) \/ BodyKeep(h)
  BY <1>1, LookCalm, BodyKeepCalm
<1> QED BY <1>1, MakeTreeCalm, ChildrenCalm, FirstCalm, ByKindCalm, ConsumeCalm, YieldCloneCalm,
           PassOverCalm, YieldTakenCalm, LookAheadCalm, BodyDetachCalm, BodyDropCalm, AdvanceCalm,
           FinishCalm, WorkCalm DEF LoopNext

(* A client that walks does not come back to the loops. *)
LEMMA WalksAway ==
  ASSUME WalkNext, ~ LoopNext \/ pc \notin LoopPcs
  PROVE  pc' \notin LoopPcs
<1>1. CASE LoopNext /\ pc \notin LoopPcs
  BY <1>1 DEF LoopNext, LoopPcs, MakeTree, Children, First, ByKind, Consume, YieldClone, PassOver,
              YieldTaken, LookAhead, BodyDetach, BodyDrop, Advance, Finish, Look, BodyKeep, Work,
              Goto, loopVars
<1>2. CASE \E h \in KeptVars \cup {NodeVar}, K \in {NodeKinds, Kinds} : Begin(h, K)
  BY <1>2 DEF Begin, Goto, LoopPcs
<1>3. CASE SkipSubtree
  BY <1>3 DEF SkipSubtree, LoopPcs, loopVars
<1>4. CASE SkipUp \/ SkipNothing \/ SkipPanic
  BY <1>4 DEF SkipUp, SkipNothing, SkipPanic, Skipping, Goto, LoopPcs
<1>5. CASE EnterChild \/ EnterLeaf \/ LeaveStart \/ LeaveToSibling \/ LeaveToParent \/ LeaveRoot
  BY <1>5 DEF EnterChild, EnterLeaf, LeaveStart, LeaveToSibling, LeaveToParent, LeaveRoot, Hand, LoopPcs
<1>6. CASE Over \/ EventDetach \/ EventDrop
  BY <1>6 DEF Over, EventDetach, EventDrop, Goto, LoopPcs
<1>7. CASE \E h \in KeptVars : EventDetachOther(h) \/ EventKeep(h)
  BY <1>7 DEF EventDetachOther, EventKeep, Goto, LoopPcs
<1> QED BY <1>1, <1>2, <1>3, <1>4, <1>5, <1>6, <1>7 DEF WalkNext

LEMMA InitCalm == WalkInit => LoopInv
<1> SUFFICES ASSUME WalkInit PROVE LoopInv
  OBVIOUS
<1>1. /\ Init /\ pc = "tree" /\ expected = <<>> /\ visited = <<>>
  BY DEF WalkInit, LoopInit
<1>2. TreeInv /\ GreenInv
  BY <1>1, InitCursor
<1>3. /\ stolen = NULL /\ todo = NoTodo /\ Idle /\ handle[ItemVar] = NULL /\ handle[NextVar] = NULL
  BY <1>1, VarsAre DEF Init, Idle
<1>4. Going
  BY <1>1, <1>3 DEF Going, Begins
<1>5. visited \in Seq(Greens)
  BY <1>1
<1> QED BY <1>2, <1>3, <1>4, <1>5 DEF LoopInv, Calm

LEMMA StepCalm ==
  ASSUME Gentle, LoopInv, [WalkNext]_walkVars PROVE LoopInv'
<1>1. CASE UNCHANGED walkVars
  <2> SUFFICES ASSUME pc \in LoopPcs PROVE Calm'
    BY <1>1 DEF LoopInv, walkVars, loopVars
  <2>1. /\ TreeInv /\ GreenInv /\ UNCHANGED <<vars, pc, loop, expected, visited>>
    BY <1>1 DEF LoopInv, Calm, walkVars, loopVars
  <2>2. TreeInv' /\ GreenInv'
    BY <2>1, StepCursor
  <2>3. UNCHANGED <<heap, red, handle, spine, dying, drops, todo, stolen>>
    BY <2>1 DEF vars
  <2>4. Going'
    <3>1. Going
      BY DEF LoopInv, Calm
    <3>2. \A n, k, K : Rest(n, k, K)' = Rest(n, k, K)
      BY <2>3 DEF Rest, Home, CurrentGreen, Those
    <3>3. \A n : Under(n)' = Under(n) /\ Casts(n)' = Casts(n)
      BY <2>1, <2>3 DEF Under, Casts
    <3>4. \A n, k : Reached(n, k)' = Reached(n, k)
      BY <2>1, <3>2, <3>3 DEF Reached
    <3>5. \A h, k : Follows(h, k)' = Follows(h, k) /\ Castable(h)' = Castable(h)
      BY <2>3, <3>3, <3>4 DEF Follows, Castable
    <3>6. Ready' = Ready /\ Resumes' = Resumes
      BY <2>1, <2>3, <3>5 DEF Ready, Resumes
    <3>7. Begins' = Begins
      BY <2>1, <2>3 DEF Begins, Idle
    <3>8. GreenKids(handle[ParentVar], loop.casts)' = GreenKids(handle[ParentVar], loop.casts)
      BY <2>1, <2>3 DEF GreenKids, Those
    <3>9. Behind(handle[NextVar], handle[ItemVar])' = Behind(handle[NextVar], handle[ItemVar])
      BY <2>3 DEF Behind
    <3> QED BY <2>1, <2>3, <3>1, <3>5, <3>6, <3>7, <3>8, <3>9 DEF Going
  <2> QED BY <2>1, <2>2, <2>3, <2>4 DEF LoopInv, Calm
<1>2. CASE WalkNext /\ (~ LoopNext \/ pc \notin LoopPcs)
  BY <1>2, WalksAway DEF LoopInv
<1>3. CASE LoopNext /\ pc \in LoopPcs
  BY <1>3, LoopsCalm DEF LoopInv
<1> QED BY <1>1, <1>2, <1>3

(***************************************************************************)
(* When a loop ends, its body has seen every child of the sort the         *)
(* iterator yields once and in order, whatever it kept, dropped or         *)
(* detached on the way: SyntaxNodeChildren, SyntaxElementChildren, their   *)
(* ByKind variants and AstChildren (cursor.rs, ast.rs).  Only an iterator  *)
(* that looks ahead is run with a body that detaches.                      *)
(***************************************************************************)
THEOREM LoopsVisitAll == ASSUME Gentle PROVE WalkSpec => []VisitsAll
<1>1. LoopInv => VisitsAll
  BY DEF LoopInv, LoopPcs, Calm, Going, VisitsAll
<1>2. LoopInv /\ [WalkNext]_walkVars => LoopInv'
  BY StepCalm
<1> QED BY <1>1, <1>2, InitCalm, PTL DEF WalkSpec
=============================================================================

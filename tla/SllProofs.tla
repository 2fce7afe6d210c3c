------------------------------ MODULE SllProofs ------------------------------
(***************************************************************************)
(* The sorted linked list keeps its circle, never searches beyond the head *)
(* and implements the set of siblings, for any number of reds and parents. *)
(***************************************************************************)
EXTENDS Sll, TLAPS

ElemOrNull == Elems \cup {NULL}

-----------------------------------------------------------------------------
(***************************************************************************)
(* Circles.  L is a set of elements, h the head, nx and pv the pointers    *)
(* and k the keys.                                                         *)
(***************************************************************************)
RingOf(L, h, nx, pv) ==
  /\ h \in IF L = {} THEN {NULL} ELSE L
  /\ \A e \in L : nx[e] \in L /\ pv[nx[e]] = e /\ pv[e] \in L /\ nx[pv[e]] = e

(* The keys are distinct; the next element has the next key, the last one leads to the head. *)
SortedOf(L, h, nx, k) ==
  \A e, f \in L :
    /\ k[e] = k[f] => e = f
    /\ k[h] <= k[e]
    /\ nx[e] = h => k[f] <= k[e]
    /\ nx[e] # h => k[e] < k[nx[e]] /\ (k[e] < k[f] => k[nx[e]] <= k[f])

(* Only the pointers and keys of the elements matter. *)
LEMMA RingSame ==
  ASSUME NEW L, NEW h, NEW nx, NEW pv, NEW nx2, NEW pv2, RingOf(L, h, nx, pv),
         \A e \in L : nx2[e] = nx[e] /\ pv2[e] = pv[e]
  PROVE  RingOf(L, h, nx2, pv2)
BY DEF RingOf

LEMMA SortedSame ==
  ASSUME NEW L, NEW h, NEW nx, NEW k, NEW nx2, NEW k2, SortedOf(L, h, nx, k),
         L # {} => h \in L,
         \A e \in L : nx[e] \in L /\ nx2[e] = nx[e] /\ k2[e] = k[e]
  PROVE  SortedOf(L, h, nx2, k2)
<1> SUFFICES ASSUME NEW e \in L, NEW f \in L
             PROVE  /\ k2[e] = k2[f] => e = f
                    /\ k2[h] <= k2[e]
                    /\ nx2[e] = h => k2[f] <= k2[e]
                    /\ nx2[e] # h => k2[e] < k2[nx2[e]] /\ (k2[e] < k2[f] => k2[nx2[e]] <= k2[f])
  BY DEF SortedOf
<1>1. h \in L /\ nx[e] \in L
  OBVIOUS
<1> QED BY <1>1 DEF SortedOf

(* sll::unlink takes an element out of a circle. *)
LEMMA RingWithout ==
  ASSUME NEW L \in SUBSET Elems, NEW h, NEW nx \in [Elems -> ElemOrNull],
         NEW pv \in [Elems -> ElemOrNull], NEW k \in [Elems -> Int], NEW e \in L,
         RingOf(L, h, nx, pv), SortedOf(L, h, nx, k), NEW h2,
         h2 = IF h # e THEN h ELSE IF nx[e] = e THEN NULL ELSE nx[e]
  PROVE  RingOf(L \ {e}, h2, [nx EXCEPT ![e] = e, ![pv[e]] = nx[e]], [pv EXCEPT ![e] = e, ![nx[e]] = pv[e]])
<1> DEFINE n == nx[e]
           p == pv[e]
           nx2 == [nx EXCEPT ![e] = e, ![p] = n]
           pv2 == [pv EXCEPT ![e] = e, ![n] = p]
<1>1. n \in L /\ p \in L /\ nx[p] = e /\ pv[n] = e /\ h \in L /\ e \in Elems
  BY DEF RingOf
<1>2. CASE n = e
  <2>1. L = {e}
    <3> SUFFICES ASSUME NEW f \in L PROVE f = e
      OBVIOUS
    <3>1. nx[e] = h
      BY <1>1, <1>2 DEF SortedOf
    <3>2. k[f] <= k[e] /\ k[e] <= k[f] /\ k[e] \in Int /\ k[f] \in Int
      BY <1>1, <1>2, <3>1 DEF SortedOf
    <3> QED BY <3>2 DEF SortedOf
  <2> QED BY <1>1, <1>2, <2>1 DEF RingOf
<1>3. CASE n # e
  <2>1. p # e
    BY <1>1, <1>3
  <2>2. h2 \in L \ {e}
    BY <1>1, <1>3
  <2>3. ASSUME NEW f \in L \ {e}
        PROVE  nx2[f] \in L \ {e} /\ pv2[nx2[f]] = f /\ pv2[f] \in L \ {e} /\ nx2[pv2[f]] = f
    <3>1. nx2[f] = (IF f = p THEN n ELSE nx[f]) /\ pv2[f] = (IF f = n THEN p ELSE pv[f])
      BY <1>1
    <3>2. nx[f] \in L /\ pv[f] \in L /\ pv[nx[f]] = f /\ nx[pv[f]] = f
      BY DEF RingOf
    <3>3. f # p => nx[f] # e /\ nx[f] # n
      BY <1>1, <3>2
    <3>4. f # n => pv[f] # e /\ pv[f] # p
      BY <1>1, <3>2
    <3> QED BY <1>1, <1>3, <2>1, <3>1, <3>2, <3>3, <3>4
  <2> QED BY <2>2, <2>3 DEF RingOf
<1> QED BY <1>2, <1>3

LEMMA SortedWithout ==
  ASSUME NEW L \in SUBSET Elems, NEW h, NEW nx \in [Elems -> ElemOrNull],
         NEW pv \in [Elems -> ElemOrNull], NEW k \in [Elems -> Int], NEW e \in L,
         RingOf(L, h, nx, pv), SortedOf(L, h, nx, k), NEW h2,
         h2 = IF h # e THEN h ELSE IF nx[e] = e THEN NULL ELSE nx[e]
  PROVE  SortedOf(L \ {e}, h2, [nx EXCEPT ![e] = e, ![pv[e]] = nx[e]], k)
<1> DEFINE n == nx[e]
           p == pv[e]
           nx2 == [nx EXCEPT ![e] = e, ![p] = n]
<1> SUFFICES ASSUME NEW f \in L \ {e}, NEW g \in L \ {e}
             PROVE  /\ k[f] = k[g] => f = g
                    /\ k[h2] <= k[f]
                    /\ nx2[f] = h2 => k[g] <= k[f]
                    /\ nx2[f] # h2 => k[f] < k[nx2[f]] /\ (k[f] < k[g] => k[nx2[f]] <= k[g])
  BY DEF SortedOf
<1>1. n \in L /\ p \in L /\ nx[p] = e /\ h \in L /\ e \in Elems /\ nx[f] \in L /\ pv[nx[f]] = f
  BY DEF RingOf
<1>2. \A x \in L : k[x] \in Int
  OBVIOUS
<1>3. n # e
  <2> SUFFICES ASSUME n = e PROVE FALSE
    OBVIOUS
  <2>1. nx[e] = h
    BY <1>1, <1>2 DEF SortedOf
  <2>2. k[f] <= k[e] /\ k[e] <= k[f]
    BY <1>1, <2>1 DEF SortedOf
  <2> QED BY <1>2, <2>2 DEF SortedOf
<1>4. nx2[f] = IF f = p THEN n ELSE nx[f]
  BY <1>1
<1>5. f # p => nx[f] # e
  BY <1>1
<1>6. k[f] = k[g] => f = g
  BY DEF SortedOf
<1>7. h2 \in L \ {e} /\ k[h2] <= k[f]
  <2>1. CASE h # e
    BY <1>1, <2>1 DEF SortedOf
  <2>2. CASE h = e
    <3>1. h2 = n /\ k[e] <= k[f] /\ k[e] # k[f]
      BY <1>1, <1>3, <2>2 DEF SortedOf
    <3>2. k[e] < k[f]
      BY <1>2, <3>1
    <3> QED BY <1>1, <1>3, <2>2, <3>1, <3>2 DEF SortedOf
  <2> QED BY <2>1, <2>2
<1>8. CASE f # p
  <2>1. nx2[f] = nx[f] /\ nx[f] # e
    BY <1>4, <1>5, <1>8
  <2>2. CASE h # e
    BY <2>1, <2>2 DEF SortedOf
  <2>3. CASE h = e
    <3>1. h2 = n /\ nx[f] # h /\ pv[n] = e
      BY <1>3, <2>1, <2>3 DEF RingOf
    <3>2. nx[f] # n
      BY <1>1, <3>1
    <3> QED BY <2>1, <3>1, <3>2, <1>6, <1>7 DEF SortedOf
  <2> QED BY <2>2, <2>3, <1>6, <1>7
<1>9. CASE f = p
  <2>1. nx2[f] = n /\ nx[f] = e
    BY <1>1, <1>4, <1>9
  <2>2. CASE h = e
    BY <2>1, <2>2, <1>3, <1>6, <1>7 DEF SortedOf
  <2>3. CASE h # e
    <3>1. h2 = h /\ k[f] < k[e] /\ (k[f] < k[g] => k[e] <= k[g]) /\ k[e] # k[g]
      BY <2>1, <2>3 DEF SortedOf
    <3>2. CASE n = h
      <4>1. k[g] <= k[e]
        BY <3>2 DEF SortedOf
      <4> QED BY <2>1, <3>1, <3>2, <4>1, <1>2, <1>6, <1>7
    <3>3. CASE n # h
      <4>1. k[e] < k[n] /\ (k[e] < k[g] => k[n] <= k[g])
        BY <3>3 DEF SortedOf
      <4> QED BY <2>1, <3>1, <3>3, <4>1, <1>1, <1>2, <1>6, <1>7
    <3> QED BY <3>2, <3>3
  <2> QED BY <2>2, <2>3
<1> QED BY <1>8, <1>9

(***************************************************************************)
(* AddToSllResult::add_to_sll puts an element between two neighbours: the  *)
(* last one and the head, to become the head, or behind one with a lower   *)
(* key whose successor has a higher one.                                   *)
(***************************************************************************)
LEMMA RingWith ==
  ASSUME NEW L \in SUBSET Elems, NEW h, NEW nx \in [Elems -> ElemOrNull],
         NEW pv \in [Elems -> ElemOrNull], NEW e \in Elems \ L, NEW a \in L,
         RingOf(L, h, nx, pv), NEW h2 \in L \cup {e}
  PROVE  RingOf(L \cup {e}, h2, [nx EXCEPT ![a] = e, ![e] = nx[a]], [pv EXCEPT ![nx[a]] = e, ![e] = a])
<1> DEFINE b == nx[a]
           nx2 == [nx EXCEPT ![a] = e, ![e] = b]
           pv2 == [pv EXCEPT ![b] = e, ![e] = a]
<1>1. b \in L /\ pv[b] = a
  BY DEF RingOf
<1>2. ASSUME NEW f \in L \cup {e}
      PROVE  nx2[f] \in L \cup {e} /\ pv2[nx2[f]] = f /\ pv2[f] \in L \cup {e} /\ nx2[pv2[f]] = f
  <2>1. nx2[f] = (IF f = e THEN b ELSE IF f = a THEN e ELSE nx[f])
        /\ pv2[f] = (IF f = e THEN a ELSE IF f = b THEN e ELSE pv[f])
    BY <1>1
  <2>2. f # e => nx[f] \in L /\ pv[f] \in L /\ pv[nx[f]] = f /\ nx[pv[f]] = f
    BY DEF RingOf
  <2> QED BY <1>1, <2>1, <2>2
<1> QED BY <1>2 DEF RingOf

LEMMA SortedBefore ==
  ASSUME NEW L \in SUBSET Elems, NEW h \in L, NEW nx \in [Elems -> ElemOrNull],
         NEW pv \in [Elems -> ElemOrNull], NEW k \in [Elems -> Int], NEW e \in Elems \ L,
         RingOf(L, h, nx, pv), SortedOf(L, h, nx, k), NEW i \in Int, i < k[h]
  PROVE  SortedOf(L \cup {e}, e, [nx EXCEPT ![pv[h]] = e, ![e] = h], [k EXCEPT ![e] = i])
<1> DEFINE a == pv[h]
           nx2 == [nx EXCEPT ![a] = e, ![e] = h]
           k2 == [k EXCEPT ![e] = i]
<1> SUFFICES ASSUME NEW f \in L \cup {e}, NEW g \in L \cup {e}
             PROVE  /\ k2[f] = k2[g] => f = g
                    /\ k2[e] <= k2[f]
                    /\ nx2[f] = e => k2[g] <= k2[f]
                    /\ nx2[f] # e => k2[f] < k2[nx2[f]] /\ (k2[f] < k2[g] => k2[nx2[f]] <= k2[g])
  BY DEF SortedOf
<1>1. a \in L /\ nx[a] = h
  BY DEF RingOf
<1>2. \A x \in L : nx[x] \in L /\ pv[nx[x]] = x /\ k[x] \in Int /\ k[h] <= k[x]
  BY DEF RingOf, SortedOf
<1>3. \A x \in L \cup {e} : nx2[x] = (IF x = e THEN h ELSE IF x = a THEN e ELSE nx[x])
                            /\ k2[x] = (IF x = e THEN i ELSE k[x])
  BY <1>1
<1>4. \A x \in L \ {a} : nx[x] # h
  BY <1>1, <1>2
<1>5. \A x, y \in L : /\ k[x] = k[y] => x = y
                      /\ nx[x] = h => k[y] <= k[x]
                      /\ nx[x] # h => k[x] < k[nx[x]] /\ (k[x] < k[y] => k[nx[x]] <= k[y])
  BY DEF SortedOf
<1> HIDE DEF a, nx2, k2
<1>6. CASE f = e
  BY <1>1, <1>2, <1>3, <1>6
<1>7. CASE f # e /\ g = e
  BY <1>1, <1>2, <1>3, <1>4, <1>5, <1>7
<1>8. CASE f # e /\ g # e
  BY <1>1, <1>2, <1>3, <1>4, <1>5, <1>8
<1> QED BY <1>6, <1>7, <1>8

LEMMA SortedBehind ==
  ASSUME NEW L \in SUBSET Elems, NEW h \in L, NEW nx \in [Elems -> ElemOrNull],
         NEW pv \in [Elems -> ElemOrNull], NEW k \in [Elems -> Int], NEW e \in Elems \ L,
         RingOf(L, h, nx, pv), SortedOf(L, h, nx, k), NEW i \in Int, NEW a \in L,
         k[a] < i, \A x \in L : k[a] < k[x] => i < k[x]
  PROVE  SortedOf(L \cup {e}, h, [nx EXCEPT ![a] = e, ![e] = nx[a]], [k EXCEPT ![e] = i])
<1> DEFINE b == nx[a]
           nx2 == [nx EXCEPT ![a] = e, ![e] = b]
           k2 == [k EXCEPT ![e] = i]
<1> SUFFICES ASSUME NEW f \in L \cup {e}, NEW g \in L \cup {e}
             PROVE  /\ k2[f] = k2[g] => f = g
                    /\ k2[h] <= k2[f]
                    /\ nx2[f] = h => k2[g] <= k2[f]
                    /\ nx2[f] # h => k2[f] < k2[nx2[f]] /\ (k2[f] < k2[g] => k2[nx2[f]] <= k2[g])
  BY DEF SortedOf
<1>1. b \in L /\ pv[b] = a
  BY DEF RingOf
<1>2. \A x \in L : nx[x] \in L /\ pv[nx[x]] = x /\ k[x] \in Int /\ k[h] <= k[x]
  BY DEF RingOf, SortedOf
<1>3. \A x \in L \cup {e} : nx2[x] = (IF x = e THEN b ELSE IF x = a THEN e ELSE nx[x])
                            /\ k2[x] = (IF x = e THEN i ELSE k[x])
  BY <1>1
<1>4. \A x, y \in L : /\ k[x] = k[y] => x = y
                      /\ nx[x] = h => k[y] <= k[x]
                      /\ nx[x] # h => k[x] < k[nx[x]] /\ (k[x] < k[y] => k[nx[x]] <= k[y])
  BY DEF SortedOf
<1>5. \A x \in L : k[x] # i /\ (k[x] < i => k[x] <= k[a])
  BY <1>2
<1> HIDE DEF b, nx2, k2
<1>6. b = nx[a] /\ (b # h => k[a] < k[b] /\ i < k[b])
  BY <1>1, <1>4 DEF b
<1>7. CASE f = e
  BY <1>1, <1>2, <1>3, <1>4, <1>5, <1>6, <1>7
<1>8. CASE f # e /\ g = e
  BY <1>1, <1>2, <1>3, <1>4, <1>5, <1>6, <1>8
<1>9. CASE f # e /\ g # e
  BY <1>1, <1>2, <1>3, <1>4, <1>5, <1>6, <1>9
<1> QED BY <1>7, <1>8, <1>9

(* The first element of an empty list. *)
LEMMA RingAlone ==
  ASSUME NEW e \in Elems, NEW nx \in [Elems -> ElemOrNull],
         NEW pv \in [Elems -> ElemOrNull], NEW k \in [Elems -> Int]
  PROVE  /\ RingOf({e}, e, [nx EXCEPT ![e] = e, ![e] = e], [pv EXCEPT ![e] = e, ![e] = e])
         /\ SortedOf({e}, e, [nx EXCEPT ![e] = e, ![e] = e], k)
BY DEF RingOf, SortedOf

-----------------------------------------------------------------------------
(***************************************************************************)
(* The loop of sll::adjust.  `old` are the keys before the call; the loop  *)
(* starts at s, is at c, and has passed the elements from s to before c,   *)
(* perhaps beyond the last one and on from the head.                       *)
(***************************************************************************)
Passed(L, old, s, c) ==
  {x \in L : IF old[c] >= old[s] THEN old[s] <= old[x] /\ old[x] < old[c]
                                 ELSE old[s] <= old[x] \/ old[x] < old[c]}

ShiftedIn(L, P, old, k, from, by) ==
  \A x \in L : k[x] = IF x \in P /\ old[x] >= from THEN old[x] + by ELSE old[x]

(* A turn of the loop passes one more element, the last turn the last one. *)
LEMMA PassOne ==
  ASSUME NEW L \in SUBSET Elems, NEW h \in L, NEW nx \in [Elems -> ElemOrNull],
         NEW pv, NEW old \in [Elems -> Int],
         RingOf(L, h, nx, pv), SortedOf(L, h, nx, old), NEW s \in L, NEW c \in L
  PROVE  /\ Passed(L, old, s, s) = {}
         /\ c \notin Passed(L, old, s, c)
         /\ nx[c] # s => \A x \in L : x \in Passed(L, old, s, nx[c]) <=> x \in Passed(L, old, s, c) \cup {c}
         /\ nx[c] = s => \A x \in L : x \in Passed(L, old, s, c) \cup {c}
<1>1. \A x \in L : nx[x] \in L /\ pv[nx[x]] = x /\ old[x] \in Int /\ old[h] <= old[x]
  BY DEF RingOf, SortedOf
<1>2. \A x, y \in L : /\ old[x] = old[y] => x = y
                      /\ nx[x] = h => old[y] <= old[x]
                      /\ nx[x] # h => old[x] < old[nx[x]] /\ (old[x] < old[y] => old[nx[x]] <= old[y])
  BY DEF SortedOf
<1>3. Passed(L, old, s, s) = {}
  BY <1>1 DEF Passed
<1>4. c \notin Passed(L, old, s, c)
  BY <1>1 DEF Passed
<1>5. ASSUME nx[c] # s
      PROVE  \A x \in L : x \in Passed(L, old, s, nx[c]) <=> x \in Passed(L, old, s, c) \cup {c}
  <2> SUFFICES ASSUME NEW x \in L
               PROVE  x \in Passed(L, old, s, nx[c]) <=> x \in Passed(L, old, s, c) \/ x = c
    OBVIOUS
  <2>1. nx[c] \in L /\ old[nx[c]] # old[s]
    BY <1>1, <1>2, <1>5
  <2> QED BY <2>1, <1>1, <1>2 DEF Passed
<1>6. ASSUME nx[c] = s
      PROVE  \A x \in L : x \in Passed(L, old, s, c) \cup {c}
  <2> SUFFICES ASSUME NEW x \in L, x # c
               PROVE  x \in Passed(L, old, s, c)
    OBVIOUS
  <2> QED BY <1>1, <1>2, <1>6 DEF Passed
<1> QED BY <1>3, <1>4, <1>5, <1>6

(* The last turn has passed the whole ring. *)
LEMMA PassLast ==
  ASSUME NEW L \in SUBSET Elems, NEW h \in L, NEW nx \in [Elems -> ElemOrNull],
         NEW pv, NEW old \in [Elems -> Int],
         RingOf(L, h, nx, pv), SortedOf(L, h, nx, old), NEW s \in L, NEW c \in L, nx[c] = s
  PROVE  \A x \in L : x \in Passed(L, old, s, c) \cup {c}
BY PassOne

LEMMA ShiftOne ==
  ASSUME NEW L \in SUBSET Elems, NEW P, NEW old \in [Elems -> Int], NEW k \in [Elems -> Int],
         NEW from \in Int, NEW by \in Int, NEW c \in L, c \notin P,
         ShiftedIn(L, P, old, k, from, by)
  PROVE  ShiftedIn(L, P \cup {c}, old, IF k[c] >= from THEN [k EXCEPT ![c] = @ + by] ELSE k, from, by)
BY DEF ShiftedIn

(* What attach_child makes room for, the element it links finds free. *)
LEMMA ShiftedUp ==
  ASSUME NEW L \in SUBSET Elems, NEW h \in L, NEW nx \in [Elems -> ElemOrNull], NEW pv,
         NEW old \in [Elems -> Int], NEW k \in [Elems -> Int], NEW i \in Int,
         RingOf(L, h, nx, pv), SortedOf(L, h, nx, old), ShiftedIn(L, L, old, k, i, 1)
  PROVE  SortedOf(L, h, nx, k) /\ \A x \in L : k[x] # i
<1>1. \A x \in L : k[x] = IF old[x] >= i THEN old[x] + 1 ELSE old[x]
  BY DEF ShiftedIn
<1>2. \A x \in L : nx[x] \in L /\ old[x] \in Int /\ k[x] \in Int
  BY DEF RingOf
<1>3. \A x, y \in L : (old[x] < old[y] <=> k[x] < k[y]) /\ (old[x] = old[y] <=> k[x] = k[y])
  BY <1>1, <1>2
<1>4. SortedOf(L, h, nx, k)
  BY <1>2, <1>3 DEF SortedOf
<1> QED BY <1>1, <1>2, <1>4

(* The siblings of the detached element close the gap, without it. *)
LEMMA ShiftedDown ==
  ASSUME NEW L \in SUBSET Elems, NEW h \in L, NEW nx \in [Elems -> ElemOrNull], NEW pv,
         NEW old \in [Elems -> Int], NEW k \in [Elems -> Int], NEW e \in L,
         RingOf(L, h, nx, pv), ShiftedIn(L, L, old, k, old[e] + 1, -1),
         NEW h2, NEW nx2, SortedOf(L \ {e}, h2, nx2, old),
         L \ {e} # {} => h2 \in L \ {e}, \A x \in L \ {e} : nx2[x] \in L \ {e},
         \A x, y \in L : old[x] = old[y] => x = y
  PROVE  SortedOf(L \ {e}, h2, nx2, k)
<1>1. \A x \in L : k[x] = IF old[x] >= old[e] + 1 THEN old[x] - 1 ELSE old[x]
  BY DEF ShiftedIn
<1>2. \A x \in L : old[x] \in Int /\ k[x] \in Int
  OBVIOUS
<1>3. \A x, y \in L \ {e} : (old[x] < old[y] <=> k[x] < k[y]) /\ (old[x] = old[y] <=> k[x] = k[y])
  BY <1>1, <1>2
<1>4. \A x \in L \ {e} : nx2[x] \in L \ {e} /\ h2 \in L \ {e}
  OBVIOUS
<1> QED BY <1>2, <1>3, <1>4 DEF SortedOf

(***************************************************************************)
(* While the loop is under way, neighbours never change their order.       *)
(***************************************************************************)
LEMMA ShiftedPart ==
  ASSUME NEW L \in SUBSET Elems, NEW h \in L, NEW nx \in [Elems -> ElemOrNull], NEW pv,
         NEW old \in [Elems -> Int], NEW k \in [Elems -> Int], NEW from \in Int, NEW by \in Int,
         NEW s \in L, NEW c \in L,
         RingOf(L, h, nx, pv), SortedOf(L, h, nx, old),
         ShiftedIn(L, Passed(L, old, s, c), old, k, from, by),
         (by = 1 /\ s = h) \/ (by = -1 /\ from = old[s] + 1)
  PROVE  \A e \in L : nx[e] # h => k[e] <= k[nx[e]]
<1> SUFFICES ASSUME NEW e \in L, nx[e] # h PROVE k[e] <= k[nx[e]]
  OBVIOUS
<1> DEFINE P == Passed(L, old, s, c)
<1>1. nx[e] \in L /\ old[e] < old[nx[e]]
  BY DEF RingOf, SortedOf
<1>2. \A x, y \in {e, nx[e], s, c} : /\ old[x] = old[y] => x = y
                                     /\ old[e] < old[y] => old[nx[e]] <= old[y]
                                     /\ old[h] <= old[x] /\ old[x] \in Int
  BY <1>1 DEF SortedOf
<1>3. \A x \in {e, nx[e]} : k[x] = IF x \in P /\ old[x] >= from THEN old[x] + by ELSE old[x]
  BY <1>1 DEF ShiftedIn
<1>4. \A x \in {e, nx[e]} : x \in P <=> IF old[c] >= old[s] THEN old[s] <= old[x] /\ old[x] < old[c]
                                                           ELSE old[s] <= old[x] \/ old[x] < old[c]
  BY <1>1 DEF Passed
<1> HIDE DEF P
<1>5. CASE by = 1 /\ s = h
  BY <1>1, <1>2, <1>3, <1>4, <1>5
<1>6. CASE by = -1 /\ from = old[s] + 1
  BY <1>1, <1>2, <1>3, <1>4, <1>6
<1> QED BY <1>5, <1>6

LEMMA ShiftedWhole ==
  ASSUME NEW L \in SUBSET Elems, NEW h \in L, NEW nx \in [Elems -> ElemOrNull], NEW pv,
         NEW old \in [Elems -> Int], NEW k \in [Elems -> Int], NEW from \in Int, NEW by \in Int,
         NEW s \in L,
         RingOf(L, h, nx, pv), SortedOf(L, h, nx, old), ShiftedIn(L, L, old, k, from, by),
         (by = 1 /\ s = h) \/ (by = -1 /\ from = old[s] + 1)
  PROVE  \A e \in L : nx[e] # h => k[e] <= k[nx[e]]
<1> SUFFICES ASSUME NEW e \in L, nx[e] # h PROVE k[e] <= k[nx[e]]
  OBVIOUS
<1>1. nx[e] \in L /\ old[e] < old[nx[e]]
  BY DEF RingOf, SortedOf
<1>2. \A x, y \in {e, nx[e], s} : /\ old[x] = old[y] => x = y
                                  /\ old[e] < old[y] => old[nx[e]] <= old[y]
                                  /\ old[x] \in Int
  BY <1>1 DEF SortedOf
<1>3. \A x \in {e, nx[e]} : k[x] = IF old[x] >= from THEN old[x] + by ELSE old[x]
  BY <1>1 DEF ShiftedIn
<1>4. CASE by = 1
  BY <1>1, <1>2, <1>3, <1>4
<1>5. CASE by = -1 /\ from = old[s] + 1
  BY <1>1, <1>2, <1>3, <1>5
<1> QED BY <1>4, <1>5

-----------------------------------------------------------------------------
(***************************************************************************)
(* The invariant.                                                          *)
(***************************************************************************)
ListOrNull == Lists \cup {NULL}
Calls0 == [op : {"none", "new", "attach", "detach", "free"},
           pc : {"idle", "adjust", "unlink", "link", "search"},
           list : ListOrNull, elem : ElemOrNull, index : Nat,
           from : Int, by : Int, start : ElemOrNull, curr : ElemOrNull]

Typed ==
  /\ head \in [Lists -> ElemOrNull]
  /\ next \in [Elems -> ElemOrNull]
  /\ prev \in [Elems -> ElemOrNull]
  /\ key \in [Elems -> Int]
  /\ parent \in [Elems -> ListOrNull]
  /\ slots \in [Lists -> Int]
  /\ call \in Calls0

(* The list of the call in progress. *)
L == Members(call.list)

(* What the arguments of a call have to do with the list it works on. *)
Enters ==
  /\ call.pc \in {"adjust", "link", "search"}
  /\ call.elem \notin L
  /\ parent[call.elem] = IF call.op = "attach" THEN call.list ELSE NULL

Leaves ==
  /\ call.pc \in {"adjust", "unlink"}
  /\ call.elem \in L
  /\ parent[call.elem] = NULL

Looping ==
  /\ call.start \in L /\ call.curr \in L
  /\ call.op = "attach" => call.by = 1 /\ call.from = call.index /\ call.start = head[call.list]

(* The red in front of the cursor of the search, if any, belongs behind the new one. *)
Searching ==
  /\ call.curr \in L
  /\ key[head[call.list]] <= call.index
  /\ \A x \in L : key[call.curr] < key[x] => call.index < key[x]

Calling ==
  /\ call.list \in Lists /\ call.elem \in Elems
  /\ \/ call.op \in {"new", "attach"} /\ Enters
     \/ call.op \in {"detach", "free"} /\ Leaves
  /\ call.op = "new" => call.pc # "adjust" /\ call.index < slots[call.list]
  /\ call.op = "attach" => call.index <= slots[call.list]
  /\ call.op = "attach" /\ call.pc # "adjust" => \A x \in L : key[x] # call.index
  /\ call.op = "free" => call.pc # "adjust"
  /\ call.op = "detach" => call.by = -1 /\ call.start = call.elem
  /\ call.pc = "adjust" => Looping
  /\ call.pc = "search" => Searching

(* The keys of a list are out of order while adjust is under way: they were in order before. *)
Shifting == call.pc = "adjust" \/ (call.pc = "unlink" /\ call.op = "detach")

Reached(old) == IF call.pc = "adjust" THEN Passed(L, old, call.start, call.curr) ELSE L

Progress(old) ==
  /\ SortedOf(L, head[call.list], next, old)
  /\ ShiftedIn(L, Reached(old), old, key, call.from, call.by)
  /\ call.op = "detach" => call.from = old[call.elem] + 1

Rings == \A p \in Lists : RingOf(Members(p), head[p], next, prev)

Sorted ==
  \A p \in Lists : ~(Shifting /\ p = call.list) => SortedOf(Members(p), head[p], next, key)

SllInv ==
  /\ Typed
  /\ Idle \/ Calling
  /\ Rings
  /\ Sorted
  /\ Shifting => \E old \in [Elems -> Int] : Progress(old)

LEMMA SllInit == Init => SllInv
<1> SUFFICES ASSUME Init PROVE SllInv
  OBVIOUS
<1>1. \A p \in Lists : Members(p) = {}
  BY ElemsAssumption DEF Init, Members, Entering, Leaving, NoCall
<1>2. Typed
  BY SlotsAssumption DEF Init, Typed, NoCall, Calls0, ElemOrNull, ListOrNull
<1>3. Rings /\ Sorted
  BY <1>1 DEF Init, Rings, Sorted, RingOf, SortedOf
<1> QED BY <1>2, <1>3 DEF SllInv, Init, Idle, Shifting, NoCall

(* No element is in two lists, nor does one that enters belong to another. *)
LEMMA Apart ==
  ASSUME Typed, Idle \/ Calling, NEW p \in Lists, NEW q \in Lists \ {p}
  PROVE  /\ Members(p) \in SUBSET Elems
         /\ Members(p) \cap Members(q) = {}
         /\ call.list = p => call.elem \notin Members(q)
<1>1. CASE Idle
  BY <1>1, ElemsAssumption DEF Members, Entering, Leaving, Idle, NoCall
<1>2. CASE Calling
  BY <1>2, ElemsAssumption DEF Calling, Enters, Leaves, Members, Entering, Leaving, Typed, ListOrNull
<1> QED BY <1>1, <1>2

(* A list whose members, pointers and keys stay the same stays in order. *)
LEMMA ListSame ==
  ASSUME NEW p \in Lists, RingOf(Members(p), head[p], next, prev),
         SortedOf(Members(p), head[p], next, key),
         Members(p)' = Members(p), head'[p] = head[p],
         \A x \in Members(p) : next'[x] = next[x] /\ prev'[x] = prev[x] /\ key'[x] = key[x]
  PROVE  /\ RingOf(Members(p)', head'[p], next', prev')
         /\ SortedOf(Members(p)', head'[p], next', key')
<1>1. RingOf(Members(p), head[p], next', prev')
  BY RingSame
<1>2. SortedOf(Members(p), head[p], next', key')
  BY SortedSame DEF RingOf
<1> QED BY <1>1, <1>2

-----------------------------------------------------------------------------
(***************************************************************************)
(* A call starts: the lists stay as they are.                              *)
(***************************************************************************)
LEMMA StartKeeps ==
  ASSUME SllInv, Idle, UNCHANGED <<head, next, prev>>,
         \A p \in Lists : Members(p)' = Members(p),
         \A p \in Lists : \A x \in Members(p) : key'[x] = key[x]
  PROVE  /\ Rings' /\ Sorted'
         /\ \A p \in Lists : SortedOf(Members(p)', head'[p], next', key')
<1>1. \A p \in Lists : SortedOf(Members(p), head[p], next, key) /\ RingOf(Members(p), head[p], next, prev)
  BY DEF SllInv, Sorted, Shifting, Idle, NoCall, Rings
<1>2. \A p \in Lists : /\ RingOf(Members(p)', head'[p], next', prev')
                       /\ SortedOf(Members(p)', head'[p], next', key')
  BY <1>1, ListSame
<1> QED BY <1>2 DEF Rings, Sorted

LEMMA NewDataKeeps ==
  ASSUME SllInv, NEW p \in Lists, NEW e \in Elems, NEW i \in 0 .. MaxSlots, NewData(p, e, i)
  PROVE  SllInv'
<1>1. \A q \in Lists : Members(q)' = Members(q)
  BY DEF NewData, Idle, NoCall, Members, Entering, Leaving
<1>2. Idle /\ UNCHANGED <<head, next, prev, key, parent, slots>>
      /\ call' = [NoCall EXCEPT !.op = "new", !.pc = "link", !.list = p, !.elem = e, !.index = i]
  BY DEF NewData
<1>3. Rings' /\ Sorted'
  BY <1>1, <1>2, StartKeeps
<1>4. Typed'
  <2>1. call' = [op |-> "new", pc |-> "link", list |-> p, elem |-> e, index |-> i,
                 from |-> 0, by |-> 0, start |-> NULL, curr |-> NULL]
    BY <1>2 DEF NoCall
  <2>2. call' \in Calls0
    BY <2>1, SlotsAssumption DEF Calls0, ElemOrNull, ListOrNull
  <2> QED BY <1>2, <2>2 DEF SllInv, Typed, ListOrNull
<1>5. e \notin Members(p)
  BY <1>2, ElemsAssumption DEF NewData, Idle, NoCall, Members, Entering, Leaving
<1>6. Calling'
  <2>1. /\ call'.list = p /\ call'.elem = e /\ call'.op = "new" /\ call'.pc = "link" /\ call'.index = i
        /\ parent'[e] = NULL /\ i < slots'[p]
    BY <1>2 DEF NewData, NoCall
  <2>2. L' = Members(p)
    BY <1>1, <2>1 DEF L
  <2> QED BY <1>5, <2>1, <2>2 DEF Calling, Enters
<1> QED BY <1>2, <1>3, <1>4, <1>6 DEF SllInv, Shifting, NoCall

(* The red that leaves is a member until it is unlinked. *)
LEMMA LeaverStays ==
  ASSUME SllInv, Idle, NEW e \in Elems, parent[e] # NULL, parent' = [parent EXCEPT ![e] = NULL],
         call'.op \in {"detach", "free"}, call'.list = parent[e], call'.elem = e
  PROVE  /\ parent[e] \in Lists /\ e \in Members(parent[e])
         /\ \A q \in Lists : Members(q)' = Members(q)
BY ElemsAssumption DEF SllInv, Typed, ListOrNull, Idle, NoCall, Members, Entering, Leaving

LEMMA FreeKeeps ==
  ASSUME SllInv, NEW e \in Elems, Free(e)
  PROVE  SllInv'
<1>1. /\ Idle /\ parent[e] # NULL /\ parent' = [parent EXCEPT ![e] = NULL]
      /\ UNCHANGED <<head, next, prev, key, slots>>
      /\ call' = [NoCall EXCEPT !.op = "free", !.pc = "unlink", !.list = parent[e], !.elem = e]
  BY DEF Free
<1>2. parent[e] \in Lists /\ e \in Members(parent[e]) /\ \A q \in Lists : Members(q)' = Members(q)
  BY <1>1, LeaverStays DEF NoCall
<1>3. Rings' /\ Sorted'
  BY <1>1, <1>2, StartKeeps
<1>4. Typed'
  <2>1. call' = [op |-> "free", pc |-> "unlink", list |-> parent[e], elem |-> e, index |-> 0,
                 from |-> 0, by |-> 0, start |-> NULL, curr |-> NULL]
    BY <1>1 DEF NoCall
  <2>2. call' \in Calls0
    BY <1>1, <1>2, <2>1 DEF Calls0, ElemOrNull, ListOrNull, SllInv, Typed
  <2> QED BY <1>1, <1>2, <2>2 DEF SllInv, Typed, ListOrNull
<1>5. Calling'
  BY <1>1, <1>2 DEF Calling, NoCall, Leaves, L, SllInv, Typed
<1> QED BY <1>1, <1>3, <1>4, <1>5 DEF SllInv, Shifting, NoCall

(* The loop of adjust is about to start. *)
LEMMA LoopStarts ==
  ASSUME SllInv, Idle, call'.pc = "adjust", call'.list \in Lists, call'.start = call'.curr,
         call'.start \in Members(call'.list), call'.from \in Int, call'.by \in Int, key' \in [Elems -> Int],
         UNCHANGED <<head, next, prev>>, call'.op = "detach" => call'.from = key'[call'.elem] + 1,
         \A p \in Lists : Members(p)' = Members(p),
         \A p \in Lists : \A x \in Members(p) : key'[x] = key[x]
  PROVE  \E old \in [Elems -> Int] : Progress(old)'
<1> DEFINE p == call'.list
           M == Members(p)
<1>1. M \in SUBSET Elems
  BY DEF Members, Entering, Leaving, Idle, NoCall
<1>2. RingOf(M, head'[p], next', prev') /\ SortedOf(M, head'[p], next', key')
  BY StartKeeps DEF Rings
<1>3. head'[p] \in M
  BY <1>2 DEF RingOf
<1>4. L' = M
  BY DEF L
<1>5. Passed(M, key', call'.start, call'.curr) = {}
  BY <1>1 DEF Passed
<1>6. ShiftedIn(M, {}, key', key', call'.from, call'.by)
  BY DEF ShiftedIn
<1>7. Progress(key)'
  BY <1>2, <1>4, <1>5, <1>6 DEF Progress, Reached
<1> QED BY <1>7

LEMMA DetachKeeps ==
  ASSUME SllInv, NEW e \in Elems, Detach(e)
  PROVE  SllInv'
<1>1. /\ Idle /\ parent[e] # NULL /\ parent' = [parent EXCEPT ![e] = NULL]
      /\ UNCHANGED <<head, next, prev, key, slots>>
      /\ call' = [NoCall EXCEPT !.op = "detach", !.pc = "adjust", !.list = parent[e], !.elem = e,
                                !.from = key[e] + 1, !.by = -1, !.start = e, !.curr = e]
  BY DEF Detach, Behind
<1>2. parent[e] \in Lists /\ e \in Members(parent[e]) /\ \A q \in Lists : Members(q)' = Members(q)
  BY <1>1, LeaverStays DEF NoCall
<1>3. Rings' /\ Sorted'
  BY <1>1, <1>2, StartKeeps
<1>4. Typed'
  <2>1. call' = [op |-> "detach", pc |-> "adjust", list |-> parent[e], elem |-> e, index |-> 0,
                 from |-> key[e] + 1, by |-> -1, start |-> e, curr |-> e]
    BY <1>1 DEF NoCall
  <2>2. key[e] + 1 \in Int
    BY DEF SllInv, Typed
  <2>3. call' \in Calls0
    BY <1>2, <2>1, <2>2 DEF Calls0, ElemOrNull, ListOrNull
  <2> QED BY <1>1, <1>2, <2>3 DEF SllInv, Typed, ListOrNull
<1>5. Calling'
  BY <1>1, <1>2 DEF Calling, NoCall, Leaves, Looping, L, SllInv, Typed
<1>6. \E old \in [Elems -> Int] : Progress(old)'
  BY <1>1, <1>2, <1>4, LoopStarts DEF Typed, NoCall
<1> QED BY <1>3, <1>4, <1>5, <1>6 DEF SllInv

LEMMA AttachKeeps ==
  ASSUME SllInv, NEW p \in Lists, NEW e \in Elems, NEW i \in 0 .. MaxSlots, Attach(p, e, i)
  PROVE  SllInv'
<1>1. /\ Idle /\ parent[e] = NULL /\ i <= slots[p] /\ i \in Nat
      /\ key' = [key EXCEPT ![e] = i] /\ parent' = [parent EXCEPT ![e] = p]
      /\ UNCHANGED <<head, next, prev, slots>>
      /\ call' = [NoCall EXCEPT !.op = "attach", !.pc = IF head[p] = NULL THEN "link" ELSE "adjust",
                                !.list = p, !.elem = e, !.index = i, !.from = i, !.by = 1,
                                !.start = head[p], !.curr = head[p]]
  BY SlotsAssumption DEF Attach
<1>2. /\ \A q \in Lists : Members(q)' = Members(q) /\ e \notin Members(q)
      /\ \A q \in Lists : \A x \in Members(q) : x \in Elems /\ key'[x] = key[x]
  BY <1>1, ElemsAssumption DEF SllInv, Typed, Idle, NoCall, Members, Entering, Leaving
<1>3. Rings' /\ Sorted'
  BY <1>1, <1>2, StartKeeps
<1>4. Typed'
  <2> DEFINE pc == IF head[p] = NULL THEN "link" ELSE "adjust"
  <2>1. call' = [op |-> "attach", pc |-> pc, list |-> p, elem |-> e, index |-> i,
                 from |-> i, by |-> 1, start |-> head[p], curr |-> head[p]]
    BY <1>1 DEF NoCall
  <2>2. /\ head[p] \in ElemOrNull /\ p \in ListOrNull /\ e \in ElemOrNull /\ i \in Nat /\ i \in Int
        /\ pc \in {"idle", "adjust", "unlink", "link", "search"}
    BY <1>1 DEF SllInv, Typed, ElemOrNull, ListOrNull
  <2> HIDE DEF pc
  <2>3. call' \in Calls0
    BY <2>1, <2>2 DEF Calls0
  <2> QED BY <1>1, <2>3 DEF SllInv, Typed, ListOrNull
<1>5. head[p] = NULL <=> Members(p) = {}
  BY <1>2, ElemsAssumption DEF SllInv, Rings, RingOf
<1>6. head[p] # NULL => head[p] \in Members(p)
  BY <1>5 DEF SllInv, Rings, RingOf
<1>7. call'.list = p /\ call'.elem = e /\ call'.op = "attach" /\ call'.index = i /\ call'.from = i
      /\ call'.by = 1 /\ call'.start = head[p] /\ call'.curr = head[p]
      /\ call'.pc = IF head[p] = NULL THEN "link" ELSE "adjust"
  BY <1>1 DEF NoCall
<1>8. L' = Members(p) /\ parent'[e] = p
  BY <1>1, <1>2, <1>7 DEF L, SllInv, Typed
<1>9. Calling'
  BY <1>1, <1>2, <1>5, <1>6, <1>7, <1>8 DEF Calling, Enters, Looping
<1>10. Shifting' => \E old \in [Elems -> Int] : Progress(old)'
  <2> SUFFICES ASSUME Shifting' PROVE \E old \in [Elems -> Int] : Progress(old)'
    OBVIOUS
  <2>1. call'.pc = "adjust" /\ head[p] \in Members(p)
    BY <1>6, <1>7 DEF Shifting
  <2> QED BY <2>1, <1>1, <1>2, <1>4, <1>7, LoopStarts DEF Typed
<1> QED BY <1>3, <1>4, <1>9, <1>10 DEF SllInv

-----------------------------------------------------------------------------
(***************************************************************************)
(* The steps of a call.  All of them leave the other lists alone.          *)
(***************************************************************************)
LEMMA OthersKeep ==
  ASSUME SllInv, Calling, NEW p \in Lists, p # call.list, Members(p)' = Members(p), head'[p] = head[p],
         \A x \in Elems \ (L \cup {call.elem}) : next'[x] = next[x] /\ prev'[x] = prev[x] /\ key'[x] = key[x]
  PROVE  /\ RingOf(Members(p)', head'[p], next', prev')
         /\ SortedOf(Members(p)', head'[p], next', key')
<1>1. RingOf(Members(p), head[p], next, prev) /\ SortedOf(Members(p), head[p], next, key)
  BY DEF SllInv, Rings, Sorted
<1>2. \A x \in Members(p) : x \in Elems \ (L \cup {call.elem})
  BY Apart DEF SllInv, Calling, L
<1> QED BY <1>1, <1>2, ListSame

(* Members stay while the call goes on. *)
LEMMA GoesOn ==
  ASSUME UNCHANGED parent, call'.op = call.op, call'.list = call.list, call'.elem = call.elem
  PROVE  (\A p : Members(p)' = Members(p)) /\ L' = L
BY DEF Members, Entering, Leaving, L

(* A turn of the loop passes its element, the last turn the last one. *)
LEMMA AdjustPasses ==
  ASSUME SllInv, Calling, AdjustStep, NEW old \in [Elems -> Int], Progress(old)
  PROVE  ShiftedIn(L, IF next[call.curr] = call.start THEN L ELSE Passed(L, old, call.start, next[call.curr]),
                   old, key', call.from, call.by)
<1> DEFINE c == call.curr
           s == call.start
           h == head[call.list]
<1>1. /\ c \in L /\ s \in L /\ L \in SUBSET Elems
      /\ call.from \in Int /\ call.by \in Int
      /\ next \in [Elems -> ElemOrNull] /\ key \in [Elems -> Int]
      /\ RingOf(L, h, next, prev) /\ h \in L
  <2>1. call.pc = "adjust" /\ RingOf(L, h, next, prev)
    BY DEF AdjustStep, SllInv, Calling, Rings, L
  <2> QED BY <2>1 DEF SllInv, Typed, Calls0, Calling, Looping, L, Members, Entering, Leaving, RingOf
<1>2. SortedOf(L, h, next, old) /\ ShiftedIn(L, Passed(L, old, s, c), old, key, call.from, call.by)
  BY DEF AdjustStep, Progress, Reached
<1>3. key' = IF key[c] >= call.from THEN [key EXCEPT ![c] = @ + call.by] ELSE key
  BY DEF AdjustStep
<1>4. /\ c \notin Passed(L, old, s, c)
      /\ next[c] # s => \A x \in L : x \in Passed(L, old, s, next[c]) <=> x \in Passed(L, old, s, c) \cup {c}
      /\ next[c] = s => \A x \in L : x \in Passed(L, old, s, c) \cup {c}
  <2>1. /\ c \in L /\ s \in L /\ L \in SUBSET Elems /\ next \in [Elems -> ElemOrNull]
        /\ RingOf(L, h, next, prev) /\ h \in L /\ SortedOf(L, h, next, old)
    BY <1>1, <1>2
  <2> HIDE DEF c, s, h, L
  <2>2. c \notin Passed(L, old, s, c)
    BY <2>1, PassOne
  <2>3. next[c] # s => \A x \in L : x \in Passed(L, old, s, next[c]) <=> x \in Passed(L, old, s, c) \cup {c}
    BY <2>1, PassOne
  <2>4. ASSUME next[c] = s PROVE \A x \in L : x \in Passed(L, old, s, c) \cup {c}
    BY <2>1, <2>4, PassLast
  <2> QED BY <2>2, <2>3, <2>4
<1>5. ShiftedIn(L, Passed(L, old, s, c) \cup {c}, old, key', call.from, call.by)
  <2> HIDE DEF c, s
  <2> QED BY <1>1, <1>2, <1>3, <1>4, ShiftOne
<1> QED BY <1>4, <1>5 DEF ShiftedIn

LEMMA AdjustKeeps ==
  ASSUME SllInv, Calling, AdjustStep
  PROVE  SllInv'
<1> DEFINE p == call.list
           c == call.curr
           s == call.start
           h == head[p]
<1>1. /\ call.pc = "adjust" /\ p \in Lists /\ c \in L /\ s \in L /\ L \in SUBSET Elems
      /\ call.from \in Int /\ call.by \in Int /\ call.op \in {"attach", "detach"}
      /\ next \in [Elems -> ElemOrNull] /\ prev \in [Elems -> ElemOrNull] /\ key \in [Elems -> Int]
  <2>1. call.pc = "adjust"
    BY DEF AdjustStep
  <2> QED BY <2>1 DEF SllInv, Typed, Calls0, Calling, Looping, L, Members, Entering, Leaving
<1>2. /\ UNCHANGED <<head, next, prev, parent, slots>>
      /\ key' = IF key[c] >= call.from THEN [key EXCEPT ![c] = @ + call.by] ELSE key
      /\ key' \in [Elems -> Int]
      /\ \A x \in Elems \ {c} : key'[x] = key[x]
  BY <1>1 DEF AdjustStep
<1>3. call' = IF next[c] = s
              THEN [call EXCEPT !.pc = IF call.op = "detach" THEN "unlink" ELSE "link"]
              ELSE [call EXCEPT !.curr = next[c]]
  BY DEF AdjustStep, AroundAt
<1>4. /\ call'.op = call.op /\ call'.list = p /\ call'.elem = call.elem /\ call'.index = call.index
      /\ call'.from = call.from /\ call'.by = call.by /\ call'.start = s
      /\ call'.pc = (IF next[c] # s THEN "adjust" ELSE IF call.op = "detach" THEN "unlink" ELSE "link")
      /\ next[c] # s => call'.curr = next[c]
  BY <1>1, <1>3 DEF SllInv, Typed, Calls0
<1>5. (\A q : Members(q)' = Members(q)) /\ L' = L
  BY <1>2, <1>4, GoesOn
<1>6. RingOf(L, h, next, prev) /\ h \in L /\ next[c] \in L
  BY <1>1 DEF SllInv, Rings, RingOf, L
<1>7. PICK old \in [Elems -> Int] : Progress(old)
  BY <1>1 DEF SllInv, Shifting
<1>8. SortedOf(L, h, next, old) /\ ShiftedIn(L, Passed(L, old, s, c), old, key, call.from, call.by)
  BY <1>1, <1>7 DEF Progress, Reached
<1>9. ShiftedIn(L, IF next[c] = s THEN L ELSE Passed(L, old, s, next[c]), old, key', call.from, call.by)
  BY <1>7, AdjustPasses
<1>10. Typed'
  <2>1. call' \in Calls0
    <3>1. call \in Calls0 /\ next[c] \in ElemOrNull
      BY <1>1 DEF SllInv, Typed
    <3> QED BY <1>3, <3>1 DEF Calls0
  <2> QED BY <1>2, <2>1 DEF SllInv, Typed
<1>11. Rings'
  BY <1>2, <1>5 DEF SllInv, Rings
<1>12. ASSUME NEW q \in Lists \ {p}
       PROVE  SortedOf(Members(q)', head'[q], next', key')
  BY <1>1, <1>2, <1>5, OthersKeep
<1>13. call.op = "detach" => call.by = -1 /\ s = call.elem /\ call.from = old[call.elem] + 1
  BY <1>7 DEF Calling, Progress
<1>14. call.op = "attach" => call.by = 1 /\ call.from = call.index /\ s = h
  BY <1>1 DEF Calling, Looping
<1>16. CASE next[c] # s
  <2>1. ShiftedIn(L, Passed(L, old, s, next[c]), old, key', call.from, call.by)
    BY <1>9, <1>16
  <2>2. Progress(old)'
    BY <1>2, <1>4, <1>5, <1>8, <1>13, <1>16, <2>1 DEF Progress, Reached
  <2>3. call'.pc = "adjust" /\ call'.curr \in L
    BY <1>4, <1>6, <1>16
  <2>4. Calling'
    BY <1>1, <1>2, <1>4, <1>5, <1>13, <1>14, <2>3 DEF Calling, Enters, Leaves, Looping
  <2>5. Sorted'
    BY <1>4, <1>12, <2>3 DEF Sorted, Shifting
  <2> QED BY <1>10, <1>11, <2>2, <2>4, <2>5 DEF SllInv
<1>17. CASE next[c] = s /\ call.op = "detach"
  <2>1. ShiftedIn(L, L, old, key', call.from, call.by)
    BY <1>9, <1>17
  <2>2. call'.pc = "unlink" /\ call'.op = "detach"
    BY <1>4, <1>17
  <2>3. Progress(old)'
    BY <1>2, <1>4, <1>5, <1>8, <1>13, <2>1, <2>2 DEF Progress, Reached
  <2>4. Calling'
    BY <1>1, <1>2, <1>4, <1>5, <1>13, <2>2 DEF Calling, Leaves
  <2>5. Sorted'
    BY <1>4, <1>12, <2>2 DEF Sorted, Shifting
  <2> QED BY <1>10, <1>11, <2>3, <2>4, <2>5 DEF SllInv
<1>18. CASE next[c] = s /\ call.op = "attach"
  <2>1. ShiftedIn(L, L, old, key', call.from, call.by)
    BY <1>9, <1>18
  <2>2. call'.pc = "link" /\ call'.op = "attach"
    BY <1>4, <1>18
  <2>3. SortedOf(L, h, next, key') /\ \A x \in L : key'[x] # call.index
    <3>1. /\ L \in SUBSET Elems /\ h \in L /\ next \in [Elems -> ElemOrNull] /\ key' \in [Elems -> Int]
          /\ call.index \in Int /\ RingOf(L, h, next, prev) /\ SortedOf(L, h, next, old)
          /\ ShiftedIn(L, L, old, key', call.index, 1)
      BY <1>1, <1>2, <1>6, <1>8, <1>14, <1>18, <2>1
    <3> HIDE DEF h, L
    <3> QED BY <3>1, ShiftedUp
  <2>4. Calling'
    BY <1>1, <1>2, <1>4, <1>5, <2>2, <2>3 DEF Calling, Enters
  <2>5. Sorted'
    <3> SUFFICES ASSUME NEW q \in Lists PROVE SortedOf(Members(q)', head'[q], next', key')
      BY DEF Sorted
    <3>1. CASE q = p
      BY <1>2, <1>5, <2>3, <3>1 DEF L
    <3> QED BY <1>12, <3>1
  <2>6. ~Shifting'
    BY <2>2 DEF Shifting
  <2> QED BY <1>10, <1>11, <2>4, <2>5, <2>6 DEF SllInv
<1> QED BY <1>1, <1>16, <1>17, <1>18

(***************************************************************************)
(* sll::unlink: the element leaves the circle, and the siblings detach has *)
(* shifted are in order without it.                                        *)
(***************************************************************************)
LEMMA UnlinkKeeps ==
  ASSUME SllInv, Calling, Unlink, NEW p \in Lists, p = call.list
  PROVE  SllInv'
<1> DEFINE e == call.elem
           h2 == HeadWithout(e, next[e])
           next2 == [next EXCEPT ![e] = e, ![prev[e]] = next[e]]
           prev2 == [prev EXCEPT ![e] = e, ![next[e]] = prev[e]]
<1>1. /\ call.pc = "unlink" /\ call.op \in {"detach", "free"}
      /\ p \in Lists /\ e \in L /\ L \in SUBSET Elems /\ parent[e] = NULL
      /\ call.op = "detach" => call.by = -1
      /\ next \in [Elems -> ElemOrNull] /\ prev \in [Elems -> ElemOrNull] /\ key \in [Elems -> Int]
  <2>1. call.pc = "unlink"
    BY DEF Unlink
  <2> QED BY <2>1 DEF SllInv, Typed, Calling, Enters, Leaves, L, Members, Entering, Leaving
<1>2. /\ next' = next2 /\ prev' = prev2 /\ head' = [head EXCEPT ![p] = h2]
      /\ call' = NoCall /\ UNCHANGED <<key, parent>>
      /\ slots' = IF call.op = "detach" THEN [slots EXCEPT ![p] = @ - 1] ELSE slots
  BY DEF Unlink
<1>3. Members(p)' = L \ {e} /\ \A q \in Lists \ {p} : Members(q)' = Members(q)
  <2>1. \A q \in Lists : Members(q)' = {x \in Elems : parent[x] = q}
    BY <1>2 DEF Members, Entering, Leaving, NoCall
  <2>2. \A q \in Lists : Members(q) = {x \in Elems : parent[x] = q} \cup (IF q = p THEN {e} ELSE {})
    BY <1>1 DEF Members, Entering, Leaving
  <2>3. \A q \in Lists : e \notin {x \in Elems : parent[x] = q}
    BY <1>1, ElemsAssumption
  <2>4. Members(p)' = L \ {e}
    <3>1. L = Members(p)
      BY DEF L
    <3> HIDE DEF e
    <3> QED BY <2>1, <2>2, <2>3, <3>1
  <2>5. \A q \in Lists \ {p} : Members(q)' = Members(q)
    BY <2>1, <2>2
  <2> QED BY <2>4, <2>5
<1>4. RingOf(L, head[p], next, prev) /\ next[e] \in L /\ prev[e] \in L
  BY <1>1 DEF SllInv, Rings, RingOf, L
<1>5. h2 = IF head[p] # e THEN head[p] ELSE IF next[e] = e THEN NULL ELSE next[e]
  BY DEF HeadWithout
<1>6. RingOf(L \ {e}, h2, next2, prev2) /\ SortedOf(L \ {e}, h2, next2, key)
  <2>1. CASE call.op = "free"
    <3>1. SortedOf(L, head[p], next, key)
      BY <1>1, <2>1 DEF SllInv, Sorted, Shifting, L
    <3>2. L \in SUBSET Elems /\ next \in [Elems -> ElemOrNull] /\ prev \in [Elems -> ElemOrNull] /\ e \in L
          /\ key \in [Elems -> Int]
      BY <1>1
    <3> HIDE DEF h2, e, L
    <3> QED BY <1>4, <1>5, <3>1, <3>2, RingWithout, SortedWithout
  <2>2. CASE call.op = "detach"
    <3>1. PICK old \in [Elems -> Int] : Progress(old)
      BY <1>1, <2>2 DEF SllInv, Shifting
    <3>2. /\ SortedOf(L, head[p], next, old)
          /\ ShiftedIn(L, L, old, key, call.from, -1)
          /\ call.from = old[e] + 1
      BY <1>1, <2>2, <3>1 DEF Progress, Reached
    <3>3. RingOf(L \ {e}, h2, next2, prev2) /\ SortedOf(L \ {e}, h2, next2, old)
      <4>1. L \in SUBSET Elems /\ next \in [Elems -> ElemOrNull] /\ prev \in [Elems -> ElemOrNull] /\ e \in L
        BY <1>1
      <4> HIDE DEF h2, e
      <4> QED BY <1>4, <1>5, <3>2, <4>1, RingWithout, SortedWithout
    <3>5. /\ L \ {e} # {} => h2 \in L \ {e}
          /\ \A x \in L \ {e} : next2[x] \in L \ {e}
      BY <3>3 DEF RingOf
    <3>6. \A x, y \in L : old[x] = old[y] => x = y
      BY <3>2 DEF SortedOf
    <3>7. ShiftedIn(L, L, old, key, old[e] + 1, -1)
      BY <3>2
    <3>8. head[p] \in L
      BY <1>1, <1>4 DEF RingOf
    <3> HIDE DEF h2, next2, prev2
    <3> QED BY <1>1, <1>4, <3>3, <3>5, <3>6, <3>7, <3>8, ShiftedDown DEF ElemOrNull
  <2> QED BY <1>1, <2>1, <2>2
<1>7. ASSUME NEW q \in Lists \ {p}
      PROVE  RingOf(Members(q)', head'[q], next', prev') /\ SortedOf(Members(q)', head'[q], next', key')
  <2>1. \A x \in Elems \ (L \cup {e}) : next'[x] = next[x] /\ prev'[x] = prev[x] /\ key'[x] = key[x]
    BY <1>1, <1>2, <1>4
  <2>2. head'[q] = head[q]
    BY <1>2 DEF SllInv, Typed
  <2> QED BY <1>3, <2>1, <2>2, OthersKeep
<1>8. head'[p] = h2
  BY <1>1, <1>2 DEF SllInv, Typed
<1>9. Rings' /\ Sorted'
  <2>1. ASSUME NEW q \in Lists
        PROVE  RingOf(Members(q)', head'[q], next', prev') /\ SortedOf(Members(q)', head'[q], next', key')
    <3>1. CASE q = p
      <4>1. Members(p)' = L \ {e} /\ next' = next2 /\ prev' = prev2 /\ key' = key
        BY <1>2, <1>3
      <4> HIDE DEF h2, next2, prev2, e, L
      <4> QED BY <1>6, <1>8, <3>1, <4>1
    <3> QED BY <1>7, <3>1
  <2> QED BY <2>1 DEF Rings, Sorted
<1>10. Typed'
  <2>1. h2 \in ElemOrNull
    BY <1>1, <1>4, <1>5 DEF SllInv, Typed, ElemOrNull
  <2>2. next2 \in [Elems -> ElemOrNull] /\ prev2 \in [Elems -> ElemOrNull]
    BY <1>1, <1>4 DEF ElemOrNull
  <2>3. NoCall \in Calls0
    BY DEF NoCall, Calls0, ElemOrNull, ListOrNull
  <2>4. slots' \in [Lists -> Int]
    BY <1>1, <1>2 DEF SllInv, Typed
  <2> HIDE DEF h2, next2, prev2
  <2> QED BY <1>2, <2>1, <2>2, <2>3, <2>4 DEF SllInv, Typed
<1> QED BY <1>2, <1>9, <1>10 DEF SllInv, Idle, Shifting, NoCall

(***************************************************************************)
(* sll::link, from the first look at the head to the place found.          *)
(***************************************************************************)
LEMMA AddedKeeps ==
  ASSUME SllInv, Calling, Enters, Added, NEW p \in Lists, p = call.list,
         head' \in [Lists -> ElemOrNull], next' \in [Elems -> ElemOrNull], prev' \in [Elems -> ElemOrNull],
         \A q \in Lists \ {p} : head'[q] = head[q],
         \A x \in Elems \ (L \cup {call.elem}) : next'[x] = next[x] /\ prev'[x] = prev[x],
         RingOf(L \cup {call.elem}, head'[p], next', prev'),
         SortedOf(L \cup {call.elem}, head'[p], next', key')
  PROVE  SllInv'
<1> DEFINE e == call.elem
<1>1. /\ key' = [key EXCEPT ![e] = call.index] /\ parent' = [parent EXCEPT ![e] = p] /\ call' = NoCall
      /\ slots' = IF call.op = "attach" THEN [slots EXCEPT ![p] = @ + 1] ELSE slots
  BY DEF Added
<1>2. /\ e \in Elems /\ key \in [Elems -> Int] /\ parent \in [Elems -> ListOrNull]
      /\ slots \in [Lists -> Int] /\ call.index \in Int /\ call.op \in {"new", "attach"}
      /\ parent[e] = IF call.op = "attach" THEN p ELSE NULL
      /\ e \notin L
  BY DEF SllInv, Typed, Calls0, Calling, Enters, Leaves
<1>3. \A q \in Lists : Members(q)' = {x \in Elems : parent'[x] = q}
  BY <1>1 DEF Members, Entering, Leaving, NoCall
<1>4. /\ L = {x \in Elems : parent[x] = p} \ {e}
      /\ \A q \in Lists \ {p} : Members(q) = {x \in Elems : parent[x] = q}
  BY <1>2, ElemsAssumption DEF L, Members, Entering, Leaving
<1>5. \A x \in Elems : parent'[x] = IF x = e THEN p ELSE parent[x]
  BY <1>1, <1>2
<1>6. Members(p)' = L \cup {e}
  <2> HIDE DEF e
  <2> QED BY <1>2, <1>3, <1>4, <1>5
<1>7. \A q \in Lists \ {p} : Members(q)' = Members(q)
  <2> HIDE DEF e
  <2>1. \A q \in Lists \ {p} : parent[e] # q
    BY <1>2, ElemsAssumption
  <2> SUFFICES ASSUME NEW q \in Lists \ {p}, NEW x \in Elems
               PROVE  parent'[x] = q <=> parent[x] = q
    BY <1>3, <1>4
  <2> QED BY <1>5, <2>1
<1>8. \A x \in Elems \ (L \cup {e}) : next'[x] = next[x] /\ prev'[x] = prev[x] /\ key'[x] = key[x]
  BY <1>1, <1>2
<1>9. Rings' /\ Sorted'
  <2> SUFFICES ASSUME NEW q \in Lists
               PROVE  RingOf(Members(q)', head'[q], next', prev') /\ SortedOf(Members(q)', head'[q], next', key')
    BY DEF Rings, Sorted
  <2>1. CASE q = p
    BY <1>6, <2>1
  <2>2. CASE q # p
    <3>1. Members(q)' = Members(q) /\ head'[q] = head[q]
      BY <1>7, <2>2
    <3> QED BY <1>8, <2>2, <3>1, OthersKeep
  <2> QED BY <2>1, <2>2
<1>10. Typed'
  <2>1. NoCall \in Calls0
    BY DEF NoCall, Calls0, ElemOrNull, ListOrNull
  <2>2. slots' \in [Lists -> Int] /\ key' \in [Elems -> Int] /\ parent' \in [Elems -> ListOrNull]
    BY <1>1, <1>2 DEF ListOrNull
  <2> QED BY <1>1, <2>1, <2>2 DEF Typed
<1> QED BY <1>1, <1>9, <1>10 DEF SllInv, Idle, Shifting, NoCall

(* What a call that links has at hand. *)
LEMMA LinkFacts ==
  ASSUME SllInv, Calling, call.pc \in {"link", "search"}
  PROVE  /\ Enters /\ ~Idle
         /\ call.list \in Lists /\ call.elem \in Elems \ L /\ L \in SUBSET Elems /\ call.index \in Int
         /\ head \in [Lists -> ElemOrNull] /\ key \in [Elems -> Int]
         /\ next \in [Elems -> ElemOrNull] /\ prev \in [Elems -> ElemOrNull]
         /\ RingOf(L, head[call.list], next, prev)
         /\ SortedOf(L, head[call.list], next, key)
<1>1. L \in SUBSET Elems
  BY DEF Calling, L, Members, Entering, Leaving
<1>2. RingOf(L, head[call.list], next, prev) /\ SortedOf(L, head[call.list], next, key)
  BY DEF SllInv, Calling, Rings, Sorted, Shifting, L
<1>3. Enters /\ ~Idle /\ call.elem \in Elems
  BY DEF Calling, Leaves, Idle, NoCall
<1> QED BY <1>1, <1>2, <1>3 DEF SllInv, Typed, Calls0, Calling, Enters

LEMMA LinkEmptyKeeps ==
  ASSUME SllInv, Calling, LinkEmpty
  PROVE  SllInv'
<1> DEFINE e == call.elem
<1>1. PICK p \in Lists : p = call.list
  BY DEF Calling
<1>2. /\ call.pc = "link" /\ head[p] = NULL /\ Added
      /\ next' = [next EXCEPT ![e] = e, ![e] = e] /\ prev' = [prev EXCEPT ![e] = e, ![e] = e]
      /\ head' = [head EXCEPT ![p] = e]
      /\ key' = [key EXCEPT ![e] = call.index]
  BY <1>1 DEF LinkEmpty, Between, Added
<1>3. /\ Enters /\ e \in Elems \ L /\ call.index \in Int
      /\ head \in [Lists -> ElemOrNull] /\ key \in [Elems -> Int]
      /\ next \in [Elems -> ElemOrNull] /\ prev \in [Elems -> ElemOrNull]
      /\ RingOf(L, head[p], next, prev) /\ L \in SUBSET Elems
  BY <1>1, <1>2, LinkFacts
<1>4. L = {}
  BY <1>2, <1>3, ElemsAssumption DEF RingOf
<1>5. RingOf({e}, e, next', prev') /\ SortedOf({e}, e, next', key')
  <2>1. key' \in [Elems -> Int]
    BY <1>2, <1>3
  <2> HIDE DEF e
  <2> QED BY <1>2, <1>3, <2>1, RingAlone
<1>6. /\ head' \in [Lists -> ElemOrNull] /\ next' \in [Elems -> ElemOrNull] /\ prev' \in [Elems -> ElemOrNull]
      /\ \A q \in Lists \ {p} : head'[q] = head[q]
      /\ \A x \in Elems \ (L \cup {e}) : next'[x] = next[x] /\ prev'[x] = prev[x]
      /\ head'[p] = e /\ L \cup {e} = {e}
  BY <1>2, <1>3, <1>4 DEF ElemOrNull
<1>7. RingOf(L \cup {e}, head'[p], next', prev') /\ SortedOf(L \cup {e}, head'[p], next', key')
  BY <1>5, <1>6
<1> QED BY <1>1, <1>2, <1>3, <1>6, <1>7, AddedKeeps

LEMMA LinkBeforeHeadKeeps ==
  ASSUME SllInv, Calling, LinkBeforeHead
  PROVE  SllInv'
<1> DEFINE e == call.elem
           i == call.index
<1>1. PICK p \in Lists : p = call.list
  BY DEF Calling
<1>2. PICK h : h = head[p]
  OBVIOUS
<1>3. /\ call.pc = "link" /\ h # NULL /\ i < key[h] /\ Added
      /\ next' = [next EXCEPT ![prev[h]] = e, ![e] = h] /\ prev' = [prev EXCEPT ![h] = e, ![e] = prev[h]]
      /\ head' = [head EXCEPT ![p] = e]
      /\ key' = [key EXCEPT ![e] = i]
  BY <1>1, <1>2 DEF LinkBeforeHead, SmallerThanHead, Between, Added
<1>4. /\ Enters /\ e \in Elems \ L /\ i \in Int /\ L \in SUBSET Elems
      /\ head \in [Lists -> ElemOrNull] /\ key \in [Elems -> Int]
      /\ next \in [Elems -> ElemOrNull] /\ prev \in [Elems -> ElemOrNull]
      /\ RingOf(L, h, next, prev) /\ SortedOf(L, h, next, key)
  BY <1>1, <1>2, <1>3, LinkFacts
<1>5. h \in L /\ prev[h] \in L /\ next[prev[h]] = h
  BY <1>3, <1>4 DEF RingOf
<1>6. RingOf(L \cup {e}, e, next', prev') /\ SortedOf(L \cup {e}, e, next', key')
  <2>1. RingOf(L \cup {e}, e, [next EXCEPT ![prev[h]] = e, ![e] = next[prev[h]]],
               [prev EXCEPT ![next[prev[h]]] = e, ![e] = prev[h]])
    <3> HIDE DEF e, L
    <3>1. e \in L \cup {e}
      OBVIOUS
    <3> QED BY <1>4, <1>5, <3>1, RingWith
  <2>2. SortedOf(L \cup {e}, e, [next EXCEPT ![prev[h]] = e, ![e] = h], [key EXCEPT ![e] = i])
    <3> HIDE DEF e, i, L
    <3> QED BY <1>3, <1>4, <1>5, SortedBefore
  <2> QED BY <1>3, <1>5, <2>1, <2>2
<1>7. /\ head' \in [Lists -> ElemOrNull] /\ next' \in [Elems -> ElemOrNull] /\ prev' \in [Elems -> ElemOrNull]
      /\ \A q \in Lists \ {p} : head'[q] = head[q]
      /\ \A x \in Elems \ (L \cup {e}) : next'[x] = next[x] /\ prev'[x] = prev[x]
      /\ head'[p] = e
  <2> HIDE DEF e
  <2> QED BY <1>3, <1>4, <1>5 DEF ElemOrNull
<1> QED BY <1>1, <1>3, <1>4, <1>6, <1>7, AddedKeeps

LEMMA SearchEndKeeps ==
  ASSUME SllInv, Calling, SearchEnd
  PROVE  SllInv'
<1> DEFINE e == call.elem
           i == call.index
<1>1. PICK p \in Lists : p = call.list
  BY DEF Calling
<1>2. PICK h, a : h = head[p] /\ a = call.curr
  OBVIOUS
<1>3. /\ call.pc = "search" /\ key[a] < i /\ Added
      /\ next' = [next EXCEPT ![a] = e, ![e] = next[a]] /\ prev' = [prev EXCEPT ![next[a]] = e, ![e] = a]
      /\ head' = head
      /\ key' = [key EXCEPT ![e] = i]
  BY <1>1, <1>2 DEF SearchEnd, Between, Added
<1>4. /\ Enters /\ e \in Elems \ L /\ i \in Int /\ L \in SUBSET Elems
      /\ head \in [Lists -> ElemOrNull] /\ key \in [Elems -> Int]
      /\ next \in [Elems -> ElemOrNull] /\ prev \in [Elems -> ElemOrNull]
      /\ RingOf(L, h, next, prev) /\ SortedOf(L, h, next, key)
  BY <1>1, <1>2, <1>3, LinkFacts
<1>5. a \in L /\ \A x \in L : key[a] < key[x] => i < key[x]
  BY <1>2, <1>3 DEF Calling, Searching
<1>6. h \in L /\ next[a] \in L
  BY <1>4, <1>5 DEF RingOf
<1>7. RingOf(L \cup {e}, h, next', prev') /\ SortedOf(L \cup {e}, h, next', key')
  <2>1. RingOf(L \cup {e}, h, [next EXCEPT ![a] = e, ![e] = next[a]], [prev EXCEPT ![next[a]] = e, ![e] = a])
    <3> HIDE DEF e, L
    <3>1. h \in L \cup {e}
      BY <1>6
    <3> QED BY <1>4, <1>5, <3>1, RingWith
  <2>2. SortedOf(L \cup {e}, h, [next EXCEPT ![a] = e, ![e] = next[a]], [key EXCEPT ![e] = i])
    <3> HIDE DEF e, i, L
    <3> QED BY <1>3, <1>4, <1>5, <1>6, SortedBehind
  <2> QED BY <1>3, <2>1, <2>2
<1>8. /\ head' \in [Lists -> ElemOrNull] /\ next' \in [Elems -> ElemOrNull] /\ prev' \in [Elems -> ElemOrNull]
      /\ \A q \in Lists \ {p} : head'[q] = head[q]
      /\ \A x \in Elems \ (L \cup {e}) : next'[x] = next[x] /\ prev'[x] = prev[x]
      /\ head'[p] = h
  <2> HIDE DEF e
  <2> QED BY <1>2, <1>3, <1>4, <1>5, <1>6 DEF ElemOrNull
<1> QED BY <1>1, <1>3, <1>4, <1>7, <1>8, AddedKeeps

(* The list stays while the call looks for the place. *)
LEMMA LookingKeeps ==
  ASSUME SllInv, Calling, call.pc \in {"link", "search"}, NEW c \in L,
         UNCHANGED <<head, next, prev, key, parent, slots>>,
         call' = [call EXCEPT !.pc = "search", !.curr = c],
         key[head[call.list]] <= call.index,
         \A x \in L : key[c] < key[x] => call.index < key[x]
  PROVE  SllInv'
<1>1. /\ Enters /\ call.list \in Lists /\ call.elem \in Elems \ L /\ L \in SUBSET Elems
  BY LinkFacts
<1>2. /\ call'.op = call.op /\ call'.list = call.list /\ call'.elem = call.elem /\ call'.index = call.index
      /\ call'.pc = "search" /\ call'.curr = c /\ call' \in Calls0
  BY <1>1 DEF SllInv, Typed, Calls0, ElemOrNull
<1>3. (\A q : Members(q)' = Members(q)) /\ L' = L
  BY <1>2, GoesOn
<1>4. Typed'
  BY <1>2 DEF SllInv, Typed
<1>5. Rings' /\ Sorted'
  BY <1>3 DEF SllInv, Rings, Sorted, Shifting
<1>6. Calling'
  BY <1>1, <1>2, <1>3 DEF Calling, Enters, Leaves, Searching
<1> QED BY <1>2, <1>4, <1>5, <1>6 DEF SllInv, Shifting

LEMMA LinkSearchKeeps ==
  ASSUME SllInv, Calling, LinkSearch
  PROVE  SllInv'
<1> DEFINE h == head[call.list]
           c == prev[h]
<1>1. /\ call.pc = "link" /\ h # NULL /\ ~(call.index < key[h])
      /\ call' = [call EXCEPT !.pc = "search", !.curr = c]
      /\ UNCHANGED <<head, next, prev, key, parent, slots>>
  BY DEF LinkSearch, SmallerThanHead
<1>2. /\ L \in SUBSET Elems /\ call.index \in Int /\ key \in [Elems -> Int]
      /\ RingOf(L, h, next, prev) /\ SortedOf(L, h, next, key)
  BY <1>1, LinkFacts
<1>3. h \in L /\ c \in L /\ next[c] = h
  BY <1>1, <1>2 DEF RingOf
<1>4. \A x \in L : key[x] <= key[c] /\ key[x] \in Int
  BY <1>2, <1>3 DEF SortedOf
<1>5. key[h] <= call.index /\ \A x \in L : ~(key[c] < key[x])
  BY <1>1, <1>2, <1>3, <1>4
<1> QED BY <1>1, <1>3, <1>5, LookingKeeps

(* The search never gets to an element in front of the head: one of them is not above the new one. *)
LEMMA SearchGoesOn ==
  ASSUME SllInv, Calling, SearchStep
  PROVE  /\ call.curr # head[call.list]
         /\ prev[call.curr] \in L /\ next[prev[call.curr]] = call.curr
         /\ \A x \in L : key[prev[call.curr]] < key[x] => call.index < key[x]
<1> DEFINE h == head[call.list]
           c == call.curr
           d == prev[c]
<1>1. call.pc = "search" /\ key[c] > call.index
  BY DEF SearchStep
<1>2. /\ L \in SUBSET Elems /\ call.index \in Int /\ key \in [Elems -> Int]
      /\ RingOf(L, h, next, prev) /\ SortedOf(L, h, next, key)
  BY <1>1, LinkFacts
<1>3. c \in L /\ key[h] <= call.index
  BY <1>1 DEF Calling, Searching
<1>4. h \in L /\ d \in L /\ next[d] = c
  BY <1>2, <1>3 DEF RingOf
<1>5. c # h
  BY <1>1, <1>2, <1>3, <1>4
<1>6. \A x \in L : key[d] < key[x] => key[c] <= key[x]
  BY <1>2, <1>4, <1>5 DEF SortedOf
<1> QED BY <1>1, <1>2, <1>3, <1>4, <1>5, <1>6

LEMMA SearchStepKeeps ==
  ASSUME SllInv, Calling, SearchStep
  PROVE  SllInv'
<1>1. /\ call.pc = "search" /\ call' = [call EXCEPT !.curr = prev[call.curr]]
      /\ UNCHANGED <<head, next, prev, key, parent, slots>>
  BY DEF SearchStep
<1>2. call' = [call EXCEPT !.pc = "search", !.curr = prev[call.curr]]
  BY <1>1 DEF SllInv, Typed, Calls0
<1>3. key[head[call.list]] <= call.index
  BY <1>1 DEF Calling, Searching
<1> QED BY <1>1, <1>2, <1>3, SearchGoesOn, LookingKeeps

(* Only NodeData::new meets an element in its slot. *)
LEMMA SearchFoundKeeps ==
  ASSUME SllInv, Calling, SearchFound
  PROVE  SllInv'
<1>1. /\ call.pc = "search" /\ key[call.curr] = call.index /\ call.curr \in L
      /\ UNCHANGED <<head, next, prev, key, parent, slots>>
      /\ call' = IF call.op = "new" THEN NoCall ELSE [call EXCEPT !.pc = "panicked"]
  BY DEF SearchFound, Calling, Searching
<1>2. call.op = "new" /\ call' = NoCall
  BY <1>1 DEF Calling, Leaves
<1>3. \A q \in Lists : Members(q)' = Members(q)
  BY <1>1, <1>2 DEF Members, Entering, Leaving, NoCall
<1>4. Typed'
  <2>1. NoCall \in Calls0
    BY DEF NoCall, Calls0, ElemOrNull, ListOrNull
  <2> QED BY <1>1, <1>2, <2>1 DEF SllInv, Typed
<1>5. Rings' /\ Sorted'
  BY <1>1, <1>3 DEF SllInv, Rings, Sorted, Shifting
<1> QED BY <1>2, <1>4, <1>5 DEF SllInv, Idle, Shifting, NoCall

-----------------------------------------------------------------------------
(***************************************************************************)
(* Every step keeps the invariant.                                         *)
(***************************************************************************)
LEMMA SllStep ==
  ASSUME SllInv, [Next]_vars
  PROVE  SllInv'
<1>1. CASE UNCHANGED vars
  <2>1. \A q \in Lists : Members(q)' = Members(q)
    BY <1>1 DEF vars, Members, Entering, Leaving
  <2>2. L' = L
    BY <1>1 DEF vars, L, Members, Entering, Leaving
  <2>3. Typed' /\ (Idle \/ Calling)' /\ Rings' /\ Sorted'
    <3>1. Typed' /\ (Idle' <=> Idle) /\ (Calling' <=> Calling)
      BY <1>1, <2>2 DEF SllInv, vars, Typed, Idle, Calling, Enters, Leaves, Looping, Searching
    <3>2. Rings' /\ Sorted'
      BY <1>1, <2>1 DEF SllInv, vars, Rings, Sorted, Shifting
    <3> QED BY <3>1, <3>2 DEF SllInv
  <2>4. \A old : Progress(old)' <=> Progress(old)
    BY <1>1, <2>2 DEF vars, Progress, Reached
  <2> QED BY <1>1, <2>3, <2>4 DEF SllInv, vars, Shifting
<1>2. ASSUME NEW e \in Elems, Free(e)
      PROVE  SllInv'
  BY <1>2, FreeKeeps
<1>3. ASSUME NEW e \in Elems, Detach(e)
      PROVE  SllInv'
  BY <1>3, DetachKeeps
<1>4. ASSUME NEW e \in Elems, NEW p \in Lists, NEW i \in 0 .. MaxSlots, NewData(p, e, i)
      PROVE  SllInv'
  BY <1>4, NewDataKeeps
<1>5. ASSUME NEW e \in Elems, NEW p \in Lists, NEW i \in 0 .. MaxSlots, Attach(p, e, i)
      PROVE  SllInv'
  BY <1>5, AttachKeeps
<1>6. ASSUME Step
      PROVE  SllInv'
  <2>1. Calling
    <3>1. call.pc # "idle"
      BY <1>6 DEF Step, AdjustStep, Unlink, LinkEmpty, LinkBeforeHead, LinkSearch, SearchStep, SearchEnd, SearchFound
    <3> QED BY <3>1 DEF SllInv, Idle, NoCall
  <2>2. CASE AdjustStep
    BY <2>1, <2>2, AdjustKeeps
  <2>3. CASE Unlink
    BY <2>1, <2>3, UnlinkKeeps DEF Calling
  <2>4. CASE LinkEmpty
    BY <2>1, <2>4, LinkEmptyKeeps
  <2>5. CASE LinkBeforeHead
    BY <2>1, <2>5, LinkBeforeHeadKeeps
  <2>6. CASE LinkSearch
    BY <2>1, <2>6, LinkSearchKeeps
  <2>7. CASE SearchStep
    BY <2>1, <2>7, SearchStepKeeps
  <2>8. CASE SearchEnd
    BY <2>1, <2>8, SearchEndKeeps
  <2>9. CASE SearchFound
    BY <2>1, <2>9, SearchFoundKeeps
  <2> QED BY <1>6, <2>2, <2>3, <2>4, <2>5, <2>6, <2>7, <2>8, <2>9 DEF Step
<1> QED BY <1>1, <1>2, <1>3, <1>4, <1>5, <1>6 DEF Next

(* The invariant holds in every state of every call. *)
THEOREM SllInvHolds == Spec => []SllInv
<1>1. Init => SllInv
  BY SllInit
<1>2. SllInv /\ [Next]_vars => SllInv'
  BY SllStep
<1> QED BY <1>1, <1>2, PTL DEF Spec

-----------------------------------------------------------------------------
(***************************************************************************)
(* The children of a node form one circle in both directions at every      *)
(* step, in ascending order from the head, and none meets a sibling in its *)
(* slot: the assertions of sll::unlink hold, attach_child never panics.    *)
(***************************************************************************)
THEOREM CircleHolds == Spec => []Circle
<1>1. ASSUME SllInv, NEW p \in Lists, NEW e \in Members(p), next[e] # head[p]
      PROVE  key[e] <= key[next[e]] /\ (Idle => key[e] < key[next[e]])
  <2>1. /\ Members(p) \in SUBSET Elems /\ RingOf(Members(p), head[p], next, prev)
        /\ next \in [Elems -> ElemOrNull] /\ key \in [Elems -> Int]
    <3>1. Members(p) \in SUBSET Elems
      <4>1. CASE Idle
        BY <4>1 DEF Idle, NoCall, Members, Leaving
      <4>2. CASE Calling
        BY <4>2 DEF Calling, Members, Leaving
      <4> QED BY <1>1, <4>1, <4>2 DEF SllInv
    <3> QED BY <1>1, <3>1 DEF SllInv, Typed, Rings
  <2>2. next[e] \in Members(p) /\ head[p] \in Members(p)
    BY <2>1 DEF RingOf
  <2>3. CASE ~(Shifting /\ p = call.list)
    <3>1. SortedOf(Members(p), head[p], next, key)
      BY <1>1, <2>3 DEF SllInv, Sorted
    <3>2. key[e] < key[next[e]] /\ key[e] \in Int /\ key[next[e]] \in Int
      BY <1>1, <2>1, <2>2, <3>1 DEF SortedOf
    <3> QED BY <3>2
  <2>4. CASE Shifting /\ p = call.list
    <3>1. PICK old \in [Elems -> Int] : Progress(old)
      BY <1>1, <2>4 DEF SllInv
    <3>2. L = Members(p)
      BY <2>4 DEF L
    <3>3. Calling /\ ~Idle
      BY <1>1, <2>4 DEF SllInv, Shifting, Idle, NoCall
    <3> DEFINE h == head[p]
               s == call.start
               c == IF call.pc = "adjust" THEN call.curr ELSE s
    <3>4. /\ s \in L /\ c \in L /\ call.from \in Int /\ call.by \in Int
          /\ (call.by = 1 /\ s = h) \/ (call.by = -1 /\ call.from = old[s] + 1)
      BY <1>1, <2>4, <3>1, <3>3 DEF SllInv, Typed, Calls0, Shifting, Calling, Enters, Leaves, Looping, Progress
    <3>5. PICK P : P = Reached(old)
      OBVIOUS
    <3>6. P \in SUBSET L /\ (P = L \/ P = Passed(L, old, s, c))
      BY <3>5 DEF Reached, Passed
    <3>7. /\ SortedOf(L, h, next, old) /\ ShiftedIn(L, P, old, key, call.from, call.by)
          /\ RingOf(L, h, next, prev)
      BY <2>1, <2>4, <3>1, <3>2, <3>5 DEF Progress
    <3>8. /\ L \in SUBSET Elems /\ h \in L /\ e \in L /\ next[e] # h
          /\ next \in [Elems -> ElemOrNull] /\ key \in [Elems -> Int] /\ old \in [Elems -> Int]
      BY <1>1, <2>1, <2>2, <3>1, <3>2
    <3> HIDE DEF h, s, c, L
    <3>9. CASE P = L
      <4>1. ShiftedIn(L, L, old, key, call.from, call.by)
        BY <3>7, <3>9
      <4>2. \A x \in L : next[x] # h => key[x] <= key[next[x]]
        BY <3>4, <3>7, <3>8, <4>1, ShiftedWhole
      <4> QED BY <3>3, <3>8, <4>2
    <3>10. CASE P = Passed(L, old, s, c)
      <4>1. ShiftedIn(L, Passed(L, old, s, c), old, key, call.from, call.by)
        BY <3>7, <3>10
      <4>2. \A x \in L : next[x] # h => key[x] <= key[next[x]]
        BY <3>4, <3>7, <3>8, <4>1, ShiftedPart
      <4> QED BY <3>3, <3>8, <4>2
    <3> QED BY <3>6, <3>9, <3>10
  <2> QED BY <2>3, <2>4
<1>2. SllInv => Circle
  <2> SUFFICES ASSUME SllInv PROVE Circle
    OBVIOUS
  <2>1. call.pc # "panicked"
    BY DEF SllInv, Typed, Calls0
  <2>2. \A p \in Lists : RingOf(Members(p), head[p], next, prev)
    BY DEF SllInv, Rings
  <2> QED BY <1>1, <2>1, <2>2 DEF Circle, RingOf
<1> QED BY <1>2, SllInvHolds, PTL

(***************************************************************************)
(* "Because of Case 2, we can't loop beyond the head": the search of       *)
(* sll::link goes on from an element only when it is not the head.         *)
(***************************************************************************)
THEOREM SearchStopsAtHead == Spec => StopsAtHead
<1>1. ASSUME SllInv, [Next]_vars
      PROVE  [call.pc = "search" /\ call'.pc = "search" => call.curr # head[call.list]]_vars
  <2> SUFFICES ASSUME Next, call.pc = "search", call'.pc = "search"
               PROVE  call.curr # head[call.list]
    BY <1>1
  <2>1. Calling /\ ~Idle
    BY <1>1 DEF SllInv, Idle, NoCall
  <2>2. Step
    BY <2>1 DEF Next, Free, Detach, NewData, Attach
  <2>3. ~AdjustStep /\ ~Unlink /\ ~LinkEmpty /\ ~LinkBeforeHead /\ ~LinkSearch
    BY DEF AdjustStep, Unlink, LinkEmpty, LinkBeforeHead, LinkSearch
  <2>4. ~SearchEnd
    BY DEF SearchEnd, Added, NoCall
  <2>5. ~SearchFound
    BY <1>1 DEF SearchFound, NoCall, SllInv, Typed, Calls0
  <2> QED BY <1>1, <2>1, <2>2, <2>3, <2>4, <2>5, SearchGoesOn DEF Step
<1> QED BY <1>1, SllInvHolds, PTL DEF Spec, StopsAtHead

-----------------------------------------------------------------------------
(***************************************************************************)
(* The sorted linked list implements the set of siblings: every call has   *)
(* its effect in one step, and the loops of sll::link and sll::adjust are  *)
(* stutters.                                                               *)
(***************************************************************************)

(* The mapping: the slots of the children and how many there are. *)
Slotted == [p \in Lists |-> Settle(p)]
Counted == [p \in Lists |-> SlotsAfter(p)]

(* Where no loop of adjust is under way, the keys are the slots. *)
LEMMA SettledElsewhere ==
  ASSUME call.pc # "adjust"
  PROVE  \A x : Settled(x) = key[x]
BY DEF Settled

(***************************************************************************)
(* In the loop, the keys of the elements passed and the prediction for the *)
(* others give what the loop leaves behind.                                *)
(***************************************************************************)
Predicted(k, s, c, x, from, by) ==
  IF k[c] >= k[s] /\ (x = c \/ k[x] > k[c]) /\ k[x] >= from THEN k[x] + by ELSE k[x]

LEMMA InLoop ==
  ASSUME NEW M \in SUBSET Elems, NEW h \in M, NEW nx, NEW s \in M, NEW c \in M, NEW x \in M,
         NEW old \in [Elems -> Int], NEW k, NEW from \in Int, NEW by \in Int,
         SortedOf(M, h, nx, old), ShiftedIn(M, Passed(M, old, s, c), old, k, from, by),
         (by = 1 /\ s = h) \/ (by = -1 /\ from = old[s] + 1 /\ x # s)
  PROVE  Predicted(k, s, c, x, from, by) = IF old[x] >= from THEN old[x] + by ELSE old[x]
<1>1. \A y, z \in M : (old[y] = old[z] => y = z) /\ old[h] <= old[y] /\ old[y] \in Int
  BY DEF SortedOf
<1>2. \A y \in M : k[y] = IF /\ IF old[c] >= old[s] THEN old[s] <= old[y] /\ old[y] < old[c]
                                                   ELSE old[s] <= old[y] \/ old[y] < old[c]
                             /\ old[y] >= from
                          THEN old[y] + by ELSE old[y]
  BY DEF ShiftedIn, Passed
<1>3. CASE by = 1 /\ s = h
  BY <1>1, <1>2, <1>3 DEF Predicted
<1>4. CASE by = -1 /\ from = old[s] + 1 /\ x # s
  BY <1>1, <1>2, <1>4 DEF Predicted
<1> QED BY <1>3, <1>4

LEMMA SettledInLoop ==
  ASSUME call.pc = "adjust", NEW x, parent[x] = call.list
  PROVE  Settled(x) = Predicted(key, call.start, call.curr, x, call.from, call.by)
BY DEF Settled, ToCome, Predicted

(* The keys of the other lists do not move. *)
LEMMA SettledApart ==
  ASSUME NEW x, parent[x] # call.list
  PROVE  Settled(x) = key[x]
BY DEF Settled, ToCome

(* A parent whose children and their slots stay is the same to the set. *)
LEMMA SettleSame ==
  ASSUME NEW p, Calls("attach", p) <=> Calls("attach", p)',
         Calls("attach", p) => call'.elem = call.elem /\ call'.index = call.index,
         \A x : x \in (Members(p) \ Leaving(p))' <=> x \in Members(p) \ Leaving(p),
         \A x \in Members(p) \ Leaving(p) : Settled(x)' = Settled(x)
  PROVE  Settle(p)' = Settle(p)
<1>1. {[elem |-> x, slot |-> Settled(x)] : x \in Members(p) \ Leaving(p)}'
      = {[elem |-> x, slot |-> Settled(x)] : x \in Members(p) \ Leaving(p)}
  OBVIOUS
<1> QED BY <1>1 DEF Settle

LEMMA SetInit == Init => Set!Init
<1> SUFFICES ASSUME Init PROVE Set!Init
  OBVIOUS
<1>1. ASSUME NEW p \in Lists
      PROVE  Settle(p) = {} /\ SlotsAfter(p) = slots[p]
  BY ElemsAssumption DEF Init, Settle, SlotsAfter, Calls, Members, Entering, Leaving, NoCall
<1>2. \A p \in Lists : slots[p] \in Nat
  BY SlotsAssumption DEF Init
<1> QED BY <1>1, <1>2 DEF Set!Init

(* Between calls, the set shows the members and the keys. *)
LEMMA IdleSet ==
  ASSUME SllInv, Idle
  PROVE  \A p \in Lists : /\ Members(p) = {x \in Elems : parent[x] = p}
                          /\ Settle(p) = {[elem |-> x, slot |-> key[x]] : x \in Members(p)}
                          /\ SlotsAfter(p) = slots[p]
<1>1. \A x : Settled(x) = key[x]
  BY SettledElsewhere DEF Idle, NoCall
<1>2. call.op = "none"
  BY DEF Idle, NoCall
<1> QED BY <1>1, <1>2 DEF Settle, SlotsAfter, Calls, Members, Entering, Leaving

LEMMA FreeRemoves ==
  ASSUME SllInv, NEW e \in Elems, Free(e)
  PROVE  Set!Next
<1>1. /\ Idle /\ parent[e] # NULL /\ parent' = [parent EXCEPT ![e] = NULL]
      /\ UNCHANGED <<head, next, prev, key, slots>>
      /\ call' = [NoCall EXCEPT !.op = "free", !.pc = "unlink", !.list = parent[e], !.elem = e]
  BY DEF Free
<1>2. PICK p \in Lists : p = parent[e]
  BY <1>1, LeaverStays DEF NoCall
<1>3. e \in Members(p) /\ \A q \in Lists : Members(q)' = Members(q)
  BY <1>1, <1>2, LeaverStays DEF NoCall
<1>4. call'.op = "free" /\ call'.pc = "unlink" /\ call'.list = p /\ call'.elem = e
  BY <1>1, <1>2 DEF NoCall
<1>5. \A x : Settled(x)' = key[x]
  BY <1>1, <1>4 DEF Settled
<1>6. \A q \in Lists : /\ Settle(q) = {[elem |-> x, slot |-> key[x]] : x \in Members(q)}
                       /\ Settle(q)' = {[elem |-> x, slot |-> key[x]] :
                                            x \in Members(q) \ (IF q = p THEN {e} ELSE {})}
                       /\ SlotsAfter(q) = slots[q] /\ SlotsAfter(q)' = slots[q]
  BY <1>1, <1>3, <1>4, <1>5, IdleSet DEF Settle, SlotsAfter, Calls, Leaving
<1> DEFINE r == [elem |-> e, slot |-> key[e]]
<1>7. r \in Settle(p) /\ Settle(p)' = Settle(p) \ {r}
  BY <1>2, <1>3, <1>6
<1>8. \A q \in Lists \ {p} : Settle(q)' = Settle(q)
  BY <1>6
<1>9. Set!Remove(p, r)
  BY <1>6, <1>7, <1>8 DEF Set!Remove
<1> QED BY <1>7, <1>9 DEF Set!Next

(* An edit shifts the slots of the children from `from` on. *)
LEMMA ShiftSlots ==
  ASSUME NEW M, NEW k, NEW from, NEW by
  PROVE  Set!Shifted({[elem |-> x, slot |-> k[x]] : x \in M}, from, by)
         = {[elem |-> x, slot |-> IF k[x] >= from THEN k[x] + by ELSE k[x]] : x \in M}
<1> DEFINE At(x) == [elem |-> x, slot |-> k[x]]
           Moved(s) == IF s.slot >= from THEN [s EXCEPT !.slot = @ + by] ELSE s
           To(x) == [elem |-> x, slot |-> IF k[x] >= from THEN k[x] + by ELSE k[x]]
<1>1. \A x : Moved(At(x)) = To(x)
  OBVIOUS
<1>2. {Moved(s) : s \in {At(x) : x \in M}} = {To(x) : x \in M}
  <2> HIDE DEF At, Moved, To
  <2> QED BY <1>1
<1> QED BY <1>2 DEF Set!Shifted

LEMMA DetachDetaches ==
  ASSUME SllInv, NEW e \in Elems, Detach(e)
  PROVE  Set!Next
<1>1. /\ Idle /\ parent[e] # NULL /\ parent' = [parent EXCEPT ![e] = NULL]
      /\ UNCHANGED <<head, next, prev, key, slots>>
      /\ call' = [NoCall EXCEPT !.op = "detach", !.pc = "adjust", !.list = parent[e], !.elem = e,
                                !.from = key[e] + 1, !.by = -1, !.start = e, !.curr = e]
  BY DEF Detach, Behind
<1>2. PICK p \in Lists : p = parent[e]
  BY <1>1, LeaverStays DEF NoCall
<1>3. e \in Members(p) /\ \A q \in Lists : Members(q)' = Members(q)
  BY <1>1, <1>2, LeaverStays DEF NoCall
<1>4. call'.op = "detach" /\ call'.pc = "adjust" /\ call'.list = p /\ call'.elem = e
      /\ call'.from = key[e] + 1 /\ call'.by = -1 /\ call'.start = e /\ call'.curr = e
  BY <1>1, <1>2 DEF NoCall
<1>5. /\ \A q \in Lists : Members(q) = {x \in Elems : parent[x] = q}
      /\ \A x \in Elems : key[x] \in Int
  BY <1>1, IdleSet DEF SllInv, Typed
<1>6. \A q \in Lists \ {p} : \A x \in Members(q) : Settled(x)' = key[x]
  BY <1>1, <1>4, <1>5 DEF Settled, ToCome
<1>7. \A x \in Members(p) \ {e} : Settled(x)' = IF key[x] >= key[e] + 1 THEN key[x] - 1 ELSE key[x]
  <2> SUFFICES ASSUME NEW x \in Members(p) \ {e}
               PROVE  Settled(x)' = IF key[x] >= key[e] + 1 THEN key[x] - 1 ELSE key[x]
    OBVIOUS
  <2>1. parent'[x] = p /\ key'[x] = key[x] /\ key'[e] = key[e] /\ key[x] \in Int /\ key[e] \in Int
    BY <1>1, <1>5 DEF SllInv, Typed
  <2> QED BY <1>4, <2>1 DEF Settled, ToCome
<1> DEFINE r == [elem |-> e, slot |-> key[e]]
           S == Settle(p)
<1>8. \A q \in Lists : /\ Settle(q) = {[elem |-> x, slot |-> key[x]] : x \in Members(q)}
                       /\ SlotsAfter(q) = slots[q]
  BY <1>1, IdleSet
<1>9. /\ \A q \in Lists \ {p} : Settle(q)' = {[elem |-> x, slot |-> key[x]] : x \in Members(q)}
      /\ Settle(p)' = {[elem |-> x, slot |-> IF key[x] >= key[e] + 1 THEN key[x] - 1 ELSE key[x]] :
                          x \in Members(p) \ {e}}
      /\ \A q \in Lists : SlotsAfter(q)' = IF q = p THEN slots[q] - 1 ELSE slots[q]
  BY <1>1, <1>3, <1>4, <1>6, <1>7 DEF Settle, SlotsAfter, Calls, Leaving
<1>10. S \ {r} = {[elem |-> x, slot |-> key[x]] : x \in Members(p) \ {e}}
  BY <1>8
<1>11. Settle(p)' = Set!Shifted(S \ {r}, r.slot + 1, -1)
  <2>1. Set!Shifted({[elem |-> x, slot |-> key[x]] : x \in Members(p) \ {e}}, key[e] + 1, -1)
        = {[elem |-> x, slot |-> IF key[x] >= key[e] + 1 THEN key[x] + -1 ELSE key[x]] : x \in Members(p) \ {e}}
    <3>1. PICK M, by : M = Members(p) \ {e} /\ by = -1
      OBVIOUS
    <3>2. Set!Shifted({[elem |-> x, slot |-> key[x]] : x \in M}, key[e] + 1, by)
          = {[elem |-> x, slot |-> IF key[x] >= key[e] + 1 THEN key[x] + by ELSE key[x]] : x \in M}
      BY ShiftSlots
    <3> QED BY <3>1, <3>2
  <2>2. \A x \in Members(p) \ {e} : key[x] + -1 = key[x] - 1
    BY <1>5
  <2> HIDE DEF S
  <2> QED BY <1>9, <1>10, <2>1, <2>2
<1>12. r \in S /\ \A q \in Lists \ {p} : Settle(q)' = Settle(q)
  BY <1>3, <1>8, <1>9
<1>13. Set!Detach(p, r)
  <2> HIDE DEF r
  <2> QED BY <1>8, <1>9, <1>11, <1>12 DEF Set!Detach
<1> QED BY <1>12, <1>13 DEF Set!Next

LEMMA AttachAttaches ==
  ASSUME SllInv, NEW p \in Lists, NEW e \in Elems, NEW i \in 0 .. MaxSlots, Attach(p, e, i)
  PROVE  Set!Next
<1>1. /\ Idle /\ parent[e] = NULL /\ i <= slots[p] /\ i \in Nat
      /\ key' = [key EXCEPT ![e] = i] /\ parent' = [parent EXCEPT ![e] = p]
      /\ UNCHANGED <<head, next, prev, slots>>
      /\ call' = [NoCall EXCEPT !.op = "attach", !.pc = IF head[p] = NULL THEN "link" ELSE "adjust",
                                !.list = p, !.elem = e, !.index = i, !.from = i, !.by = 1,
                                !.start = head[p], !.curr = head[p]]
  BY SlotsAssumption DEF Attach
<1>2. call'.list = p /\ call'.elem = e /\ call'.op = "attach" /\ call'.index = i /\ call'.from = i
      /\ call'.by = 1 /\ call'.start = head[p] /\ call'.curr = head[p]
      /\ call'.pc = IF head[p] = NULL THEN "link" ELSE "adjust"
  BY <1>1 DEF NoCall
<1>3. /\ \A q \in Lists : Members(q) = {x \in Elems : parent[x] = q}
      /\ key \in [Elems -> Int] /\ parent \in [Elems -> ListOrNull] /\ slots \in [Lists -> Int]
  BY <1>1, IdleSet DEF SllInv, Typed
<1>4. \A q \in Lists : e \notin Members(q) /\ Members(q)' = Members(q)
  BY <1>1, <1>2, <1>3, ElemsAssumption DEF Members, Entering, Leaving
<1>5. \A x \in Elems \ {e} : key'[x] = key[x] /\ parent'[x] = parent[x]
  BY <1>1, <1>3
<1>6. \A q \in Lists \ {p} : \A x \in Members(q) : Settled(x)' = key[x]
  BY <1>2, <1>3, <1>4, <1>5 DEF Settled, ToCome
<1>7. \A x \in Members(p) : Settled(x)' = IF key[x] >= i THEN key[x] + 1 ELSE key[x]
  <2> SUFFICES ASSUME NEW x \in Members(p)
               PROVE  Settled(x)' = IF key[x] >= i THEN key[x] + 1 ELSE key[x]
    OBVIOUS
  <2>1. RingOf(Members(p), head[p], next, prev) /\ SortedOf(Members(p), head[p], next, key)
    BY <1>1 DEF SllInv, Rings, Sorted, Shifting, Idle, NoCall
  <2>2. head[p] \in Members(p) /\ key[head[p]] <= key[x] /\ (key[x] = key[head[p]] => x = head[p])
    BY <2>1 DEF RingOf, SortedOf
  <2>3. head[p] # NULL
    BY <1>3, <2>2, ElemsAssumption
  <2>4. /\ parent'[x] = p /\ key'[x] = key[x] /\ key'[head[p]] = key[head[p]]
        /\ key[x] \in Int /\ key[head[p]] \in Int
    BY <1>3, <1>4, <1>5, <2>2
  <2> QED BY <1>2, <2>2, <2>3, <2>4 DEF Settled, ToCome
<1> DEFINE r == [elem |-> e, slot |-> i]
           S == Settle(p)
<1>8. \A q \in Lists : /\ Settle(q) = {[elem |-> x, slot |-> key[x]] : x \in Members(q)}
                       /\ SlotsAfter(q) = slots[q]
  BY <1>1, IdleSet
<1>9. /\ \A q \in Lists \ {p} : Settle(q)' = {[elem |-> x, slot |-> key[x]] : x \in Members(q)}
      /\ Settle(p)' = {[elem |-> x, slot |-> IF key[x] >= i THEN key[x] + 1 ELSE key[x]] : x \in Members(p)}
                        \cup {r}
      /\ \A q \in Lists : SlotsAfter(q)' = IF q = p THEN slots[q] + 1 ELSE slots[q]
  BY <1>1, <1>2, <1>4, <1>6, <1>7 DEF Settle, SlotsAfter, Calls, Leaving
<1>10. Settle(p)' = Set!Shifted(S, i, 1) \cup {r}
  <2> HIDE DEF r
  <2> QED BY <1>8, <1>9, ShiftSlots
<1>11. e \in Set!Loose
  <2>1. \A q \in Lists : \A s \in Settle(q) : s.elem # e
    BY <1>4, <1>8
  <2> QED BY <2>1 DEF Set!Loose, Set!Linked
<1>12. i \in 0 .. SlotsAfter(p)
  BY <1>1, <1>3, <1>8
<1>13. Set!Attach(p, e, i)
  <2>1. \A q \in Lists \ {p} : Settle(q)' = Settle(q)
    BY <1>8, <1>9
  <2> HIDE DEF S
  <2>2. [q \in Lists |-> Settle(q)]' = [[q \in Lists |-> Settle(q)] EXCEPT ![p] = Set!Shifted(@, i, 1) \cup {r}]
    BY <1>10, <2>1 DEF S
  <2>3. [q \in Lists |-> SlotsAfter(q)]' = [[q \in Lists |-> SlotsAfter(q)] EXCEPT ![p] = @ + 1]
    BY <1>8, <1>9
  <2> QED BY <1>11, <1>12, <2>2, <2>3 DEF Set!Attach
<1> QED BY <1>12, <1>13 DEF Set!Next

-----------------------------------------------------------------------------
(***************************************************************************)
(* The steps the set does not see.                                         *)
(***************************************************************************)
Unseen == \A p \in Lists : Settle(p)' = Settle(p) /\ SlotsAfter(p)' = SlotsAfter(p)

(* A step that leaves the members, their keys and the call of a list as they are. *)
LEMMA SameSet ==
  ASSUME NEW p \in Lists, Members(p)' = Members(p), Leaving(p)' = Leaving(p), slots' = slots,
         Calls("attach", p) <=> Calls("attach", p)', Calls("detach", p) <=> Calls("detach", p)',
         Calls("attach", p) => call'.elem = call.elem /\ call'.index = call.index,
         \A x \in Members(p) \ Leaving(p) : Settled(x)' = Settled(x)
  PROVE  Settle(p)' = Settle(p) /\ SlotsAfter(p)' = SlotsAfter(p)
<1>1. \A x : x \in (Members(p) \ Leaving(p))' <=> x \in Members(p) \ Leaving(p)
  OBVIOUS
<1>2. Settle(p)' = Settle(p)
  BY <1>1, SettleSame
<1> QED BY <1>2 DEF SlotsAfter

LEMMA NewDataUnseen ==
  ASSUME SllInv, NEW p \in Lists, NEW e \in Elems, NEW i \in 0 .. MaxSlots, NewData(p, e, i)
  PROVE  Unseen
<1>1. /\ Idle /\ UNCHANGED <<head, next, prev, key, parent, slots>>
      /\ call.op = "none" /\ call.pc = "idle" /\ call'.op = "new" /\ call'.pc = "link"
  BY DEF NewData, Idle, NoCall
<1>2. \A q \in Lists : Members(q)' = Members(q) /\ Leaving(q)' = Leaving(q)
  BY <1>1 DEF Members, Entering, Leaving
<1>3. \A x : Settled(x)' = Settled(x)
  BY <1>1 DEF Settled
<1>4. \A q \in Lists : ~Calls("attach", q) /\ ~Calls("attach", q)' /\ ~Calls("detach", q) /\ ~Calls("detach", q)'
  BY <1>1 DEF Calls
<1> QED BY <1>1, <1>2, <1>3, <1>4, SameSet DEF Unseen

(* While the call goes on. *)
LEMMA GoesOnUnseen ==
  ASSUME UNCHANGED <<parent, slots>>, call'.op = call.op, call'.list = call.list,
         call'.elem = call.elem, call'.index = call.index,
         \A p \in Lists : \A x \in Members(p) \ Leaving(p) : Settled(x)' = Settled(x)
  PROVE  Unseen
<1>1. \A p \in Lists : Members(p)' = Members(p) /\ Leaving(p)' = Leaving(p)
  BY GoesOn DEF Leaving
<1>2. \A p \in Lists : (Calls("attach", p)' <=> Calls("attach", p)) /\ (Calls("detach", p)' <=> Calls("detach", p))
  BY DEF Calls
<1> QED BY <1>1, <1>2, SameSet DEF Unseen

LEMMA AdjustUnseen ==
  ASSUME SllInv, Calling, AdjustStep
  PROVE  Unseen
<1>1. /\ call.pc = "adjust" /\ call \in Calls0
      /\ UNCHANGED <<head, next, prev, parent, slots>>
      /\ call' = IF next[call.curr] = call.start
                 THEN [call EXCEPT !.pc = IF call.op = "detach" THEN "unlink" ELSE "link"]
                 ELSE [call EXCEPT !.curr = next[call.curr]]
      /\ key' = IF key[call.curr] >= call.from THEN [key EXCEPT ![call.curr] = @ + call.by] ELSE key
  BY DEF AdjustStep, AroundAt, SllInv, Typed
<1>2. /\ call'.op = call.op /\ call'.list = call.list /\ call'.elem = call.elem /\ call'.index = call.index
      /\ call'.from = call.from /\ call'.by = call.by /\ call'.start = call.start
      /\ call'.pc = (IF next[call.curr] # call.start THEN "adjust"
                     ELSE IF call.op = "detach" THEN "unlink" ELSE "link")
      /\ next[call.curr] # call.start => call'.curr = next[call.curr]
  BY <1>1 DEF Calls0
<1>3. call.pc = "adjust" /\ L' = L
  BY <1>1, <1>2, GoesOn
<1>5. PICK old \in [Elems -> Int] : Progress(old)
  BY <1>1 DEF SllInv, Shifting
<1>6. ShiftedIn(L, IF next[call.curr] = call.start THEN L ELSE Passed(L, old, call.start, next[call.curr]),
                old, key', call.from, call.by)
  BY <1>5, AdjustPasses
<1>7. ASSUME NEW x \in L, x # call.elem
      PROVE  Settled(x)' = Settled(x)
  <2> DEFINE c == call.curr
             s == call.start
             h == head[call.list]
             f == call.from
             b == call.by
  <2>1. /\ c \in L /\ s \in L /\ h \in L /\ next[c] \in L /\ L \in SUBSET Elems /\ f \in Int /\ b \in Int
        /\ parent[x] = call.list /\ call.list \in Lists
        /\ old \in [Elems -> Int] /\ SortedOf(L, h, next, old)
        /\ (b = 1 /\ s = h) \/ (b = -1 /\ f = old[s] + 1 /\ x # s)
    <3>1. L \in SUBSET Elems /\ RingOf(L, h, next, prev)
      BY DEF SllInv, Rings, Calling, L, Members, Leaving
    <3>2. c \in L /\ s \in L /\ f \in Int /\ b \in Int
      BY <1>1 DEF Calls0, Calling, Looping
    <3>3. parent[x] = call.list
      BY <1>7 DEF L, Members, Leaving
    <3>4. SortedOf(L, h, next, old) /\ (call.op = "detach" => f = old[call.elem] + 1)
      BY <1>5 DEF Progress
    <3>5. (b = 1 /\ s = h) \/ (b = -1 /\ s = call.elem /\ call.op = "detach")
      BY <1>1 DEF Calling, Looping
    <3> QED BY <1>5, <1>7, <3>1, <3>2, <3>3, <3>4, <3>5 DEF RingOf, Calling
  <2>2. Settled(x) = IF old[x] >= f THEN old[x] + b ELSE old[x]
    <3>1. ShiftedIn(L, Passed(L, old, s, c), old, key, f, b)
      BY <1>1, <1>5 DEF Progress, Reached
    <3>2. Settled(x) = Predicted(key, s, c, x, f, b)
      BY <1>1, <2>1, SettledInLoop
    <3> HIDE DEF c, s, h, f, b, L
    <3> QED BY <1>7, <2>1, <3>1, <3>2, InLoop
  <2>3. CASE next[c] # s
    <3>1. ShiftedIn(L, Passed(L, old, s, next[c]), old, key', f, b)
      BY <1>6, <2>3
    <3>2. Settled(x)' = Predicted(key', s, next[c], x, f, b)
      BY <1>1, <1>2, <2>1, <2>3 DEF Settled, ToCome, Predicted
    <3> HIDE DEF c, s, h, f, b, L
    <3>3. Predicted(key', s, next[c], x, f, b) = IF old[x] >= f THEN old[x] + b ELSE old[x]
      BY <1>7, <2>1, <3>1, InLoop
    <3> QED BY <2>2, <3>2, <3>3
  <2>4. CASE next[c] = s
    <3>1. Settled(x)' = key'[x]
      BY <1>2, <2>4 DEF Settled
    <3> QED BY <1>6, <1>7, <2>2, <2>4, <3>1 DEF ShiftedIn
  <2> QED BY <2>3, <2>4
<1>8. ASSUME NEW p \in Lists, p # call.list, NEW x \in Members(p)
      PROVE  Settled(x)' = Settled(x)
  <2>1. x \in Elems /\ x \notin L /\ parent[x] # call.list
    BY <1>8, Apart DEF SllInv, Calling, L, Members, Leaving
  <2>2. Settled(x) = key[x] /\ Settled(x)' = key'[x]
    BY <1>1, <1>2, <2>1, SettledApart DEF Settled, ToCome
  <2>3. call.curr \in L /\ key \in [Elems -> Int]
    BY <1>1 DEF SllInv, Typed, Calling, Looping
  <2> QED BY <1>1, <2>1, <2>2, <2>3
<1>9. \A p \in Lists : \A x \in Members(p) \ Leaving(p) : Settled(x)' = Settled(x)
  <2> SUFFICES ASSUME NEW p \in Lists, NEW x \in Members(p) \ Leaving(p)
               PROVE  Settled(x)' = Settled(x)
    OBVIOUS
  <2>1. CASE p = call.list
    <3>1. x \in L /\ x # call.elem
      BY <2>1 DEF L, Calling, Enters, Leaves, Leaving
    <3> QED BY <1>7, <3>1
  <2> QED BY <1>8, <2>1
<1> QED BY <1>1, <1>2, <1>9, GoesOnUnseen

LEMMA UnlinkUnseen ==
  ASSUME SllInv, Calling, Unlink
  PROVE  Unseen
<1>1. PICK p \in Lists : p = call.list
  BY DEF Calling
<1>2. /\ call.pc = "unlink" /\ call.op \in {"detach", "free"} /\ parent[call.elem] = NULL
      /\ UNCHANGED <<key, parent>> /\ call' = NoCall
      /\ slots' = IF call.op = "detach" THEN [slots EXCEPT ![p] = @ - 1] ELSE slots
      /\ slots \in [Lists -> Int]
  BY <1>1 DEF Unlink, Calling, Enters, Leaves, SllInv, Typed
<1>3. \A x : Settled(x) = key[x] /\ Settled(x)' = key[x]
  BY <1>2 DEF Settled, NoCall
<1>4. \A q \in Lists : (Members(q) \ Leaving(q))' = Members(q) \ Leaving(q)
  BY <1>2, ElemsAssumption DEF Members, Entering, Leaving, NoCall
<1>5. \A q \in Lists : ~Calls("attach", q) /\ ~Calls("attach", q)' /\ ~Calls("detach", q)'
                       /\ (Calls("detach", q) <=> call.op = "detach" /\ q = p)
  BY <1>1, <1>2 DEF Calls, NoCall
<1>6. \A q \in Lists : Settle(q)' = Settle(q)
  BY <1>3, <1>4, <1>5 DEF Settle
<1>7. \A q \in Lists : SlotsAfter(q)' = SlotsAfter(q)
  BY <1>2, <1>5 DEF SlotsAfter
<1> QED BY <1>6, <1>7 DEF Unseen

LEMMA LookingUnseen ==
  ASSUME SllInv, Calling, LinkSearch \/ SearchStep
  PROVE  Unseen
<1>1. UNCHANGED <<key, parent, slots>> /\ call \in Calls0
      /\ (call' = [call EXCEPT !.pc = "search", !.curr = prev[head[call.list]]]
          \/ call' = [call EXCEPT !.curr = prev[call.curr]])
      /\ call.pc # "adjust"
  BY DEF LinkSearch, SearchStep, SllInv, Typed
<1>2. /\ call'.op = call.op /\ call'.list = call.list /\ call'.elem = call.elem /\ call'.index = call.index
      /\ call'.pc # "adjust"
  BY <1>1 DEF Calls0
<1>3. \A x : Settled(x)' = Settled(x)
  BY <1>1, <1>2 DEF Settled
<1> QED BY <1>1, <1>2, <1>3, GoesOnUnseen

LEMMA FoundUnseen ==
  ASSUME SllInv, Calling, SearchFound
  PROVE  Unseen
<1>1. /\ call.pc = "search" /\ key[call.curr] = call.index /\ call.curr \in L
      /\ UNCHANGED <<head, next, prev, key, parent, slots>>
      /\ call' = IF call.op = "new" THEN NoCall ELSE [call EXCEPT !.pc = "panicked"]
  BY DEF SearchFound, Calling, Searching
<1>2. call.op = "new" /\ call' = NoCall
  BY <1>1 DEF Calling, Leaves
<1>3. \A q \in Lists : Members(q)' = Members(q) /\ Leaving(q)' = Leaving(q)
  BY <1>1, <1>2 DEF Members, Entering, Leaving, NoCall
<1>4. \A x : Settled(x)' = Settled(x)
  BY <1>1, <1>2 DEF Settled, NoCall
<1>5. \A q \in Lists : ~Calls("attach", q) /\ ~Calls("attach", q)' /\ ~Calls("detach", q) /\ ~Calls("detach", q)'
  BY <1>2 DEF Calls, NoCall
<1> QED BY <1>1, <1>3, <1>4, <1>5, SameSet DEF Unseen

(***************************************************************************)
(* The element gets its place in the circle: a child NodeData::new has     *)
(* made enters the set, one attach_child attaches has been there.          *)
(***************************************************************************)
Adding == LinkEmpty \/ LinkBeforeHead \/ SearchEnd

LEMMA AddingFacts ==
  ASSUME SllInv, Calling, Adding, NEW p \in Lists, p = call.list, NEW e \in Elems, e = call.elem
  PROVE  /\ call.op \in {"new", "attach"} /\ call.index \in Nat /\ slots \in [Lists -> Int]
         /\ \A q \in Lists : e \notin Members(q)
         /\ \A x \in Members(p) : key[x] # call.index
         /\ \A q \in Lists : /\ (Members(q) \ Leaving(q))' = Members(q) \cup (IF q = p THEN {e} ELSE {})
                             /\ Leaving(q) = {}
         /\ \A q \in Lists : \A x \in Members(q) : Settled(x) = key[x] /\ Settled(x)' = key[x]
         /\ Settled(e)' = call.index
         /\ call' = NoCall
         /\ slots' = IF call.op = "attach" THEN [slots EXCEPT ![p] = @ + 1] ELSE slots
<1> DEFINE i == call.index
<1>1. /\ call.pc \in {"link", "search"}
      /\ key' = [key EXCEPT ![e] = i] /\ parent' = [parent EXCEPT ![e] = p] /\ call' = NoCall
      /\ slots' = IF call.op = "attach" THEN [slots EXCEPT ![p] = @ + 1] ELSE slots
  BY DEF Adding, LinkEmpty, LinkBeforeHead, SearchEnd, Added
<1>2. /\ Enters /\ L = Members(p) /\ e \in Elems \ L /\ i \in Int /\ L \in SUBSET Elems
      /\ key \in [Elems -> Int] /\ RingOf(L, head[p], next, prev) /\ SortedOf(L, head[p], next, key)
  BY <1>1, LinkFacts DEF L
<1>3. /\ call.op \in {"new", "attach"} /\ i \in Nat /\ slots \in [Lists -> Int]
      /\ parent \in [Elems -> ListOrNull] /\ parent[e] = IF call.op = "attach" THEN p ELSE NULL
  BY <1>2 DEF SllInv, Typed, Calls0, Calling, Enters, Leaves
<1>4. \A q \in Lists : e \notin Members(q)
  <2>1. \A q \in Lists \ {p} : e \notin Members(q)
    BY Apart DEF SllInv
  <2> QED BY <1>2, <2>1
<1>5. \A x \in Members(p) : key[x] # i
  <2>1. CASE LinkEmpty
    BY <1>2, <2>1, ElemsAssumption DEF LinkEmpty, RingOf
  <2>2. CASE LinkBeforeHead
    <3>1. head[p] \in L \/ L = {}
      BY <1>2 DEF RingOf
    <3>2. i < key[head[p]] /\ \A x \in L : key[head[p]] <= key[x]
      BY <1>2, <2>2 DEF LinkBeforeHead, SmallerThanHead, SortedOf
    <3> QED BY <1>2, <3>1, <3>2
  <2>3. CASE SearchEnd
    <3>1. /\ call.curr \in L /\ key[call.curr] < i
          /\ \A x \in L : key[call.curr] < key[x] => i < key[x]
      BY <2>3 DEF SearchEnd, Calling, Searching
    <3> QED BY <1>2, <3>1
  <2> QED BY <2>1, <2>2, <2>3 DEF Adding
<1>6. \A q \in Lists : Members(q) = {x \in Elems : parent[x] = q} \ {e} /\ Leaving(q) = {}
  BY <1>3, <1>4 DEF Members, Entering, Leaving
<1>7. \A x \in Elems \ {e} : key'[x] = key[x] /\ parent'[x] = parent[x]
  BY <1>1, <1>2, <1>3
<1>8. key'[e] = i /\ parent'[e] = p
  BY <1>1, <1>2, <1>3
<1>9. \A q \in Lists : (Members(q) \ Leaving(q))' = Members(q) \cup (IF q = p THEN {e} ELSE {})
  <2>1. \A q \in Lists : (Members(q) \ Leaving(q))' = {x \in Elems : parent'[x] = q}
    BY <1>1 DEF Members, Entering, Leaving, NoCall
  <2> QED BY <1>2, <1>6, <1>7, <1>8, <2>1
<1>10. \A x : Settled(x) = key[x] /\ Settled(x)' = key'[x]
  BY <1>1 DEF Settled, NoCall
<1>11. \A q \in Lists : \A x \in Members(q) : Settled(x) = key[x] /\ Settled(x)' = key[x]
  BY <1>4, <1>6, <1>7, <1>10
<1>12. \A q \in Lists : Leaving(q) = {}
  BY <1>6
<1>13. Settled(e)' = i
  BY <1>8, <1>10
<1> QED BY <1>1, <1>2, <1>3, <1>4, <1>5, <1>9, <1>11, <1>12, <1>13

LEMMA AddingNew ==
  ASSUME SllInv, Calling, Adding, call.op = "new"
  PROVE  Set!Next
<1> DEFINE i == call.index
<1>1. PICK p \in Lists, e \in Elems : p = call.list /\ e = call.elem
  BY DEF Calling
<1> DEFINE r == [elem |-> e, slot |-> i]
<1>2. /\ i \in Nat /\ slots \in [Lists -> Int]
      /\ e \in Elems /\ \A q \in Lists : e \notin Members(q)
      /\ \A x \in Members(p) : key[x] # i
      /\ \A q \in Lists : /\ (Members(q) \ Leaving(q))' = Members(q) \cup (IF q = p THEN {e} ELSE {})
                          /\ Leaving(q) = {}
      /\ \A q \in Lists : \A x \in Members(q) : Settled(x) = key[x] /\ Settled(x)' = key[x]
      /\ Settled(e)' = i
      /\ call' = NoCall /\ slots' = slots
  BY <1>1, AddingFacts
<1>3. \A q \in Lists : ~Calls("attach", q) /\ ~Calls("attach", q)' /\ ~Calls("detach", q) /\ ~Calls("detach", q)'
  BY <1>2 DEF Calls, NoCall
<1>4. \A q \in Lists : Settle(q) = {[elem |-> x, slot |-> key[x]] : x \in Members(q)}
  BY <1>2, <1>3 DEF Settle
<1>5. \A q \in Lists : Settle(q)' = IF q = p THEN Settle(q) \cup {r} ELSE Settle(q)
  <2> SUFFICES ASSUME NEW q \in Lists
               PROVE  Settle(q)' = IF q = p THEN Settle(q) \cup {r} ELSE Settle(q)
    OBVIOUS
  <2>1. Settle(q)' = {[elem |-> x, slot |-> Settled(x)'] : x \in Members(q) \cup (IF q = p THEN {e} ELSE {})}
    BY <1>2, <1>3 DEF Settle
  <2>2. \A x \in Members(q) : Settled(x)' = key[x]
    BY <1>2
  <2>3. Settled(e)' = i
    BY <1>2
  <2>4. CASE q = p
    <3>1. Settle(q)' = {[elem |-> x, slot |-> Settled(x)'] : x \in Members(q)} \cup {r}
      BY <2>1, <2>3, <2>4
    <3>2. {[elem |-> x, slot |-> Settled(x)'] : x \in Members(q)} = {[elem |-> x, slot |-> key[x]] : x \in Members(q)}
      BY <2>2
    <3> HIDE DEF r
    <3> QED BY <1>4, <2>4, <3>1, <3>2
  <2>5. CASE q # p
    BY <1>4, <2>1, <2>2, <2>5
  <2> QED BY <2>4, <2>5
<1>6. \A q \in Lists : SlotsAfter(q) = slots[q] /\ SlotsAfter(q)' = slots[q]
  BY <1>2, <1>3 DEF SlotsAfter
<1>7. i < slots[p] /\ i \in 0 .. slots[p] - 1 /\ i \in 0 .. slots[p]
  BY <1>1, <1>2 DEF Calling
<1>8. e \in Set!Loose
  <2>1. \A q \in Lists : \A s \in Settle(q) : s.elem # e
    BY <1>2, <1>4
  <2> QED BY <1>2, <2>1 DEF Set!Loose, Set!Linked
<1>9. i \notin Set!Taken(p)
  <2>1. \A s \in Settle(p) : s.slot # i
    BY <1>2, <1>4
  <2> QED BY <2>1 DEF Set!Taken
<1>10. Set!Add(p, e, i)
  <2>1. [q \in Lists |-> Settle(q)]' = [[q \in Lists |-> Settle(q)] EXCEPT ![p] = @ \cup {r}]
    BY <1>5
  <2>2. [q \in Lists |-> SlotsAfter(q)]' = [q \in Lists |-> SlotsAfter(q)]
    BY <1>6
  <2> QED BY <1>6, <1>7, <1>8, <1>9, <2>1, <2>2 DEF Set!Add
<1> QED BY <1>2, <1>6, <1>7, <1>10 DEF Set!Next

LEMMA AddingAttached ==
  ASSUME SllInv, Calling, Adding, call.op = "attach"
  PROVE  Unseen
<1> DEFINE i == call.index
<1>1. PICK p \in Lists, e \in Elems : p = call.list /\ e = call.elem
  BY DEF Calling
<1> DEFINE r == [elem |-> e, slot |-> i]
<1>2. /\ slots \in [Lists -> Int]
      /\ \A q \in Lists : /\ (Members(q) \ Leaving(q))' = Members(q) \cup (IF q = p THEN {e} ELSE {})
                          /\ Leaving(q) = {}
      /\ \A q \in Lists : \A x \in Members(q) : Settled(x) = key[x] /\ Settled(x)' = key[x]
      /\ Settled(e)' = i
      /\ call' = NoCall /\ slots' = [slots EXCEPT ![p] = @ + 1]
  BY <1>1, AddingFacts
<1>3. \A q \in Lists : /\ Calls("attach", q) <=> q = p
                       /\ ~Calls("attach", q)' /\ ~Calls("detach", q) /\ ~Calls("detach", q)'
  BY <1>1, <1>2 DEF Calls, NoCall
<1>4. \A q \in Lists : Settle(q) = {[elem |-> x, slot |-> key[x]] : x \in Members(q)}
                                     \cup IF q = p THEN {r} ELSE {}
  <2> SUFFICES ASSUME NEW q \in Lists
               PROVE  Settle(q) = {[elem |-> x, slot |-> key[x]] : x \in Members(q)}
                                    \cup IF q = p THEN {r} ELSE {}
    OBVIOUS
  <2>1. {[elem |-> x, slot |-> Settled(x)] : x \in Members(q) \ Leaving(q)}
        = {[elem |-> x, slot |-> key[x]] : x \in Members(q)}
    BY <1>2
  <2>2. r = [elem |-> call.elem, slot |-> call.index] /\ (Calls("attach", q) <=> q = p)
    BY <1>1, <1>3
  <2> HIDE DEF r
  <2> QED BY <2>1, <2>2 DEF Settle
<1>5. \A q \in Lists : Settle(q)' = Settle(q)
  <2> SUFFICES ASSUME NEW q \in Lists
               PROVE  Settle(q)' = Settle(q)
    OBVIOUS
  <2>1. Settle(q)' = {[elem |-> x, slot |-> Settled(x)'] : x \in Members(q) \cup (IF q = p THEN {e} ELSE {})}
    BY <1>2, <1>3 DEF Settle
  <2>2. \A x \in Members(q) : Settled(x)' = key[x]
    BY <1>2
  <2>3. Settled(e)' = i
    BY <1>2
  <2>4. CASE q = p
    <3>1. Settle(q)' = {[elem |-> x, slot |-> Settled(x)'] : x \in Members(q)} \cup {r}
      BY <2>1, <2>3, <2>4
    <3>2. {[elem |-> x, slot |-> Settled(x)'] : x \in Members(q)} = {[elem |-> x, slot |-> key[x]] : x \in Members(q)}
      BY <2>2
    <3> HIDE DEF r
    <3> QED BY <1>4, <2>4, <3>1, <3>2
  <2>5. CASE q # p
    BY <1>4, <2>1, <2>2, <2>5
  <2> QED BY <2>4, <2>5
<1>6. \A q \in Lists : SlotsAfter(q)' = SlotsAfter(q)
  BY <1>2, <1>3 DEF SlotsAfter
<1> QED BY <1>5, <1>6 DEF Unseen

-----------------------------------------------------------------------------
LEMMA SetStep ==
  ASSUME SllInv, [Next]_vars
  PROVE  [Set!Next]_Set!vars
<1>1. Unseen => UNCHANGED Set!vars
  BY DEF Unseen, Set!vars
<1>2. CASE UNCHANGED vars
  <2>1. \A p \in Lists : Members(p)' = Members(p) /\ Leaving(p)' = Leaving(p)
    BY <1>2 DEF vars, Members, Entering, Leaving
  <2>2. \A x : Settled(x)' = Settled(x)
    BY <1>2 DEF vars, Settled, ToCome
  <2>3. \A p \in Lists : (Calls("attach", p)' <=> Calls("attach", p)) /\ (Calls("detach", p)' <=> Calls("detach", p))
    BY <1>2 DEF vars, Calls
  <2>4. Unseen
    BY <1>2, <2>1, <2>2, <2>3, SameSet DEF vars, Unseen
  <2> QED BY <1>1, <2>4
<1>3. ASSUME NEW e \in Elems, Free(e)
      PROVE  Set!Next
  BY <1>3, FreeRemoves
<1>4. ASSUME NEW e \in Elems, Detach(e)
      PROVE  Set!Next
  BY <1>4, DetachDetaches
<1>5. ASSUME NEW e \in Elems, NEW p \in Lists, NEW i \in 0 .. MaxSlots, NewData(p, e, i)
      PROVE  Unseen
  BY <1>5, NewDataUnseen
<1>6. ASSUME NEW e \in Elems, NEW p \in Lists, NEW i \in 0 .. MaxSlots, Attach(p, e, i)
      PROVE  Set!Next
  BY <1>6, AttachAttaches
<1>7. CASE Step
  <2>1. Calling
    <3>1. call.pc # "idle"
      BY <1>7 DEF Step, AdjustStep, Unlink, LinkEmpty, LinkBeforeHead, LinkSearch, SearchStep, SearchEnd, SearchFound
    <3> QED BY <3>1 DEF SllInv, Idle, NoCall
  <2>2. CASE AdjustStep
    BY <1>1, <2>1, <2>2, AdjustUnseen
  <2>3. CASE Unlink
    BY <1>1, <2>1, <2>3, UnlinkUnseen
  <2>4. CASE Adding
    <3>1. call.op \in {"new", "attach"}
      BY <2>1, <2>4 DEF Calling, Leaves, Adding, LinkEmpty, LinkBeforeHead, SearchEnd
    <3> QED BY <1>1, <2>1, <2>4, <3>1, AddingNew, AddingAttached
  <2>5. CASE LinkSearch \/ SearchStep
    BY <1>1, <2>1, <2>5, LookingUnseen
  <2>6. CASE SearchFound
    BY <1>1, <2>1, <2>6, FoundUnseen
  <2> QED BY <1>7, <2>2, <2>3, <2>4, <2>5, <2>6 DEF Step, Adding
<1> QED BY <1>1, <1>2, <1>3, <1>4, <1>5, <1>6, <1>7 DEF Next

(***************************************************************************)
(* The sorted linked list implements the set of siblings: no two live      *)
(* children of a node stand for one slot, and an edit shifts the slots of  *)
(* the children behind it, all at once to whoever looks between the calls. *)
(***************************************************************************)
THEOREM ListImplementsSet == Spec => ImplementsSet
<1>1. Init => Set!Init
  BY SetInit
<1>2. SllInv /\ [Next]_vars => [Set!Next]_Set!vars
  BY SetStep
<1> QED BY <1>1, <1>2, SllInvHolds, PTL DEF Spec, ImplementsSet, Set!Spec
=============================================================================

-------------------------- MODULE SyntaxTextProofs --------------------------
(***************************************************************************)
(* The views of SyntaxText, for texts of any number of tokens, empty ones  *)
(* among them, and slices of slices of any range: the chunks are the text  *)
(* in the range, and what searches and compares them chunk by chunk        *)
(* answers as for the text in one piece.                                   *)
(***************************************************************************)
EXTENDS SyntaxText, GreenNodeProofs

-----------------------------------------------------------------------------
(* A prefix of the sequences gives a prefix of what they are put together to. *)
LEMMA FlattenPrefix ==
  ASSUME NEW S, NEW s \in Seq(Seq(S)), NEW f,
         f[0] = <<>>, \A k \in 1 .. Len(s) : f[k] = f[k - 1] \o s[k], NEW m \in 0 .. Len(s)
  PROVE  FlattenSeq(SubSeq(s, 1, m)) = f[m]
<1>1. PICK n \in Nat : n = Len(s)
  OBVIOUS
<1>2. m \in Nat /\ m <= n
  BY <1>1
<1>3. PICK t : t = SubSeq(s, 1, m)
  OBVIOUS
<1>4. t \in Seq(Seq(S)) /\ Len(t) = m /\ \A k \in 1 .. m : t[k] = s[k]
  BY <1>1, <1>2, <1>3
<1>5. PICK g : g[0] = <<>> /\ (\A k \in 1 .. m : g[k] = g[k - 1] \o t[k]) /\ FlattenSeq(t) = g[m]
  <2>1. \E g \in [0 .. Len(t) -> Seq(S)] : /\ g[0] = <<>>
                                           /\ \A k \in 1 .. Len(t) : g[k] = g[k - 1] \o t[k]
                                           /\ FlattenSeq(t) = g[Len(t)]
    BY <1>4, FlattenIs
  <2> QED BY <1>4, <2>1
<1>6. Agreeing(f, g, m)
  <2>1. ASSUME NEW k \in 1 .. m, f[k - 1] = g[k - 1] PROVE f[k] = g[k]
    <3>1. k \in 1 .. Len(s)
      BY <1>1, <1>2
    <3> QED BY <1>4, <1>5, <2>1, <3>1
  <2> QED BY <1>5, <2>1 DEF Agreeing
<1>7. f[m] = g[m]
  <2>1. m \in 0 .. m
    BY <1>2
  <2> QED BY <1>2, <1>6, <2>1, StepsAgree
<1> QED BY <1>3, <1>5, <1>7

-----------------------------------------------------------------------------
(***************************************************************************)
(* Parts of sequences.                                                     *)
(***************************************************************************)
LEMMA MaxTwo ==
  ASSUME NEW a \in Int, NEW b \in Int
  PROVE  Max({a, b}) = IF a >= b THEN a ELSE b
<1>1. Max({a, b}) = CHOOSE x \in {a, b} : \A y \in {a, b} : x >= y
  BY DEF Max
<1>2. (CHOOSE x \in {a, b} : \A y \in {a, b} : x >= y) = IF a >= b THEN a ELSE b
  OBVIOUS
<1> QED BY <1>1, <1>2

LEMMA MinTwo ==
  ASSUME NEW a \in Int, NEW b \in Int
  PROVE  Min({a, b}) = IF a <= b THEN a ELSE b
<1>1. Min({a, b}) = CHOOSE x \in {a, b} : \A y \in {a, b} : x <= y
  BY DEF Min
<1>2. (CHOOSE x \in {a, b} : \A y \in {a, b} : x <= y) = IF a <= b THEN a ELSE b
  OBVIOUS
<1> QED BY <1>1, <1>2

LEMMA PartIs ==
  ASSUME NEW S, NEW s \in Seq(S), NEW a \in Nat, NEW b \in Int, b <= Len(s)
  PROVE  /\ SubSeq(s, a + 1, b) \in Seq(S)
         /\ Len(SubSeq(s, a + 1, b)) = IF a <= b THEN b - a ELSE 0
         /\ \A i \in 1 .. (b - a) : SubSeq(s, a + 1, b)[i] = s[a + i]
OBVIOUS

(* The same, folded. *)
PartOf(S, s, a, b) ==
  /\ SubSeq(s, a + 1, b) \in Seq(S)
  /\ Len(SubSeq(s, a + 1, b)) = IF a <= b THEN b - a ELSE 0
  /\ \A i \in 1 .. (b - a) : SubSeq(s, a + 1, b)[i] = s[a + i]

LEMMA PartOfIs ==
  ASSUME NEW S, NEW s \in Seq(S), NEW a \in Nat, NEW b \in Int, b <= Len(s)
  PROVE  PartOf(S, s, a, b)
BY PartIs DEF PartOf

LEMMA PartType ==
  ASSUME NEW S, NEW s \in Seq(S), NEW a \in Nat, NEW b \in Nat, a <= b, b <= Len(s)
  PROVE  SubSeq(s, a + 1, b) \in Seq(S) /\ Len(SubSeq(s, a + 1, b)) = b - a
BY PartIs

(* A part of a part. *)
LEMMA PartOfPart ==
  ASSUME NEW S, NEW s \in Seq(S), NEW a \in Nat, NEW b \in Nat, a <= b, b <= Len(s),
         NEW c \in Nat, NEW d \in Nat, c <= d, d <= b - a
  PROVE  SubSeq(SubSeq(s, a + 1, b), c + 1, d) = SubSeq(s, (a + c) + 1, a + d)
<1>1. PICK p : p = SubSeq(s, a + 1, b)
  OBVIOUS
<1>2. p \in Seq(S) /\ Len(p) = b - a /\ \A i \in 1 .. (b - a) : p[i] = s[a + i]
  BY <1>1, PartIs
<1>3. PICK q : q = SubSeq(p, c + 1, d)
  OBVIOUS
<1>4. q \in Seq(S) /\ Len(q) = d - c /\ \A i \in 1 .. (d - c) : q[i] = p[c + i]
  BY <1>2, <1>3, PartIs
<1>5. PICK e \in Nat : e = a + c
  OBVIOUS
<1>6. PICK g \in Nat : g = a + d
  OBVIOUS
<1>7. PICK r : r = SubSeq(s, e + 1, g)
  OBVIOUS
<1>8. r \in Seq(S) /\ Len(r) = g - e /\ \A i \in 1 .. (g - e) : r[i] = s[e + i]
  <2>1. e <= g /\ g <= Len(s)
    BY <1>5, <1>6
  <2> QED BY <1>7, <2>1, PartIs
<1>9. g - e = d - c
  BY <1>5, <1>6
<1>10. ASSUME NEW i \in 1 .. (d - c) PROVE q[i] = r[i]
  <2>1. c + i \in 1 .. (b - a) /\ a + (c + i) = e + i /\ i \in 1 .. (g - e)
    BY <1>5, <1>9
  <2> QED BY <1>2, <1>4, <1>8, <2>1
<1>11. q = r
  <2>1. Len(q) = Len(r) /\ \A i \in 1 .. Len(q) : q[i] = r[i]
    BY <1>4, <1>8, <1>9, <1>10
  <2> QED BY ONLY <1>4, <1>8, <2>1, SameSeq
<1> QED BY <1>1, <1>3, <1>5, <1>6, <1>7, <1>11

(* What a sequence put behind another one adds to the part from a to b. *)
Bounded(a, b, l, m, lo, hi, d, e) ==
  /\ lo = IF a >= l THEN a - l ELSE 0
  /\ hi = IF b <= l + m THEN b - l ELSE m
  /\ d = IF b <= l THEN b ELSE l
  /\ e = IF b <= l + m THEN b ELSE l + m

Sized(a, lo, hi, d, j, k) ==
  j = (IF a <= d THEN d - a ELSE 0) /\ k = (IF lo <= hi THEN hi - lo ELSE 0)

Placed(a, l, m, lo, hi, d, e, j, k) ==
  /\ (IF a <= e THEN e - a ELSE 0) = j + k
  /\ \A i \in 1 .. (j + k) :
       /\ i \in 1 .. (e - a) /\ a + i \in 1 .. (l + m)
       /\ i <= j => i \in 1 .. (d - a) /\ a + i <= l
       /\ ~(i <= j) => i - j \in 1 .. (hi - lo) /\ ~(a + i <= l) /\ lo + (i - j) = (a + i) - l

LEMMA WindowPlaces ==
  ASSUME NEW a \in Nat, NEW b \in Int, NEW l \in Nat, NEW m \in Nat,
         NEW lo \in Nat, NEW hi \in Int, NEW d \in Int, NEW e \in Int, Bounded(a, b, l, m, lo, hi, d, e),
         NEW j \in Nat, NEW k \in Nat, Sized(a, lo, hi, d, j, k)
  PROVE  Placed(a, l, m, lo, hi, d, e, j, k)
BY DEF Bounded, Sized, Placed

Widens(x, t, a, lo, hi, d, e) ==
  SubSeq(x \o t, a + 1, e) = SubSeq(x, a + 1, d) \o (IF lo <= hi THEN SubSeq(t, lo + 1, hi) ELSE <<>>)

LEMMA WindowStep ==
  ASSUME NEW S, NEW x \in Seq(S), NEW t \in Seq(S), NEW a \in Nat, NEW b \in Int,
         NEW l \in Nat, l = Len(x), NEW m \in Nat, m = Len(t),
         NEW lo \in Nat, NEW hi \in Int, NEW d \in Int, NEW e \in Int, Bounded(a, b, l, m, lo, hi, d, e)
  PROVE  Widens(x, t, a, lo, hi, d, e)
<1>1. PICK y : y = x \o t
  OBVIOUS
<1>2. y \in Seq(S) /\ Len(y) = l + m /\ \A i \in 1 .. (l + m) : y[i] = IF i <= l THEN x[i] ELSE t[i - l]
  BY <1>1, Concat
<1>3. d <= l /\ e <= l + m /\ hi <= m
  BY DEF Bounded
<1>4. PICK w : w = SubSeq(y, a + 1, e)
  OBVIOUS
<1>5. /\ w \in Seq(S) /\ Len(w) = IF a <= e THEN e - a ELSE 0
      /\ \A i \in 1 .. (e - a) : w[i] = y[a + i]
  <2>1. PICK ly \in Int : ly = Len(y) /\ e <= ly
    BY <1>2, <1>3
  <2>2. PartOf(S, y, a, e)
    BY <1>2, <2>1, PartOfIs
  <2> QED BY <1>4, <2>2 DEF PartOf
<1>6. PICK p : p = SubSeq(x, a + 1, d)
  OBVIOUS
<1>7. /\ p \in Seq(S) /\ Len(p) = IF a <= d THEN d - a ELSE 0
      /\ \A i \in 1 .. (d - a) : p[i] = x[a + i]
  BY <1>3, <1>6, PartIs
<1>8. PICK q : q = IF lo <= hi THEN SubSeq(t, lo + 1, hi) ELSE <<>>
  OBVIOUS
<1>9. /\ q \in Seq(S) /\ Len(q) = IF lo <= hi THEN hi - lo ELSE 0
      /\ \A i \in 1 .. (hi - lo) : q[i] = t[lo + i]
  <2>1. CASE lo <= hi
    <3>1. /\ SubSeq(t, lo + 1, hi) \in Seq(S)
          /\ Len(SubSeq(t, lo + 1, hi)) = IF lo <= hi THEN hi - lo ELSE 0
          /\ \A i \in 1 .. (hi - lo) : SubSeq(t, lo + 1, hi)[i] = t[lo + i]
      BY <1>3, PartIs
    <3> QED BY <1>8, <2>1, <3>1
  <2>2. CASE ~(lo <= hi)
    <3>1. 1 .. (hi - lo) = {} /\ << >> \in Seq(S) /\ Len(<<>>) = 0
      BY <1>3, <2>2
    <3> QED BY <1>8, <2>2, <3>1
  <2> QED BY <2>1, <2>2
<1>10. PICK j \in Nat : j = Len(p)
  <2>1. p \in Seq(S)
    BY <1>7
  <2> QED BY ONLY <2>1
<1>11. PICK k \in Nat : k = Len(q)
  <2>1. q \in Seq(S)
    BY <1>9
  <2> QED BY ONLY <2>1
<1>12. PICK z : z = p \o q
  OBVIOUS
<1>13. z \in Seq(S) /\ Len(z) = j + k /\ \A i \in 1 .. (j + k) : z[i] = IF i <= j THEN p[i] ELSE q[i - j]
  <2>1. p \in Seq(S) /\ q \in Seq(S)
    BY <1>7, <1>9
  <2> QED BY ONLY <2>1, <1>10, <1>11, <1>12, Concat
<1>14. Sized(a, lo, hi, d, j, k)
  BY <1>7, <1>9, <1>10, <1>11 DEF Sized
<1>15. Placed(a, l, m, lo, hi, d, e, j, k)
  BY <1>14, WindowPlaces
<1>16. ASSUME NEW i \in 1 .. (j + k) PROVE w[i] = z[i]
  <2>1. i \in 1 .. (e - a) /\ a + i \in 1 .. (l + m)
    BY <1>15 DEF Placed
  <2>2. w[i] = y[a + i]
    BY <1>5, <2>1
  <2>3. CASE i <= j
    <3>1. i \in 1 .. (d - a) /\ a + i <= l
      BY <1>15, <2>3 DEF Placed
    <3> QED BY <1>2, <1>7, <1>13, <2>1, <2>2, <2>3, <3>1
  <2>4. CASE ~(i <= j)
    <3>1. i - j \in 1 .. (hi - lo) /\ ~(a + i <= l) /\ lo + (i - j) = (a + i) - l
      BY <1>15, <2>4 DEF Placed
    <3>2. q[i - j] = t[lo + (i - j)]
      BY <1>9, <3>1
    <3> QED BY <1>2, <1>13, <2>1, <2>2, <2>4, <3>1, <3>2
  <2> QED BY <2>3, <2>4
<1>17. w = z
  <2>1. Len(w) = Len(z) /\ \A i \in 1 .. Len(w) : w[i] = z[i]
    BY <1>5, <1>13, <1>15, <1>16 DEF Placed
  <2> QED BY ONLY <1>5, <1>13, <2>1, SameSeq
<1> QED BY <1>1, <1>4, <1>6, <1>8, <1>12, <1>17 DEF Widens

-----------------------------------------------------------------------------
(***************************************************************************)
(* Chunks and what they show.                                              *)
(***************************************************************************)
ChunkSet == {c \in [text : Strings, lo : Nat, hi : Nat] : c.lo <= c.hi /\ c.hi <= Len(c.text)}

CutsOf(cs) == FlattenSeq([i \in DOMAIN cs |-> Cut(cs[i])])

LEMMA CutIs ==
  ASSUME NEW c \in ChunkSet
  PROVE  /\ c.text \in Seq(Bytes) /\ c.lo \in Nat /\ c.hi \in Nat /\ c.lo <= c.hi /\ c.hi <= Len(c.text)
         /\ Cut(c) \in Seq(Bytes) /\ Len(Cut(c)) = c.hi - c.lo
         /\ \A i \in 1 .. (c.hi - c.lo) : Cut(c)[i] = c.text[c.lo + i]
<1>1. c.text \in Seq(Bytes) /\ c.lo \in Nat /\ c.hi \in Nat /\ c.lo <= c.hi /\ c.hi <= Len(c.text)
  <2>1. c.text \in Strings /\ c.lo \in Nat /\ c.hi \in Nat /\ c.lo <= c.hi /\ c.hi <= Len(c.text)
    BY DEF ChunkSet
  <2> QED BY <2>1, TextsAssumption
<1>2. PICK t \in Seq(Bytes) : t = c.text
  BY <1>1
<1>3. PICK l \in Nat : l = c.lo
  BY <1>1
<1>4. PICK h \in Nat : h = c.hi
  BY <1>1
<1>5. /\ SubSeq(t, l + 1, h) \in Seq(Bytes) /\ Len(SubSeq(t, l + 1, h)) = h - l
      /\ \A i \in 1 .. (h - l) : SubSeq(t, l + 1, h)[i] = t[l + i]
  BY <1>1, <1>2, <1>3, <1>4, PartIs
<1>6. Cut(c) = SubSeq(t, l + 1, h)
  BY <1>2, <1>3, <1>4 DEF Cut
<1> QED BY <1>1, <1>2, <1>3, <1>4, <1>5, <1>6

LEMMA CutsAre ==
  ASSUME NEW cs \in Seq(ChunkSet)
  PROVE  [i \in DOMAIN cs |-> Cut(cs[i])] \in Seq(Seq(Bytes)) /\ CutsOf(cs) \in Seq(Bytes)
<1>1. PICK n \in Nat : n = Len(cs) /\ DOMAIN cs = 1 .. n
  OBVIOUS
<1>2. \A i \in 1 .. n : Cut(cs[i]) \in Seq(Bytes)
  BY <1>1, CutIs
<1>3. PICK f : f = [i \in DOMAIN cs |-> Cut(cs[i])]
  OBVIOUS
<1>4. f \in Seq(Seq(Bytes))
  <2>1. f \in [1 .. n -> Seq(Bytes)]
    BY <1>1, <1>2, <1>3
  <2> QED BY <2>1
<1> QED BY <1>3, <1>4, FlattenType DEF CutsOf

LEMMA CutsEmpty == CutsOf(<<>>) = <<>>
<1>1. [i \in DOMAIN <<>> |-> Cut(<<>>[i])] = <<>>
  OBVIOUS
<1> QED BY <1>1, FlattenEmpty DEF CutsOf

LEMMA CutsAppend ==
  ASSUME NEW cs \in Seq(ChunkSet), NEW c \in ChunkSet
  PROVE  CutsOf(Append(cs, c)) = CutsOf(cs) \o Cut(c)
<1>1. PICK n \in Nat : n = Len(cs) /\ DOMAIN cs = 1 .. n
  OBVIOUS
<1>2. PICK ds : ds = Append(cs, c)
  OBVIOUS
<1>3. ds \in Seq(ChunkSet) /\ Len(ds) = n + 1 /\ ds[n + 1] = c /\ \A i \in 1 .. n : ds[i] = cs[i]
  BY <1>1, <1>2
<1>4. PICK f : f = [i \in DOMAIN cs |-> Cut(cs[i])]
  OBVIOUS
<1>5. PICK g : g = [i \in DOMAIN ds |-> Cut(ds[i])]
  OBVIOUS
<1>6. f \in Seq(Seq(Bytes)) /\ g \in Seq(Seq(Bytes)) /\ Cut(c) \in Seq(Bytes)
  BY <1>3, <1>4, <1>5, CutsAre, CutIs
<1>7. g = Append(f, Cut(c))
  <2>1. PICK U : U = Seq(Bytes)
    OBVIOUS
  <2>2. PICK x \in U : x = Cut(c)
    BY <1>6, <2>1
  <2>3. PICK h : h = Append(f, x)
    OBVIOUS
  <2>4. Len(f) = n /\ (\A i \in 1 .. n : f[i] = Cut(cs[i])) /\ f \in Seq(U)
    BY <1>1, <1>4, <1>6, <2>1
  <2>5. Len(g) = n + 1 /\ (\A i \in 1 .. (n + 1) : g[i] = Cut(ds[i])) /\ g \in Seq(U)
    <3>1. DOMAIN ds = 1 .. (n + 1)
      BY <1>3
    <3> QED BY <1>5, <1>6, <2>1, <3>1
  <2>6. h \in Seq(U) /\ Len(h) = n + 1 /\ h[n + 1] = x /\ \A i \in 1 .. n : h[i] = f[i]
    BY ONLY <2>2, <2>3, <2>4, n \in Nat
  <2>7. ASSUME NEW i \in 1 .. (n + 1) PROVE g[i] = h[i]
    <3>1. CASE i = n + 1
      BY <1>3, <2>2, <2>5, <2>6, <3>1
    <3>2. CASE i # n + 1
      <4>1. i \in 1 .. n
        BY <3>2
      <4> QED BY <1>3, <2>4, <2>5, <2>6, <4>1
    <3> QED BY <3>1, <3>2
  <2>8. Len(g) = Len(h) /\ \A i \in 1 .. Len(g) : g[i] = h[i]
    BY <2>5, <2>6, <2>7
  <2>9. g = h
    BY ONLY <2>5, <2>6, <2>8, SameSeq
  <2> QED BY <2>2, <2>3, <2>9
<1>8. FlattenSeq(g) = FlattenSeq(f) \o Cut(c)
  BY <1>6, <1>7, FlattenAppend
<1> QED BY <1>2, <1>4, <1>5, <1>8 DEF CutsOf

LEMMA CutsCons ==
  ASSUME NEW cs \in Seq(ChunkSet), cs # <<>>
  PROVE  /\ CutsOf(cs) = Cut(Head(cs)) \o CutsOf(Tail(cs))
         /\ Head(cs) \in ChunkSet /\ Tail(cs) \in Seq(ChunkSet)
<1>1. PICK n \in Nat : n = Len(cs) /\ DOMAIN cs = 1 .. n
  OBVIOUS
<1>2. n # 0
  BY <1>1, LengthZero
<1>3. PICK ds : ds = Tail(cs)
  OBVIOUS
<1>4. PICK c : c = Head(cs)
  OBVIOUS
<1>5. /\ ds \in Seq(ChunkSet) /\ Len(ds) = n - 1 /\ (\A i \in 1 .. (n - 1) : ds[i] = cs[i + 1])
      /\ c = cs[1] /\ c \in ChunkSet
  BY <1>1, <1>2, <1>3, <1>4
<1>6. PICK f : f = [i \in DOMAIN cs |-> Cut(cs[i])]
  OBVIOUS
<1>7. PICK g : g = [i \in DOMAIN ds |-> Cut(ds[i])]
  OBVIOUS
<1>8. f \in Seq(Seq(Bytes)) /\ g \in Seq(Seq(Bytes)) /\ Cut(c) \in Seq(Bytes)
  BY <1>5, <1>6, <1>7, CutsAre, CutIs
<1>9. f = <<Cut(c)>> \o g
  <2>1. PICK U : U = Seq(Bytes)
    OBVIOUS
  <2>2. PICK x \in U : x = Cut(c)
    BY <1>8, <2>1
  <2>3. PICK h : h = <<x>> \o g
    OBVIOUS
  <2>4. Len(f) = n /\ (\A i \in 1 .. n : f[i] = Cut(cs[i])) /\ f \in Seq(U)
    BY <1>1, <1>6, <1>8, <2>1
  <2>5. Len(g) = n - 1 /\ (\A i \in 1 .. (n - 1) : g[i] = Cut(ds[i])) /\ g \in Seq(U)
    <3>1. DOMAIN ds = 1 .. (n - 1)
      BY <1>5
    <3> QED BY <1>2, <1>7, <1>8, <2>1, <3>1
  <2>6. <<x>> \in Seq(U) /\ Len(<<x>>) = 1 /\ <<x>>[1] = x
    OBVIOUS
  <2>7. h \in Seq(U) /\ Len(h) = n /\ \A i \in 1 .. n : h[i] = IF i <= 1 THEN x ELSE g[i - 1]
    <3>1. PICK y : y = <<x>>
      OBVIOUS
    <3>2. y \in Seq(U) /\ Len(y) = 1 /\ y[1] = x /\ h = y \o g
      BY <2>3, <2>6, <3>1
    <3>3. g \in Seq(U) /\ Len(y) + Len(g) = n
      BY <1>2, <2>5, <3>2
    <3>4. /\ y \o g \in Seq(U) /\ Len(y \o g) = Len(y) + Len(g)
          /\ \A i \in 1 .. (Len(y) + Len(g)) : (y \o g)[i] = IF i <= Len(y) THEN y[i] ELSE g[i - Len(y)]
      BY ONLY <3>2, <3>3, Concat
    <3>5. ASSUME NEW i \in 1 .. n PROVE h[i] = IF i <= 1 THEN x ELSE g[i - 1]
      BY <3>2, <3>3, <3>4
    <3> QED BY <3>2, <3>3, <3>4, <3>5
  <2>8. ASSUME NEW i \in 1 .. n PROVE f[i] = h[i]
    <3>1. CASE i = 1
      BY <1>5, <2>2, <2>4, <2>7, <3>1
    <3>2. CASE i # 1
      <4>1. i - 1 \in 1 .. (n - 1) /\ (i - 1) + 1 = i /\ ~(i <= 1)
        BY <3>2
      <4> QED BY <1>5, <2>4, <2>5, <2>7, <4>1
    <3> QED BY <3>1, <3>2
  <2>9. Len(f) = Len(h) /\ \A i \in 1 .. Len(f) : f[i] = h[i]
    BY <2>4, <2>7, <2>8
  <2>10. f = h
    BY ONLY <2>4, <2>7, <2>9, SameSeq
  <2> QED BY <2>2, <2>3, <2>10
<1>10. FlattenSeq(f) = Cut(c) \o FlattenSeq(g)
  BY <1>8, <1>9, FlattenCons
<1> QED BY <1>3, <1>4, <1>5, <1>6, <1>7, <1>10 DEF CutsOf

-----------------------------------------------------------------------------
(***************************************************************************)
(* What a view shows is the part of the text of its node that lies in its  *)
(* range.                                                                  *)
(***************************************************************************)
ViewSet == {r \in [node : Nodes, first : Nat, last : Nat] : r.first <= r.last}

TreesOK == inside \in [Nodes -> Seq(Strings)] /\ start \in [Nodes -> Nat]

LEMMA TokensAreTexts ==
  ASSUME NEW ts \in Seq(Strings) PROVE ts \in Seq(Seq(Bytes)) /\ \A i \in 1 .. Len(ts) : ts[i] \in Strings
<1>1. PICK U : U = Seq(Bytes)
  OBVIOUS
<1>2. Strings \subseteq U
  BY <1>1, TextsAssumption
<1>3. PICK V : V = Strings
  OBVIOUS
<1>4. ts \in Seq(V) /\ V \subseteq U
  BY <1>2, <1>3
<1>5. ts \in Seq(U) /\ \A i \in 1 .. Len(ts) : ts[i] \in V
  BY ONLY <1>4
<1> QED BY <1>1, <1>3, <1>5

(* The token i of the node n begins where those before it end. *)
LEMMA TokenBegins ==
  ASSUME TreesOK, NEW n \in Nodes, NEW f \in [0 .. Len(inside[n]) -> Seq(Bytes)],
         f[0] = <<>>, \A k \in 1 .. Len(inside[n]) : f[k] = f[k - 1] \o inside[n][k],
         NEW i \in 1 .. Len(inside[n])
  PROVE  TokenStart(n, i) = start[n] + Len(f[i - 1])
<1>1. PICK ts : ts = inside[n]
  OBVIOUS
<1>2. ts \in Seq(Seq(Bytes))
  BY <1>1, TokensAreTexts DEF TreesOK
<1>3. i - 1 \in 0 .. Len(ts)
  BY <1>1, <1>2
<1>4. PICK m \in 0 .. Len(ts) : m = i - 1
  BY <1>3
<1>5. FlattenSeq(SubSeq(ts, 1, m)) = f[m]
  <2>1. f[0] = <<>> /\ (\A k \in 1 .. Len(ts) : f[k] = f[k - 1] \o ts[k])
    BY <1>1
  <2> QED BY <1>2, <1>4, <2>1, FlattenPrefix
<1> QED BY <1>1, <1>4, <1>5 DEF TokenStart

(* The part of a token in the range, where l is the length of those before. *)
LEMMA ChunkIs ==
  ASSUME TreesOK, NEW v, view[v] \in ViewSet, NEW n, n = view[v].node, NEW i \in 1 .. Len(inside[n]),
         NEW l \in Nat, TokenStart(n, i) = start[n] + l, NEW a \in Nat, NEW b \in Int,
         a = (IF view[v].first >= start[n] THEN view[v].first - start[n] ELSE 0),
         b = view[v].last - start[n]
  PROVE  \E lo \in Nat, hi, d, e \in Int :
           /\ Bounded(a, b, l, Len(inside[n][i]), lo, hi, d, e)
           /\ lo <= hi => /\ Chunk(v, i) = <<[text |-> inside[n][i], lo |-> lo, hi |-> hi]>>
                          /\ [text |-> inside[n][i], lo |-> lo, hi |-> hi] \in ChunkSet
           /\ ~(lo <= hi) => Chunk(v, i) = <<>>
<1>1. PICK t : t = inside[n][i]
  OBVIOUS
<1>2. n \in Nodes /\ view[v].first \in Nat /\ view[v].last \in Nat
  BY DEF ViewSet
<1>3. t \in Strings /\ Len(t) \in Nat
  <2>1. inside[n] \in Seq(Strings)
    BY <1>2 DEF TreesOK
  <2>2. t \in Strings
    BY <1>1, <2>1
  <2>3. t \in Seq(Bytes)
    BY <2>2, TextsAssumption
  <2> QED BY <2>2, <2>3
<1>4. PICK m \in Nat : m = Len(t)
  BY <1>3
<1>5. PICK first \in Nat : first = view[v].first
  BY <1>2
<1>6. PICK last \in Nat : last = view[v].last
  BY <1>2
<1>7. PICK s \in Nat : s = start[n]
  BY <1>2 DEF TreesOK
<1>8. PICK at \in Nat : at = s + l
  OBVIOUS
<1>9. PICK lo : lo = Max({first, at}) - at
  OBVIOUS
<1>10. PICK hi : hi = Min({last, at + m}) - at
  OBVIOUS
<1>11. PICK d : d = IF b <= l THEN b ELSE l
  OBVIOUS
<1>12. PICK e : e = IF b <= l + m THEN b ELSE l + m
  OBVIOUS
<1>13. /\ lo \in Nat /\ hi \in Int /\ d \in Int /\ e \in Int /\ hi <= m
       /\ Bounded(a, b, l, m, lo, hi, d, e)
  <2>1. a = IF first >= s THEN first - s ELSE 0
    BY <1>5, <1>7
  <2>2. b = last - s
    BY <1>6, <1>7
  <2>3. Max({first, at}) = IF first >= at THEN first ELSE at
    BY MaxTwo
  <2>4. Min({last, at + m}) = IF last <= at + m THEN last ELSE at + m
    BY MinTwo
  <2> QED BY ONLY <2>1, <2>2, <2>3, <2>4, <1>8, <1>9, <1>10, <1>11, <1>12, a \in Nat, b \in Int, l \in Nat,
                  m \in Nat, first \in Nat, last \in Nat, s \in Nat DEF Bounded
<1>14. PICK c : c = [text |-> t, lo |-> lo, hi |-> hi]
  OBVIOUS
<1>15. Part(v, i) = c
  BY <1>1, <1>4, <1>5, <1>6, <1>7, <1>8, <1>9, <1>10, <1>14 DEF Part
<1>16. Chunk(v, i) = IF lo <= hi THEN <<c>> ELSE <<>>
  BY <1>14, <1>15 DEF Chunk
<1>17. lo <= hi => c \in ChunkSet
  BY <1>3, <1>4, <1>13, <1>14 DEF ChunkSet
<1> QED BY <1>1, <1>4, <1>13, <1>14, <1>16, <1>17

LEMMA ShownIsWindow ==
  ASSUME TreesOK, NEW v, view[v] \in ViewSet
  PROVE  Chunks(v) \in Seq(ChunkSet) /\ Shown(v) = Window(v)
<1>1. PICK n \in Nodes : n = view[v].node
  BY DEF ViewSet
<1>2. PICK ts : ts = inside[n]
  OBVIOUS
<1>3. ts \in Seq(Seq(Bytes)) /\ \A i \in 1 .. Len(ts) : ts[i] \in Strings
  BY <1>2, TokensAreTexts DEF TreesOK
<1>4. PICK N \in Nat : N = Len(ts) /\ DOMAIN ts = 1 .. N
  BY <1>3
<1>5. PICK f \in [0 .. N -> Seq(Bytes)] : /\ f[0] = <<>>
                                          /\ \A k \in 1 .. N : f[k] = f[k - 1] \o ts[k]
                                          /\ FlattenSeq(ts) = f[N]
  <2>1. \E f \in [0 .. Len(ts) -> Seq(Bytes)] : /\ f[0] = <<>>
                                               /\ \A k \in 1 .. Len(ts) : f[k] = f[k - 1] \o ts[k]
                                               /\ FlattenSeq(ts) = f[Len(ts)]
    BY <1>3, FlattenIs
  <2> QED BY <1>4, <2>1
<1>6. /\ view[v].first \in Nat /\ view[v].last \in Nat /\ start[n] \in Nat
  BY DEF ViewSet, TreesOK
<1>7. PICK a \in Nat : a = IF view[v].first >= start[n] THEN view[v].first - start[n] ELSE 0
  BY <1>6
<1>8. PICK b \in Int : b = view[v].last - start[n]
  BY <1>6
<1>9. PICK len : len = [k \in 0 .. N |-> Len(f[k])]
  OBVIOUS
<1>10. \A k \in 0 .. N : f[k] \in Seq(Bytes) /\ len[k] = Len(f[k]) /\ len[k] \in Nat
  BY <1>9
<1> DEFINE Bit(k, lo, hi, d, e) ==
             /\ Bounded(a, b, len[k - 1], Len(ts[k]), lo, hi, d, e)
             /\ lo <= hi => /\ Chunk(v, k) = <<[text |-> ts[k], lo |-> lo, hi |-> hi]>>
                            /\ [text |-> ts[k], lo |-> lo, hi |-> hi] \in ChunkSet
             /\ ~(lo <= hi) => Chunk(v, k) = <<>>
<1>11. ASSUME NEW k \in 1 .. N PROVE \E lo \in Nat, hi, d, e \in Int : Bit(k, lo, hi, d, e)
  <2>1. k - 1 \in 0 .. N /\ k \in 1 .. Len(inside[n])
    BY <1>2, <1>4
  <2>2. PICK l \in Nat : l = len[k - 1]
    BY <1>10, <2>1
  <2>3. TokenStart(n, k) = start[n] + l
    <3>1. TokenStart(n, k) = start[n] + Len(f[k - 1])
      <4>1. f \in [0 .. Len(inside[n]) -> Seq(Bytes)]
        BY <1>2, <1>4
      <4>2. f[0] = <<>> /\ \A j \in 1 .. Len(inside[n]) : f[j] = f[j - 1] \o inside[n][j]
        BY <1>2, <1>4, <1>5
      <4> QED BY <2>1, <4>1, <4>2, TokenBegins
    <3> QED BY <1>10, <2>1, <2>2, <3>1
  <2>4. \E lo \in Nat, hi, d, e \in Int :
           /\ Bounded(a, b, l, Len(inside[n][k]), lo, hi, d, e)
           /\ lo <= hi => /\ Chunk(v, k) = <<[text |-> inside[n][k], lo |-> lo, hi |-> hi]>>
                          /\ [text |-> inside[n][k], lo |-> lo, hi |-> hi] \in ChunkSet
           /\ ~(lo <= hi) => Chunk(v, k) = <<>>
    BY <1>1, <1>7, <1>8, <2>1, <2>3, ChunkIs
  <2> QED BY <1>2, <2>2, <2>4
<1> HIDE DEF Bit
<1>12. \A k \in 1 .. N : Chunk(v, k) \in Seq(ChunkSet)
  <2>1. TAKE k \in 1 .. N
  <2>2. PICK lo \in Nat, hi, d, e \in Int : Bit(k, lo, hi, d, e)
    BY <1>11
  <2>3. PICK c : c = [text |-> ts[k], lo |-> lo, hi |-> hi]
    OBVIOUS
  <2>4. CASE lo <= hi
    <3>1. Chunk(v, k) = <<c>> /\ c \in ChunkSet
      BY <2>2, <2>3, <2>4 DEF Bit
    <3> QED BY <3>1
  <2>5. CASE ~(lo <= hi)
    <3>1. Chunk(v, k) = <<>> 
      BY <2>2, <2>5 DEF Bit
    <3> QED BY <3>1
  <2> QED BY <2>4, <2>5
<1>13. PICK p : p = [i \in DOMAIN ts |-> Chunk(v, i)]
  OBVIOUS
<1>14. Chunks(v) = FlattenSeq(p)
  BY <1>1, <1>2, <1>13 DEF Chunks
<1>15. PICK h \in [0 .. N -> Seq(ChunkSet)] : /\ h[0] = <<>>
                                              /\ \A k \in 1 .. N : h[k] = h[k - 1] \o Chunk(v, k)
                                              /\ Chunks(v) = h[N]
  <2>1. PICK U : U = Seq(ChunkSet)
    OBVIOUS
  <2>2. p \in [1 .. N -> U]
    BY <1>4, <1>12, <1>13, <2>1
  <2>3. p \in Seq(Seq(ChunkSet)) /\ Len(p) = N /\ \A k \in 1 .. N : p[k] = Chunk(v, k)
    <3>1. p \in Seq(U) /\ Len(p) = N
      BY ONLY <2>2, N \in Nat
    <3> QED BY <1>4, <1>13, <2>1, <3>1
  <2>4. PICK g \in [0 .. Len(p) -> Seq(ChunkSet)] : Flattens(g, p)
    BY <2>3, FlattenSteps
  <2>5. g[0] = <<>> /\ FlattenSeq(p) = g[Len(p)]
    BY <2>4 DEF Flattens
  <2>6. \A k \in 1 .. N : g[k] = g[k - 1] \o Chunk(v, k)
    BY <2>3, <2>4 DEF Flattens
  <2>7. g \in [0 .. N -> Seq(ChunkSet)]
    BY <2>3
  <2>8. Chunks(v) = g[N]
    BY <1>14, <2>3, <2>5
  <2> QED BY ONLY <2>5, <2>6, <2>7, <2>8
<1> DEFINE To(k) == IF b <= len[k] THEN b ELSE len[k]
           Bad == {k \in 0 .. N : CutsOf(h[k]) # SubSeq(f[k], a + 1, To(k))}
<1>16. Bad = {}
  <2> SUFFICES ASSUME Bad # {} PROVE FALSE
    OBVIOUS
  <2>1. PICK k \in Bad : \A j \in Bad : k <= j
    <3>1. Bad \subseteq Nat
      OBVIOUS
    <3> HIDE DEF Bad
    <3> QED BY <3>1, LeastNumber
  <2>2. CASE k = 0
    <3>1. len[0] = 0 /\ h[0] = <<>> /\ f[0] = <<>> /\ f[0] \in Seq(Bytes)
      <4>1. 0 \in 0 .. N /\ Len(<<>>) = 0
        OBVIOUS
      <4>2. f[0] \in Seq(Bytes) /\ len[0] = Len(f[0])
        BY <1>10, <4>1
      <4>3. h[0] = <<>> /\ f[0] = <<>>
        BY <1>5, <1>15
      <4> QED BY <4>1, <4>2, <4>3
    <3>2. PICK e \in Int : e = To(0)
      <4>1. To(0) = IF b <= 0 THEN b ELSE 0
        BY ONLY <3>1
      <4>2. \E e \in Int : e = IF b <= 0 THEN b ELSE 0
        BY ONLY b \in Int
      <4> QED BY ONLY <4>1, <4>2
    <3>3. e <= 0
      BY <3>1, <3>2
    <3>4. PICK x \in Seq(Bytes) : x = f[0] /\ Len(x) = 0
      BY <3>1
    <3>5. SubSeq(x, a + 1, e) \in Seq(Bytes) /\ Len(SubSeq(x, a + 1, e)) = 0
      <4>1. (IF a <= e THEN e - a ELSE 0) = 0
        BY <3>3
      <4>2. e <= Len(x)
        BY <3>3, <3>4
      <4> QED BY <4>1, <4>2, PartIs
    <3>6. SubSeq(x, a + 1, e) = <<>>
      BY ONLY <3>5, LengthZero
    <3> QED BY <2>2, <3>1, <3>2, <3>4, <3>6, CutsEmpty
  <2>3. CASE k # 0
    <3>1. k \in 1 .. N /\ k - 1 \in 0 .. N /\ ~(k <= k - 1)
      BY <2>3
    <3>2. CutsOf(h[k - 1]) = SubSeq(f[k - 1], a + 1, To(k - 1))
      <4>1. k - 1 \notin Bad
        <5> HIDE DEF Bad
        <5> QED BY <2>1, <3>1
      <4> QED BY <3>1, <4>1
    <3>3. PICK lo \in Nat, hi, d, e \in Int : Bit(k, lo, hi, d, e)
      BY <1>11, <3>1
    <3>4. PICK x \in Seq(Bytes) : x = f[k - 1]
      BY <3>1
    <3>5. PICK t \in Seq(Bytes) : t = ts[k]
      BY <1>3, <1>4, <3>1
    <3>6. PICK l \in Nat : l = len[k - 1] /\ l = Len(x)
      BY <1>10, <3>1, <3>4
    <3>7. PICK m \in Nat : m = Len(t)
      BY <3>5
    <3>8. Bounded(a, b, l, m, lo, hi, d, e)
      BY <3>3, <3>5, <3>6, <3>7 DEF Bit
    <3>9. SubSeq(x \o t, a + 1, e) = SubSeq(x, a + 1, d) \o (IF lo <= hi THEN SubSeq(t, lo + 1, hi) ELSE <<>>)
      <4>1. Widens(x, t, a, lo, hi, d, e)
        <5> HIDE DEF Bad, To
        <5> QED BY <3>6, <3>7, <3>8, WindowStep
      <4> QED BY <4>1 DEF Widens
    <3>10. f[k] = x \o t /\ len[k] = l + m
      <4>1. f[k] = x \o t
        BY <1>5, <3>1, <3>4, <3>5
      <4>2. Len(x \o t) = l + m
        BY <3>6, <3>7, Concat
      <4>3. k \in 0 .. N
        BY <3>1
      <4> QED BY <1>10, <4>1, <4>2, <4>3
    <3>11. To(k) = e /\ To(k - 1) = d
      BY <3>6, <3>8, <3>10 DEF Bounded
    <3>12. PICK w \in Seq(ChunkSet) : w = h[k - 1]
      BY <3>1
    <3>13. h[k] = w \o Chunk(v, k)
      BY <1>15, <3>1, <3>12
    <3>14. CutsOf(h[k]) = CutsOf(w) \o (IF lo <= hi THEN SubSeq(t, lo + 1, hi) ELSE <<>>)
      <4>1. CASE lo <= hi
        <5>1. PICK c : c = [text |-> ts[k], lo |-> lo, hi |-> hi]
          OBVIOUS
        <5>2. Chunk(v, k) = <<c>> /\ c \in ChunkSet
          BY <3>3, <4>1, <5>1 DEF Bit
        <5>3. h[k] = Append(w, c)
          <6>1. w \o <<c>> = Append(w, c)
            BY ONLY <5>2, w \in Seq(ChunkSet)
          <6> QED BY ONLY <3>13, <5>2, <6>1
        <5>4. Cut(c) = SubSeq(t, lo + 1, hi)
          BY <3>5, <5>1 DEF Cut
        <5>5. CutsOf(Append(w, c)) = CutsOf(w) \o Cut(c)
          BY <5>2, CutsAppend
        <5> QED BY <4>1, <5>3, <5>4, <5>5
      <4>2. CASE ~(lo <= hi)
        <5>1. Chunk(v, k) = <<>>
          BY <3>3, <4>2 DEF Bit
        <5>2. h[k] = w
          BY <3>13, <5>1
        <5>3. PICK y \in Seq(Bytes) : y = CutsOf(w)
          BY CutsAre
        <5>4. y \o <<>> = y
          OBVIOUS
        <5> QED BY <4>2, <5>2, <5>3, <5>4
      <4> QED BY <4>1, <4>2
    <3>15. CutsOf(w) = SubSeq(x, a + 1, d)
      BY <3>2, <3>4, <3>11, <3>12
    <3> QED BY <3>9, <3>10, <3>11, <3>14, <3>15
  <2> QED BY <2>2, <2>3
<1>17. CutsOf(h[N]) = SubSeq(f[N], a + 1, To(N))
  <2>1. N \in 0 .. N /\ N \notin Bad
    <3> HIDE DEF Bad
    <3> QED BY <1>16
  <2> QED BY <2>1
<1>18. Text(n) = f[N] /\ Len(Text(n)) = len[N] /\ len[N] \in Nat
  <2>1. N \in 0 .. N
    OBVIOUS
  <2> QED BY <1>2, <1>5, <1>10, <2>1 DEF Text
<1>19. a = Max({view[v].first - start[n], 0})
  <2>1. Max({view[v].first - start[n], 0}) = IF view[v].first - start[n] >= 0 THEN view[v].first - start[n] ELSE 0
    <3>1. PICK x \in Int : x = view[v].first - start[n]
      BY <1>6
    <3>2. PICK z \in Int : z = 0
      OBVIOUS
    <3>3. Max({x, z}) = IF x >= z THEN x ELSE z
      BY MaxTwo
    <3> QED BY <3>1, <3>2, <3>3
  <2> QED BY <1>6, <1>7, <2>1
<1>20. To(N) = Min({view[v].last - start[n], Len(Text(n))})
  <2>1. PICK x \in Nat : x = len[N]
    BY <1>18
  <2>2. Min({b, x}) = IF b <= x THEN b ELSE x
    BY MinTwo
  <2> QED BY <1>8, <1>18, <2>1, <2>2
<1>21. Window(v) = SubSeq(f[N], a + 1, To(N))
  BY <1>1, <1>18, <1>19, <1>20 DEF Window
<1>22. h[N] \in Seq(ChunkSet)
  <2>1. N \in 0 .. N
    OBVIOUS
  <2> QED BY <2>1
<1> QED BY <1>15, <1>17, <1>21, <1>22 DEF Shown, CutsOf

-----------------------------------------------------------------------------
(***************************************************************************)
(* The invariant of the views: their ranges, and of those whose node was   *)
(* not edited since, that the range is the text they were made for.        *)
(***************************************************************************)
TypeOK ==
  /\ TreesOK
  /\ view \in [Views -> {NULL} \cup ViewSet]
  /\ meant \in [Views -> Seq(Bytes)]
  /\ \A v \in Made : Len(meant[v]) = Length(v)
  /\ fresh \subseteq Made

Means(r, text) ==
  LET n == r.node
  IN  /\ start[n] <= r.first /\ r.last <= start[n] + Len(Text(n))
      /\ text = SubSeq(Text(n), (r.first - start[n]) + 1, r.last - start[n])

ViewsInv == TypeOK /\ \A v \in fresh : Means(view[v], meant[v])

LEMMA ViewIs ==
  ASSUME TypeOK, NEW v \in Made
  PROVE  /\ v \in Views /\ view[v] \in ViewSet /\ view[v].node \in Nodes
         /\ view[v].first \in Nat /\ view[v].last \in Nat /\ view[v].first <= view[v].last
<1>1. v \in Views /\ view[v] # NULL
  BY DEF Made
<1>2. view[v] \in ViewSet
  BY <1>1 DEF TypeOK
<1> QED BY <1>1, <1>2 DEF ViewSet

LEMMA NotNull == NULL \notin ViewSet
BY ViewsAssumption DEF ViewSet

LEMMA TextIs ==
  ASSUME TreesOK, NEW n \in Nodes
  PROVE  Text(n) \in Seq(Bytes) /\ Len(Text(n)) \in Nat
<1>1. inside[n] \in Seq(Seq(Bytes))
  BY TokensAreTexts DEF TreesOK
<1>2. Text(n) \in Seq(Bytes)
  BY <1>1, FlattenType DEF Text
<1> QED BY <1>2

LEMMA ShownIs ==
  ASSUME ViewsInv, NEW v \in Made
  PROVE  /\ Chunks(v) \in Seq(ChunkSet) /\ Shown(v) \in Seq(Bytes) /\ Shown(v) = Window(v)
         /\ v \in fresh => Shown(v) = meant[v] /\ Len(Shown(v)) = Length(v)
<1>1. TypeOK /\ TreesOK /\ view[v] \in ViewSet
  BY ViewIs DEF ViewsInv, TypeOK
<1>2. Chunks(v) \in Seq(ChunkSet) /\ Shown(v) = Window(v)
  BY <1>1, ShownIsWindow
<1>3. Shown(v) \in Seq(Bytes)
  BY <1>2, CutsAre DEF Shown, CutsOf
<1>4. ASSUME v \in fresh PROVE Shown(v) = meant[v] /\ Len(Shown(v)) = Length(v)
  <2>1. PICK n \in Nodes : n = view[v].node
    BY <1>1, ViewIs
  <2>2. PICK t \in Seq(Bytes) : t = Text(n)
    BY <1>1, TextIs
  <2>3. PICK first \in Nat : first = view[v].first
    BY <1>1, ViewIs
  <2>4. PICK last \in Nat : last = view[v].last
    BY <1>1, ViewIs
  <2>5. PICK s \in Nat : s = start[n]
    BY <1>1 DEF TreesOK
  <2>6. PICK l \in Nat : l = Len(t)
    BY <2>2
  <2>7. first <= last
    BY <1>1, <2>3, <2>4, ViewIs
  <2>8. /\ s <= first /\ last <= s + l
        /\ meant[v] = SubSeq(t, (first - s) + 1, last - s)
    BY <1>4, <2>1, <2>2, <2>3, <2>4, <2>5, <2>6 DEF ViewsInv, Means
  <2>9. PICK a \in Nat : a = first - s
    BY <2>8
  <2>10. PICK b \in Nat : b = last - s
    BY <2>7, <2>8
  <2>11. Max({first - s, 0}) = a
    <3>1. PICK z \in Int : z = 0
      OBVIOUS
    <3>2. Max({a, z}) = IF a >= z THEN a ELSE z
      BY MaxTwo
    <3> QED BY <2>9, <3>1, <3>2
  <2>12. Min({last - s, l}) = b
    <3>1. Min({b, l}) = IF b <= l THEN b ELSE l
      BY MinTwo
    <3> QED BY <2>8, <2>10, <3>1
  <2>13. Window(v) = SubSeq(t, a + 1, b)
    BY <2>1, <2>2, <2>3, <2>4, <2>5, <2>6, <2>11, <2>12 DEF Window
  <2>14. meant[v] = SubSeq(t, a + 1, b)
    BY <2>8, <2>9, <2>10
  <2>15. Len(SubSeq(t, a + 1, b)) = b - a
    <3>1. b <= Len(t) /\ a <= b
      BY <2>6, <2>7, <2>8, <2>9, <2>10
    <3> QED BY <3>1, PartIs
  <2>16. b - a = Length(v)
    <3>1. Length(v) = last - first
      BY <2>3, <2>4 DEF Length
    <3>2. (last - s) - (first - s) = last - first
      OBVIOUS
    <3> QED BY ONLY <3>1, <3>2, <2>9, <2>10
  <2> QED BY <1>2, <2>13, <2>14, <2>15, <2>16
<1> QED BY <1>1, <1>2, <1>3, <1>4

LEMMA ViewsInit == Init => ViewsInv
<1> SUFFICES ASSUME Init PROVE ViewsInv
  OBVIOUS
<1>1. inside \in [Nodes -> Seq(Strings)]
  <2>1. PICK D : D = UNION Range(Documents)
    OBVIOUS
  <2>2. inside \in [Nodes -> D] /\ \A n \in Nodes : inside[n] \in Documents[n]
    BY <2>1 DEF Init
  <2>3. \A n \in Nodes : inside[n] \in Seq(Strings)
    BY <2>2, TextsAssumption
  <2> QED BY <2>2, <2>3
<1>2. start \in [Nodes -> Nat] /\ fresh = {}
  BY DEF Init
<1>3. view \in [Views -> {NULL} \cup ViewSet]
  BY DEF Init
<1>4. meant \in [Views -> Seq(Bytes)]
  BY DEF Init
<1>5. Made = {}
  BY DEF Init, Made
<1> QED BY <1>1, <1>2, <1>3, <1>4, <1>5 DEF ViewsInv, TypeOK, TreesOK

LEMMA EditedSeq ==
  ASSUME NEW S, NEW s \in Seq(S), NEW i \in Nat, i # 0
  PROVE  /\ i <= Len(s) => RemoveAt(s, i) \in Seq(S)
         /\ \A x \in S : i <= Len(s) + 1 => InsertAt(s, i, x) \in Seq(S)
<1>1. PICK n \in Nat : n = Len(s)
  OBVIOUS
<1>2. PICK j \in Nat : i = j + 1
  <2>1. i - 1 \in Nat /\ i = (i - 1) + 1
    OBVIOUS
  <2> QED BY <2>1
<1>3. ASSUME j <= n PROVE SubSeq(s, 1, j) \in Seq(S)
  BY <1>1, <1>3
<1>4. SubSeq(s, i + 1, n) \in Seq(S) /\ SubSeq(s, i, n) \in Seq(S)
  <2>1. n <= Len(s) /\ n \in Int /\ j \in Nat /\ i \in Nat
    BY <1>1
  <2>2. SubSeq(s, i + 1, n) \in Seq(S) /\ SubSeq(s, j + 1, n) \in Seq(S)
    BY <2>1, PartIs
  <2> QED BY <1>2, <2>2
<1>5. ASSUME i <= n PROVE RemoveAt(s, i) \in Seq(S)
  <2>1. SubSeq(s, 1, j) \in Seq(S)
    BY <1>2, <1>3, <1>5
  <2>2. RemoveAt(s, i) = SubSeq(s, 1, j) \o SubSeq(s, i + 1, n)
    <3>1. i - 1 = j /\ Len(s) = n
      BY <1>1, <1>2
    <3> QED BY ONLY <3>1 DEF RemoveAt
  <2> QED BY <1>4, <2>1, <2>2, Concat
<1>6. ASSUME NEW x \in S, i <= n + 1 PROVE InsertAt(s, i, x) \in Seq(S)
  <2>1. SubSeq(s, 1, j) \in Seq(S)
    BY <1>2, <1>3, <1>6
  <2>2. InsertAt(s, i, x) = (SubSeq(s, 1, j) \o <<x>>) \o SubSeq(s, i, n)
    <3>1. i - 1 = j /\ Len(s) = n
      BY <1>1, <1>2
    <3> QED BY ONLY <3>1 DEF InsertAt
  <2>3. <<x>> \in Seq(S)
    OBVIOUS
  <2>4. SubSeq(s, 1, j) \o <<x>> \in Seq(S)
    BY <2>1, <2>3, Concat
  <2> QED BY <1>4, <2>2, <2>4, Concat
<1> QED BY <1>1, <1>5, <1>6

(* A view whose node keeps its place and its tokens means what it meant. *)
LEMMA MeansStays ==
  ASSUME ViewsInv, NEW v \in fresh,
         inside'[view[v].node] = inside[view[v].node], start'[view[v].node] = start[view[v].node],
         view'[v] = view[v], meant'[v] = meant[v]
  PROVE  Means(view[v], meant[v])'
<1>1. Means(view[v], meant[v])
  BY DEF ViewsInv
<1>2. PICK n : n = view[v].node
  OBVIOUS
<1>3. Text(n)' = Text(n)
  BY <1>2 DEF Text
<1> QED BY <1>1, <1>2, <1>3 DEF Means

LEMMA NewKeeps ==
  ASSUME ViewsInv, NEW v \in Views, NEW n \in Nodes, New(v, n)
  PROVE  ViewsInv'
<1>1. TypeOK /\ TreesOK
  BY DEF ViewsInv, TypeOK
<1>2. PICK t \in Seq(Bytes) : t = Text(n)
  BY <1>1, TextIs
<1>3. PICK l \in Nat : l = Len(t)
  BY <1>2
<1>4. PICK s \in Nat : s = start[n]
  BY <1>1 DEF TreesOK
<1>5. PICK r : r = [node |-> n, first |-> s, last |-> s + l]
  OBVIOUS
<1>6. /\ view' = [view EXCEPT ![v] = r] /\ meant' = [meant EXCEPT ![v] = t]
      /\ fresh' = fresh \cup {v} /\ inside' = inside /\ start' = start
  BY <1>2, <1>3, <1>4, <1>5 DEF New
<1>7. r \in ViewSet
  BY <1>5 DEF ViewSet
<1>8. view \in [Views -> {NULL} \cup ViewSet] /\ meant \in [Views -> Seq(Bytes)] /\ fresh \subseteq Made
  BY <1>1 DEF TypeOK
<1>9. view'[v] = r /\ meant'[v] = t /\ \A u \in Views \ {v} : view'[u] = view[u] /\ meant'[u] = meant[u]
  BY <1>6, <1>8
<1>10. TypeOK'
  <2>1. view' \in [Views -> {NULL} \cup ViewSet] /\ meant' \in [Views -> Seq(Bytes)]
    BY <1>6, <1>7, <1>8
  <2>2. fresh' \subseteq Made'
    BY <1>6, <1>7, <1>8, <1>9, NotNull DEF Made
  <2>3. TreesOK'
    BY <1>1, <1>6 DEF TreesOK
  <2>4. ASSUME NEW u \in Made' PROVE (Len(meant[u]) = Length(u))'
    <3>1. CASE u = v
      BY <1>3, <1>5, <1>9, <3>1 DEF Length
    <3>2. CASE u # v
      <4>1. u \in Made /\ view'[u] = view[u] /\ meant'[u] = meant[u]
        BY <1>9, <3>2 DEF Made
      <4>2. Len(meant[u]) = Length(u)
        BY <1>1, <4>1 DEF TypeOK
      <4> QED BY <4>1, <4>2 DEF Length
    <3> QED BY <3>1, <3>2
  <2> QED BY <2>1, <2>2, <2>3, <2>4 DEF TypeOK
<1>11. ASSUME NEW u \in fresh' PROVE Means(view[u], meant[u])'
  <2>1. CASE u = v
    <3>1. Text(n)' = t
      BY <1>2, <1>6 DEF Text
    <3>2. t = SubSeq(t, (s - s) + 1, (s + l) - s)
      <4>1. (s - s) + 1 = 1 /\ (s + l) - s = l
        OBVIOUS
      <4>2. SubSeq(t, 1, l) = t
        BY <1>3
      <4> QED BY <4>1, <4>2
    <3>3. start'[n] = s
      BY <1>4, <1>6
    <3>4. r.node = n /\ r.first = s /\ r.last = s + l
      BY <1>5
    <3>5. Means(view[v], meant[v])'
      <4>1. s <= s /\ s + l <= s + l
        OBVIOUS
      <4> QED BY <1>3, <1>9, <3>1, <3>2, <3>3, <3>4, <4>1 DEF Means
    <3> QED BY <2>1, <3>5
  <2>2. CASE u # v
    <3>1. u \in fresh /\ u \in Views
      BY <1>6, <1>8, <2>2 DEF Made
    <3> QED BY <1>6, <1>9, <2>2, <3>1, MeansStays
  <2> QED BY <2>1, <2>2
<1> QED BY <1>10, <1>11 DEF ViewsInv

LEMMA SliceKeeps ==
  ASSUME ViewsInv, NEW v \in Made, NEW w \in Views,
         NEW first \in 0 .. Length(v), NEW last \in 0 .. Length(v), Slice(v, w, first, last)
  PROVE  ViewsInv'
<1>1. TypeOK /\ TreesOK
  BY DEF ViewsInv, TypeOK
<1>2. /\ v \in Views /\ view[v].node \in Nodes /\ view[v].first \in Nat /\ view[v].last \in Nat
      /\ view[v].first <= view[v].last
  BY <1>1, ViewIs
<1>3. PICK n \in Nodes : n = view[v].node
  BY <1>2
<1>4. PICK f \in Nat : f = view[v].first
  BY <1>2
<1>5. PICK g \in Nat : g = view[v].last
  BY <1>2
<1>6. first \in Nat /\ last \in Nat /\ first <= last /\ last <= g - f
  BY <1>2, <1>4, <1>5 DEF Slice, Length
<1>7. PICK r : r = [node |-> n, first |-> f + first, last |-> (f + first) + (last - first)]
  OBVIOUS
<1>8. PICK m : m = SubSeq(meant[v], first + 1, last)
  OBVIOUS
<1>9. /\ view' = [view EXCEPT ![w] = r] /\ meant' = [meant EXCEPT ![w] = m]
      /\ fresh' = (IF v \in fresh THEN fresh \cup {w} ELSE fresh \ {w}) /\ inside' = inside /\ start' = start
  BY <1>3, <1>4, <1>7, <1>8 DEF Slice, From
<1>10. r \in ViewSet /\ r.last = f + last
  BY <1>6, <1>7 DEF ViewSet
<1>11. view \in [Views -> {NULL} \cup ViewSet] /\ meant \in [Views -> Seq(Bytes)] /\ fresh \subseteq Made
  BY <1>1 DEF TypeOK
<1>12. view'[w] = r /\ meant'[w] = m /\ \A u \in Views \ {w} : view'[u] = view[u] /\ meant'[u] = meant[u]
  BY <1>9, <1>11
<1>13. m \in Seq(Bytes) /\ Len(m) = last - first
  <2>1. PICK x \in Seq(Bytes) : x = meant[v]
    BY <1>2, <1>11
  <2>2. last <= Len(x)
    BY <1>1, <1>4, <1>5, <1>6, <2>1 DEF TypeOK, Length
  <2>3. SubSeq(x, first + 1, last) \in Seq(Bytes) /\ Len(SubSeq(x, first + 1, last)) = last - first
    BY <1>6, <2>1, <2>2, PartType
  <2> QED BY <1>8, <2>1, <2>3
<1>14. TypeOK'
  <2>1. view' \in [Views -> {NULL} \cup ViewSet] /\ meant' \in [Views -> Seq(Bytes)]
    BY <1>9, <1>10, <1>11, <1>13
  <2>2. fresh' \subseteq Made'
    BY <1>9, <1>10, <1>11, <1>12, NotNull DEF Made
  <2>3. TreesOK'
    BY <1>1, <1>9 DEF TreesOK
  <2>4. ASSUME NEW u \in Made' PROVE (Len(meant[u]) = Length(u))'
    <3>1. CASE u = w
      <4>1. r.last - r.first = last - first
        BY <1>6, <1>7
      <4> QED BY <1>12, <1>13, <3>1, <4>1 DEF Length
    <3>2. CASE u # w
      <4>1. u \in Made /\ view'[u] = view[u] /\ meant'[u] = meant[u]
        BY <1>12, <3>2 DEF Made
      <4>2. Len(meant[u]) = Length(u)
        BY <1>1, <4>1 DEF TypeOK
      <4> QED BY <4>1, <4>2 DEF Length
    <3> QED BY <3>1, <3>2
  <2> QED BY <2>1, <2>2, <2>3, <2>4 DEF TypeOK
<1>15. ASSUME NEW u \in fresh' PROVE Means(view[u], meant[u])'
  <2>1. CASE u = w
    <3>1. v \in fresh
      BY <1>9, <1>15, <2>1
    <3>2. PICK t \in Seq(Bytes) : t = Text(n)
      BY <1>1, TextIs
    <3>3. PICK s \in Nat : s = start[n]
      BY <1>1 DEF TreesOK
    <3>4. PICK l \in Nat : l = Len(t)
      BY <3>2
    <3>5. s <= f /\ g <= s + l /\ meant[v] = SubSeq(t, (f - s) + 1, g - s)
      BY <1>3, <1>4, <1>5, <3>1, <3>2, <3>3, <3>4 DEF ViewsInv, Means
    <3>6. PICK a \in Nat : a = f - s
      BY <3>5
    <3>7. PICK b \in Nat : b = g - s
      BY <1>6, <3>5
    <3>8. a <= b /\ b <= l /\ last <= b - a
      BY <1>6, <3>5, <3>6, <3>7
    <3>9. SubSeq(SubSeq(t, a + 1, b), first + 1, last) = SubSeq(t, (a + first) + 1, a + last)
      BY <1>6, <3>4, <3>8, PartOfPart
    <3>10. /\ s <= r.first /\ r.last <= s + l
           /\ (r.first - s) + 1 = (a + first) + 1 /\ r.last - s = a + last /\ r.node = n
      BY <1>6, <1>7, <1>10, <3>5, <3>6, <3>7, <3>8
    <3>11. m = SubSeq(t, (r.first - s) + 1, r.last - s)
      BY <1>8, <3>5, <3>6, <3>7, <3>9, <3>10
    <3>12. Text(n)' = t /\ start'[n] = s
      BY <1>9, <3>2, <3>3 DEF Text
    <3>13. Means(view[w], meant[w])'
      BY <1>12, <3>4, <3>10, <3>11, <3>12 DEF Means
    <3> QED BY <2>1, <3>13
  <2>2. CASE u # w
    <3>1. u \in fresh /\ u \in Views
      BY <1>9, <1>11, <2>2 DEF Made
    <3> QED BY <1>9, <1>12, <2>2, <3>1, MeansStays
  <2> QED BY <2>1, <2>2
<1> QED BY <1>14, <1>15 DEF ViewsInv

LEMMA EditKeeps ==
  ASSUME ViewsInv, NEW n \in Nodes, Edited(n),
         \/ \E i \in DOMAIN inside[n] : TakeOut(n, i)
         \/ \E i \in 1 .. Len(inside[n]) + 1, text \in Texts : PutIn(n, i, text)
         \/ \E s \in Starts : Move(n, s)
  PROVE  ViewsInv'
<1>1. TypeOK /\ TreesOK
  BY DEF ViewsInv, TypeOK
<1>2. inside[n] \in Seq(Strings) /\ start[n] \in Nat
  BY <1>1 DEF TreesOK
<1>3. /\ view' = view /\ meant' = meant
      /\ fresh' = {v \in fresh : view[v].node # n}
  BY DEF Edited
<1>4. TreesOK' /\ \A k \in Nodes \ {n} : inside'[k] = inside[k] /\ start'[k] = start[k]
  <2>1. inside \in [Nodes -> Seq(Strings)] /\ start \in [Nodes -> Nat]
    BY <1>1 DEF TreesOK
  <2>2. PICK x \in Seq(Strings) : x = inside[n]
    BY <1>2
  <2>3. CASE \E i \in DOMAIN inside[n] : TakeOut(n, i)
    <3>1. PICK i \in DOMAIN x : TakeOut(n, i)
      BY <2>2, <2>3
    <3>2. i \in Nat /\ i # 0 /\ i <= Len(x)
      OBVIOUS
    <3>3. RemoveAt(x, i) \in Seq(Strings)
      BY <3>2, EditedSeq
    <3>4. inside' = [inside EXCEPT ![n] = RemoveAt(x, i)] /\ start' = start
      BY <2>2, <3>1 DEF TakeOut
    <3> QED BY <2>1, <3>3, <3>4 DEF TreesOK
  <2>4. CASE \E i \in 1 .. Len(inside[n]) + 1, text \in Texts : PutIn(n, i, text)
    <3>1. PICK i \in 1 .. Len(x) + 1, text \in Texts : PutIn(n, i, text)
      BY <2>2, <2>4
    <3>2. i \in Nat /\ i # 0 /\ i <= Len(x) + 1
      OBVIOUS
    <3>3. text \in Strings
      BY DEF Strings
    <3>4. InsertAt(x, i, text) \in Seq(Strings)
      BY <3>2, <3>3, EditedSeq
    <3>5. inside' = [inside EXCEPT ![n] = InsertAt(x, i, text)] /\ start' = start
      BY <2>2, <3>1 DEF PutIn
    <3> QED BY <2>1, <3>4, <3>5 DEF TreesOK
  <2>5. CASE \E s \in Starts : Move(n, s)
    <3>1. PICK s \in Starts : Move(n, s)
      BY <2>5
    <3>2. s \in Nat
      BY StartsAssumption
    <3>3. start' = [start EXCEPT ![n] = s] /\ inside' = inside
      BY <3>1 DEF Move
    <3> QED BY <2>1, <3>2, <3>3 DEF TreesOK
  <2> QED BY <2>3, <2>4, <2>5
<1>5. TypeOK'
  BY <1>1, <1>3, <1>4 DEF TypeOK, Made, Length
<1>6. ASSUME NEW u \in fresh' PROVE Means(view[u], meant[u])'
  <2>1. u \in fresh /\ view[u].node # n
    BY <1>3
  <2>2. u \in Made
    BY <1>1, <2>1 DEF TypeOK
  <2>3. view[u].node \in Nodes \ {n}
    BY <1>1, <2>1, <2>2, ViewIs
  <2> QED BY <1>3, <1>4, <2>1, <2>3, MeansStays
<1> QED BY <1>5, <1>6 DEF ViewsInv

(* What the other steps leave alone. *)
Seen == <<inside, start, view, meant, fresh>>

LEMMA ViewsKeeps ==
  ASSUME ViewsInv, UNCHANGED Seen PROVE ViewsInv'
<1>1. TypeOK'
  BY DEF ViewsInv, TypeOK, TreesOK, Made, Length, Seen
<1>2. ASSUME NEW u \in fresh' PROVE Means(view[u], meant[u])'
  BY MeansStays DEF Seen
<1> QED BY <1>1, <1>2 DEF ViewsInv

LEMMA ViewsStep ==
  ASSUME ViewsInv, [Next]_vars PROVE ViewsInv'
<1>1. CASE \E v \in Views, n \in Nodes : New(v, n)
  BY <1>1, NewKeeps
<1>2. CASE \E v \in Made, w \in Views : \E first, last \in 0 .. Length(v) : Slice(v, w, first, last)
  BY <1>2, SliceKeeps
<1>3. CASE \E v, w \in Made : Compare(v, w)
  BY <1>3, ViewsKeeps DEF Compare, Seen
<1>4. CASE ZipTurn \/ Answered
  BY <1>4, ViewsKeeps DEF ZipTurn, Answered, Seen
<1>5. CASE \E n \in Nodes :
             \/ \E i \in DOMAIN inside[n] : TakeOut(n, i)
             \/ \E i \in 1 .. Len(inside[n]) + 1, text \in Texts : PutIn(n, i, text)
             \/ \E s \in Starts : Move(n, s)
  <2>1. PICK n \in Nodes : \/ \E i \in DOMAIN inside[n] : TakeOut(n, i)
                           \/ \E i \in 1 .. Len(inside[n]) + 1, text \in Texts : PutIn(n, i, text)
                           \/ \E s \in Starts : Move(n, s)
    BY <1>5
  <2>2. Edited(n)
    BY <2>1 DEF TakeOut, PutIn, Move
  <2> QED BY <2>1, <2>2, EditKeeps
<1>6. CASE UNCHANGED vars
  BY <1>6, ViewsKeeps DEF vars, Seen
<1> QED BY <1>1, <1>2, <1>3, <1>4, <1>5, <1>6 DEF Next

(***************************************************************************)
(* ShowsText, for trees of any texts: the tokens of a view, cut to its     *)
(* range, are the text it was made for (tokens_with_ranges).               *)
(***************************************************************************)
THEOREM ShowsTextAlways == Spec => []ShowsText
<1>1. ViewsInv => ShowsText
  BY ShownIs DEF ShowsText
<1>2. ViewsInv /\ [Next]_vars => ViewsInv'
  BY ViewsStep
<1> QED BY <1>1, <1>2, ViewsInit, PTL DEF Spec

-----------------------------------------------------------------------------
(***************************************************************************)
(* The first place of a character in two texts put together.               *)
(***************************************************************************)
LEMMA FirstAtIs ==
  ASSUME NEW S, NEW t \in Seq(S), NEW c
  PROVE  \/ FirstAt(t, c) = {} /\ \A i \in 1 .. Len(t) : t[i] # c
         \/ \E o \in Nat : /\ FirstAt(t, c) = {o} /\ Max(FirstAt(t, c)) = o
                           /\ o + 1 \in 1 .. Len(t) /\ t[o + 1] = c /\ \A i \in 1 .. o : t[i] # c
<1>1. PICK n \in Nat : n = Len(t) /\ DOMAIN t = 1 .. n
  OBVIOUS
<1>2. PICK B : B = {i \in 1 .. n : t[i] = c}
  OBVIOUS
<1>3. PICK A : A = {o \in DOMAIN t : t[o] = c /\ ~\E p \in 1 .. o - 1 : t[p] = c}
  OBVIOUS
<1>4. FirstAt(t, c) = {o - 1 : o \in A}
  BY <1>3 DEF FirstAt
<1>5. CASE B = {}
  <2>1. A = {}
    BY <1>1, <1>2, <1>3, <1>5
  <2> QED BY <1>1, <1>2, <1>4, <1>5, <2>1
<1>6. CASE B # {}
  <2>1. PICK m \in B : \A k \in B : m <= k
    <3>1. B \subseteq Nat
      BY <1>2
    <3> QED BY <1>6, <3>1, LeastNumber
  <2>2. m \in 1 .. n /\ t[m] = c
    BY <1>2
  <2>3. ASSUME NEW p \in 1 .. n, t[p] = c PROVE m <= p
    BY <1>2, <2>1, <2>3
  <2>4. A = {m}
    <3>1. m \in A
      BY <1>1, <1>3, <2>2, <2>3
    <3>2. ASSUME NEW o \in A PROVE o = m
      <4>1. o \in 1 .. n /\ t[o] = c /\ ~\E p \in 1 .. o - 1 : t[p] = c
        BY <1>1, <1>3
      <4>2. m <= o
        BY <2>3, <4>1
      <4> QED BY <2>2, <4>1, <4>2
    <3> QED BY <3>1, <3>2
  <2>5. PICK o \in Nat : m = o + 1
    <3>1. m - 1 \in Nat /\ m = (m - 1) + 1
      BY <2>2
    <3> QED BY <3>1
  <2>6. FirstAt(t, c) = {o}
    <3>1. FirstAt(t, c) = {x - 1 : x \in {m}}
      BY <1>4, <2>4
    <3>2. m - 1 = o
      BY <2>5
    <3> QED BY <3>1, <3>2
  <2>7. Max({o}) = o
    BY DEF Max
  <2>8. ASSUME NEW i \in 1 .. o PROVE t[i] # c
    <3>1. i \in 1 .. n /\ ~(m <= i)
      BY <2>2, <2>5
    <3> QED BY <2>3, <3>1
  <2> QED BY <1>1, <2>2, <2>5, <2>6, <2>7, <2>8
<1> QED BY <1>5, <1>6

IsFirst(t, c, o) == o + 1 \in 1 .. Len(t) /\ t[o + 1] = c /\ \A i \in 1 .. o : t[i] # c

LEMMA FirstAtOf ==
  ASSUME NEW S, NEW t \in Seq(S), NEW c, NEW o \in Nat, IsFirst(t, c, o)
  PROVE  FirstAt(t, c) = {o} /\ Max(FirstAt(t, c)) = o
<1>1. PICK p \in Nat : /\ FirstAt(t, c) = {p} /\ Max(FirstAt(t, c)) = p
                       /\ p + 1 \in 1 .. Len(t) /\ t[p + 1] = c /\ \A i \in 1 .. p : t[i] # c
  <2>1. ~ \A i \in 1 .. Len(t) : t[i] # c
    BY DEF IsFirst
  <2> QED BY <2>1, FirstAtIs
<1>2. ~(p < o)
  <2> SUFFICES ASSUME p < o PROVE FALSE
    OBVIOUS
  <2>1. p + 1 \in 1 .. o
    OBVIOUS
  <2> QED BY <1>1, <2>1 DEF IsFirst
<1>3. ~(o < p)
  <2> SUFFICES ASSUME o < p PROVE FALSE
    OBVIOUS
  <2>1. o + 1 \in 1 .. p
    OBVIOUS
  <2> QED BY <1>1, <2>1 DEF IsFirst
<1>4. p = o
  BY <1>2, <1>3
<1> QED BY <1>1, <1>4

LEMMA FirstAtJoined ==
  ASSUME NEW S, NEW x \in Seq(S), NEW y \in Seq(S), NEW c
  PROVE  /\ FirstAt(x, c) # {} => FirstAt(x \o y, c) = FirstAt(x, c)
         /\ FirstAt(x, c) = {} /\ FirstAt(y, c) = {} => FirstAt(x \o y, c) = {}
         /\ FirstAt(x, c) = {} /\ FirstAt(y, c) # {} =>
              FirstAt(x \o y, c) # {} /\ Max(FirstAt(x \o y, c)) = Len(x) + Max(FirstAt(y, c))
<1>1. PICK l \in Nat : l = Len(x)
  OBVIOUS
<1>2. PICK m \in Nat : m = Len(y)
  OBVIOUS
<1>3. PICK z : z = x \o y
  OBVIOUS
<1>4. z \in Seq(S) /\ Len(z) = l + m /\ \A i \in 1 .. (l + m) : z[i] = IF i <= l THEN x[i] ELSE y[i - l]
  BY <1>1, <1>2, <1>3, Concat
<1>5. ASSUME FirstAt(x, c) # {} PROVE FirstAt(z, c) = FirstAt(x, c)
  <2>1. PICK o \in Nat : /\ FirstAt(x, c) = {o}
                         /\ o + 1 \in 1 .. l /\ x[o + 1] = c /\ \A i \in 1 .. o : x[i] # c
    BY <1>1, <1>5, FirstAtIs
  <2>2. o + 1 \in 1 .. Len(z) /\ z[o + 1] = c
    BY <1>4, <2>1
  <2>3. \A i \in 1 .. o : z[i] # c
    <3>1. TAKE i \in 1 .. o
    <3>2. i \in 1 .. (l + m) /\ i <= l
      BY <2>1
    <3> QED BY <1>4, <2>1, <3>2
  <2>4. IsFirst(z, c, o)
    BY <2>2, <2>3 DEF IsFirst
  <2> QED BY <1>4, <2>1, <2>4, FirstAtOf
<1>6. ASSUME FirstAt(x, c) = {} PROVE \A i \in 1 .. l : x[i] # c
  BY <1>1, <1>6, FirstAtIs
<1>7. ASSUME FirstAt(x, c) = {}, FirstAt(y, c) = {} PROVE FirstAt(z, c) = {}
  <2>1. \A i \in 1 .. m : y[i] # c
    BY <1>2, <1>7, FirstAtIs
  <2>2. ASSUME NEW i \in 1 .. Len(z) PROVE z[i] # c
    <3>1. CASE i <= l
      <4>1. i \in 1 .. l /\ i \in 1 .. (l + m)
        BY <1>4, <3>1
      <4> QED BY <1>4, <1>6, <1>7, <3>1, <4>1
    <3>2. CASE ~(i <= l)
      <4>1. i - l \in 1 .. m /\ i \in 1 .. (l + m)
        BY <1>4, <3>2
      <4> QED BY <1>4, <2>1, <3>2, <4>1
    <3> QED BY <3>1, <3>2
  <2>3. ASSUME NEW o \in Nat, o + 1 \in 1 .. Len(z), z[o + 1] = c PROVE FALSE
    BY <2>2, <2>3
  <2> QED BY <1>4, <2>3, FirstAtIs
<1>8. ASSUME FirstAt(x, c) = {}, FirstAt(y, c) # {}
      PROVE  FirstAt(z, c) # {} /\ Max(FirstAt(z, c)) = l + Max(FirstAt(y, c))
  <2>1. PICK o \in Nat : /\ Max(FirstAt(y, c)) = o
                         /\ o + 1 \in 1 .. m /\ y[o + 1] = c /\ \A i \in 1 .. o : y[i] # c
    BY <1>2, <1>8, FirstAtIs
  <2>2. PICK p \in Nat : p = l + o
    OBVIOUS
  <2>3. p + 1 \in 1 .. Len(z) /\ z[p + 1] = c
    <3>1. p + 1 \in 1 .. (l + m) /\ ~(p + 1 <= l) /\ (p + 1) - l = o + 1
      BY <2>1, <2>2
    <3> QED BY <1>4, <2>1, <3>1
  <2>4. ASSUME NEW i \in 1 .. p PROVE z[i] # c
    <3>1. i \in 1 .. (l + m)
      BY <2>1, <2>2
    <3>2. CASE i <= l
      <4>1. i \in 1 .. l
        BY <3>2
      <4> QED BY <1>4, <1>6, <1>8, <3>1, <3>2, <4>1
    <3>3. CASE ~(i <= l)
      <4>1. i - l \in 1 .. o
        BY <2>2, <3>3
      <4> QED BY <1>4, <2>1, <3>1, <3>3, <4>1
    <3> QED BY <3>2, <3>3
  <2>5. FirstAt(z, c) = {p} /\ Max(FirstAt(z, c)) = p
    <3>1. IsFirst(z, c, p)
      BY <2>3, <2>4 DEF IsFirst
    <3> QED BY <1>4, <3>1, FirstAtOf
  <2> QED BY <2>1, <2>2, <2>5
<1> QED BY <1>1, <1>3, <1>5, <1>7, <1>8

-----------------------------------------------------------------------------
(***************************************************************************)
(* A fold of the chunks goes with the text they show so far.               *)
(***************************************************************************)
Grows(g, cs) == g[0] = <<>> /\ \A k \in 1 .. Len(cs) : g[k] = g[k - 1] \o Cut(cs[k])

LEMMA ShownGrows ==
  ASSUME NEW cs \in Seq(ChunkSet)
  PROVE  \E g \in [0 .. Len(cs) -> Seq(Bytes)] : Grows(g, cs) /\ CutsOf(cs) = g[Len(cs)]
<1>1. PICK p : p = [i \in DOMAIN cs |-> Cut(cs[i])]
  OBVIOUS
<1>2. p \in Seq(Seq(Bytes)) /\ CutsOf(cs) = FlattenSeq(p)
  BY <1>1, CutsAre DEF CutsOf
<1>3. PICK n \in Nat : n = Len(cs) /\ DOMAIN cs = 1 .. n
  OBVIOUS
<1>4. Len(p) = n /\ \A k \in 1 .. n : p[k] = Cut(cs[k])
  <2>1. DOMAIN p = 1 .. n
    BY <1>1, <1>3
  <2>2. PICK U : U = Seq(Bytes)
    OBVIOUS
  <2>3. p \in Seq(U)
    BY <1>2, <2>2
  <2>4. Len(p) = n
    BY ONLY <2>1, <2>3, n \in Nat
  <2> QED BY <1>1, <1>3, <2>4
<1>5. PICK g \in [0 .. Len(p) -> Seq(Bytes)] : Flattens(g, p)
  BY <1>2, FlattenSteps
<1>6. g[0] = <<>> /\ FlattenSeq(p) = g[Len(p)]
  BY <1>5 DEF Flattens
<1>7. \A k \in 1 .. n : g[k] = g[k - 1] \o Cut(cs[k])
  BY <1>4, <1>5 DEF Flattens
<1>8. g \in [0 .. n -> Seq(Bytes)]
  BY <1>4
<1>9. CutsOf(cs) = g[n]
  BY <1>2, <1>4, <1>6
<1> QED BY ONLY <1>3, <1>6, <1>7, <1>8, <1>9 DEF Grows

(* What a fold that has this equation for its results makes of the text.   *)
FindAnswer(t, c) ==
  IF FirstAt(t, c) = {} THEN Found("none", Len(t)) ELSE Found("some", Max(FirstAt(t, c)))

LEMMA FoundIs ==
  ASSUME NEW a, NEW b PROVE Found(a, b).answer = a /\ Found(a, b).value = b
BY DEF Found

LEMMA ReadableIs ==
  ASSUME NEW v, NEW cs \in Seq(ChunkSet), cs = Chunks(v), Readable(v)
  PROVE  \A k \in 1 .. Len(cs) : CutsWell(cs[k]) /\ Cut(cs[k]) \in Seq(Bytes)
BY CutIs DEF Readable

LEMMA FindAnswers ==
  ASSUME NEW v, Chunks(v) \in Seq(ChunkSet), Readable(v), NEW c
  PROVE  FindChar(v, c) = FindAnswer(Shown(v), c)
<1>1. PICK cs \in Seq(ChunkSet) : cs = Chunks(v)
  OBVIOUS
<1>2. PICK n \in Nat : n = Len(cs) /\ DOMAIN cs = 1 .. n
  OBVIOUS
<1>3. PICK g \in [0 .. n -> Seq(Bytes)] : Grows(g, cs) /\ CutsOf(cs) = g[n]
  BY <1>2, ShownGrows
<1>4. Shown(v) = g[n]
  BY <1>1, <1>3 DEF Shown, CutsOf
<1>5. \A k \in 1 .. n : CutsWell(cs[k]) /\ Cut(cs[k]) \in Seq(Bytes)
  BY <1>1, <1>2, ReadableIs
<1> DEFINE F(r, k) == IF FirstAt(Cut(k), c) = {} THEN [r EXCEPT !.value = @ + Len(Cut(k))]
                      ELSE Found("some", r.value + Max(FirstAt(Cut(k), c)))
           Next1(h, k) == IF h[k - 1].answer # "none" THEN h[k - 1]
                          ELSE IF ~CutsWell(cs[k]) THEN Found("panic", 0)
                          ELSE F(h[k - 1], cs[k])
           P(h) == h = [k \in 0 .. n |-> IF k = 0 THEN Found("none", 0) ELSE Next1(h, k)]
<1>6. FindChar(v, c) = (CHOOSE h : P(h))[n]
  BY <1>1, <1>2 DEF FindChar, TryFoldChunks
<1>7. PICK a : a = [k \in 0 .. n |-> FindAnswer(g[k], c)]
  OBVIOUS
<1>8. a[0] = Found("none", 0)
  <2>1. g[0] = <<>> /\ 0 \in 0 .. n
    BY <1>3 DEF Grows
  <2>2. FirstAt(<<>>, c) = {} /\ Len(<<>>) = 0
    BY DEF FirstAt
  <2> QED BY <1>7, <2>1, <2>2 DEF FindAnswer
<1>9. ASSUME NEW k \in 1 .. n PROVE a[k] = Next1(a, k)
  <2>1. k - 1 \in 0 .. n /\ k \in 0 .. n
    OBVIOUS
  <2>2. PICK x \in Seq(Bytes) : x = g[k - 1]
    BY <2>1
  <2>3. PICK y \in Seq(Bytes) : y = Cut(cs[k])
    BY <1>5
  <2>4. g[k] = x \o y
    BY <1>2, <1>3, <2>2, <2>3 DEF Grows
  <2>5. a[k - 1] = FindAnswer(x, c) /\ a[k] = FindAnswer(x \o y, c)
    BY <1>7, <2>1, <2>2, <2>4
  <2>6. Len(x \o y) = Len(x) + Len(y)
    BY Concat
  <2>7. CASE FirstAt(x, c) # {}
    <3>1. FirstAt(x \o y, c) = FirstAt(x, c)
      BY <2>7, FirstAtJoined
    <3> QED BY <2>5, <2>7, <3>1, FoundIs DEF FindAnswer
  <2>8. CASE FirstAt(x, c) = {} /\ FirstAt(y, c) = {}
    <3>1. FirstAt(x \o y, c) = {}
      BY <2>8, FirstAtJoined
    <3>2. a[k - 1] = Found("none", Len(x)) /\ a[k] = Found("none", Len(x) + Len(y))
      BY <2>5, <2>6, <2>8, <3>1 DEF FindAnswer
    <3>3. F(a[k - 1], cs[k]) = Found("none", Len(x) + Len(y))
      BY <2>3, <2>8, <3>2 DEF Found
    <3> QED BY <1>5, <3>2, <3>3, FoundIs
  <2>9. CASE FirstAt(x, c) = {} /\ FirstAt(y, c) # {}
    <3>1. FirstAt(x \o y, c) # {} /\ Max(FirstAt(x \o y, c)) = Len(x) + Max(FirstAt(y, c))
      BY <2>9, FirstAtJoined
    <3>2. a[k - 1] = Found("none", Len(x)) /\ a[k] = Found("some", Len(x) + Max(FirstAt(y, c)))
      BY <2>5, <2>9, <3>1 DEF FindAnswer
    <3>3. F(a[k - 1], cs[k]) = Found("some", Len(x) + Max(FirstAt(y, c)))
      BY <2>3, <2>9, <3>2, FoundIs
    <3> QED BY <1>5, <3>2, <3>3, FoundIs
  <2> QED BY <2>7, <2>8, <2>9
<1>10. P(a)
  <2>1. a = [k \in 0 .. n |-> a[k]]
    BY <1>7
  <2>2. ASSUME NEW k \in 0 .. n PROVE a[k] = IF k = 0 THEN Found("none", 0) ELSE Next1(a, k)
    <3> HIDE DEF Next1
    <3>1. CASE k = 0
      BY <1>8, <3>1
    <3>2. CASE k # 0
      <4>1. k \in 1 .. n
        BY <3>2
      <4> QED BY <1>9, <3>2, <4>1
    <3> QED BY <3>1, <3>2
  <2> HIDE DEF Next1
  <2> QED BY <2>1, <2>2
<1>11. PICK h : h = CHOOSE x : P(x)
  OBVIOUS
<1>12. P(h)
  <2> HIDE DEF P
  <2> QED BY <1>10, <1>11
<1>13. Agreeing(h, a, n)
  <2>1. h[0] = a[0]
    BY <1>8, <1>12
  <2>2. ASSUME NEW k \in 1 .. n, h[k - 1] = a[k - 1] PROVE h[k] = a[k]
    <3>1. k \in 0 .. n /\ k # 0
      OBVIOUS
    <3>2. h[k] = Next1(h, k)
      <4> HIDE DEF Next1
      <4> QED BY <1>12, <3>1
    <3>3. Next1(h, k) = Next1(a, k)
      BY <2>2
    <3> HIDE DEF Next1
    <3> QED BY <1>9, <3>2, <3>3
  <2> QED BY <2>1, <2>2 DEF Agreeing
<1>14. h[n] = a[n]
  <2>1. n \in 0 .. n
    OBVIOUS
  <2> HIDE DEF P
  <2> QED BY <1>13, <2>1, StepsAgree
<1>15. n \in 0 .. n
  OBVIOUS
<1> HIDE DEF P
<1> QED BY <1>4, <1>6, <1>7, <1>11, <1>14, <1>15

ContainsAnswer(t, c) == IF FirstAt(t, c) = {} THEN Found("none", 0) ELSE Found("some", 0)

LEMMA ContainsAnswers ==
  ASSUME NEW v, Chunks(v) \in Seq(ChunkSet), Readable(v), NEW c
  PROVE  ContainsChar(v, c) = ContainsAnswer(Shown(v), c)
<1>1. PICK cs \in Seq(ChunkSet) : cs = Chunks(v)
  OBVIOUS
<1>2. PICK n \in Nat : n = Len(cs) /\ DOMAIN cs = 1 .. n
  OBVIOUS
<1>3. PICK g \in [0 .. n -> Seq(Bytes)] : Grows(g, cs) /\ CutsOf(cs) = g[n]
  BY <1>2, ShownGrows
<1>4. Shown(v) = g[n]
  BY <1>1, <1>3 DEF Shown, CutsOf
<1>5. \A k \in 1 .. n : CutsWell(cs[k]) /\ Cut(cs[k]) \in Seq(Bytes)
  BY <1>1, <1>2, ReadableIs
<1> DEFINE F(r, k) == IF FirstAt(Cut(k), c) = {} THEN r ELSE Found("some", 0)
           Next1(h, k) == IF h[k - 1].answer # "none" THEN h[k - 1]
                          ELSE IF ~CutsWell(cs[k]) THEN Found("panic", 0)
                          ELSE F(h[k - 1], cs[k])
           P(h) == h = [k \in 0 .. n |-> IF k = 0 THEN Found("none", 0) ELSE Next1(h, k)]
<1>6. ContainsChar(v, c) = (CHOOSE h : P(h))[n]
  BY <1>1, <1>2 DEF ContainsChar, TryFoldChunks
<1>7. PICK a : a = [k \in 0 .. n |-> ContainsAnswer(g[k], c)]
  OBVIOUS
<1>8. a[0] = Found("none", 0)
  <2>1. g[0] = <<>> /\ 0 \in 0 .. n
    BY <1>3 DEF Grows
  <2>2. FirstAt(<<>>, c) = {}
    BY DEF FirstAt
  <2> QED BY <1>7, <2>1, <2>2 DEF ContainsAnswer
<1>9. ASSUME NEW k \in 1 .. n PROVE a[k] = Next1(a, k)
  <2>1. k - 1 \in 0 .. n /\ k \in 0 .. n
    OBVIOUS
  <2>2. PICK x \in Seq(Bytes) : x = g[k - 1]
    BY <2>1
  <2>3. PICK y \in Seq(Bytes) : y = Cut(cs[k])
    BY <1>5
  <2>4. g[k] = x \o y
    BY <1>2, <1>3, <2>2, <2>3 DEF Grows
  <2>5. a[k - 1] = ContainsAnswer(x, c) /\ a[k] = ContainsAnswer(x \o y, c)
    BY <1>7, <2>1, <2>2, <2>4
  <2>6. Len(x \o y) = Len(x) + Len(y)
    BY Concat
  <2>7. CASE FirstAt(x, c) # {}
    <3>1. FirstAt(x \o y, c) = FirstAt(x, c)
      BY <2>7, FirstAtJoined
    <3> QED BY <2>5, <2>7, <3>1, FoundIs DEF ContainsAnswer
  <2>8. CASE FirstAt(x, c) = {} /\ FirstAt(y, c) = {}
    <3>1. FirstAt(x \o y, c) = {}
      BY <2>8, FirstAtJoined
    <3>2. a[k - 1] = Found("none", 0) /\ a[k] = Found("none", 0)
      BY <2>5, <2>8, <3>1 DEF ContainsAnswer
    <3> QED BY <1>5, <2>3, <2>8, <3>2, FoundIs
  <2>9. CASE FirstAt(x, c) = {} /\ FirstAt(y, c) # {}
    <3>1. FirstAt(x \o y, c) # {}
      BY <2>9, FirstAtJoined
    <3>2. a[k - 1] = Found("none", 0) /\ a[k] = Found("some", 0)
      BY <2>5, <2>9, <3>1 DEF ContainsAnswer
    <3> QED BY <1>5, <2>3, <2>9, <3>2, FoundIs
  <2> QED BY <2>7, <2>8, <2>9
<1>10. P(a)
  <2>1. a = [k \in 0 .. n |-> a[k]]
    BY <1>7
  <2>2. ASSUME NEW k \in 0 .. n PROVE a[k] = IF k = 0 THEN Found("none", 0) ELSE Next1(a, k)
    <3> HIDE DEF Next1
    <3>1. CASE k = 0
      BY <1>8, <3>1
    <3>2. CASE k # 0
      <4>1. k \in 1 .. n
        BY <3>2
      <4> QED BY <1>9, <3>2, <4>1
    <3> QED BY <3>1, <3>2
  <2> HIDE DEF Next1
  <2> QED BY <2>1, <2>2
<1>11. PICK h : h = CHOOSE x : P(x)
  OBVIOUS
<1>12. P(h)
  <2> HIDE DEF P
  <2> QED BY <1>10, <1>11
<1>13. Agreeing(h, a, n)
  <2>1. h[0] = a[0]
    BY <1>8, <1>12
  <2>2. ASSUME NEW k \in 1 .. n, h[k - 1] = a[k - 1] PROVE h[k] = a[k]
    <3>1. k \in 0 .. n /\ k # 0
      OBVIOUS
    <3>2. h[k] = Next1(h, k)
      <4> HIDE DEF Next1
      <4> QED BY <1>12, <3>1
    <3>3. Next1(h, k) = Next1(a, k)
      BY <2>2
    <3> HIDE DEF Next1
    <3> QED BY <1>9, <3>2, <3>3
  <2> QED BY <2>1, <2>2 DEF Agreeing
<1>14. h[n] = a[n]
  <2>1. n \in 0 .. n
    OBVIOUS
  <2> HIDE DEF P
  <2> QED BY <1>13, <2>1, StepsAgree
<1>15. n \in 0 .. n
  OBVIOUS
<1> HIDE DEF P
<1> QED BY <1>4, <1>6, <1>7, <1>11, <1>14, <1>15

CharAnswer(t, o) ==
  IF o >= Len(t) THEN Found("none", Len(t))
  ELSE IF t[o + 1] \in Tails THEN Found("panic", 0)
  ELSE Found("some", t[o + 1])

LEMMA CharAnswers ==
  ASSUME NEW v, Chunks(v) \in Seq(ChunkSet), Readable(v), NEW o \in Nat
  PROVE  CharAt(v, o) = CharAnswer(Shown(v), o)
<1>1. PICK cs \in Seq(ChunkSet) : cs = Chunks(v)
  OBVIOUS
<1>2. PICK n \in Nat : n = Len(cs) /\ DOMAIN cs = 1 .. n
  OBVIOUS
<1>3. PICK g \in [0 .. n -> Seq(Bytes)] : Grows(g, cs) /\ CutsOf(cs) = g[n]
  BY <1>2, ShownGrows
<1>4. Shown(v) = g[n]
  BY <1>1, <1>3 DEF Shown, CutsOf
<1>5. \A k \in 1 .. n : CutsWell(cs[k]) /\ Cut(cs[k]) \in Seq(Bytes)
  BY <1>1, <1>2, ReadableIs
<1> DEFINE F(r, k) == LET begin == r.value
                          end == begin + Len(Cut(k))
                      IN  IF ~(begin <= o /\ o < end) THEN Found("none", end)
                          ELSE IF ~Boundary(Cut(k), o - begin) THEN Found("panic", 0)
                          ELSE Found("some", Cut(k)[o - begin + 1])
           Next1(h, k) == IF h[k - 1].answer # "none" THEN h[k - 1]
                          ELSE IF ~CutsWell(cs[k]) THEN Found("panic", 0)
                          ELSE F(h[k - 1], cs[k])
           P(h) == h = [k \in 0 .. n |-> IF k = 0 THEN Found("none", 0) ELSE Next1(h, k)]
<1>6. CharAt(v, o) = (CHOOSE h : P(h))[n]
  BY <1>1, <1>2 DEF CharAt, TryFoldChunks
<1>7. PICK a : a = [k \in 0 .. n |-> CharAnswer(g[k], o)]
  OBVIOUS
<1>8. a[0] = Found("none", 0)
  <2>1. g[0] = <<>> /\ 0 \in 0 .. n
    BY <1>3 DEF Grows
  <2>2. Len(<<>>) = 0
    OBVIOUS
  <2> QED BY <1>7, <2>1, <2>2 DEF CharAnswer
<1>9. ASSUME NEW k \in 1 .. n PROVE a[k] = Next1(a, k)
  <2>1. k - 1 \in 0 .. n /\ k \in 0 .. n
    OBVIOUS
  <2>2. PICK x \in Seq(Bytes) : x = g[k - 1]
    BY <2>1
  <2>3. PICK y \in Seq(Bytes) : y = Cut(cs[k])
    BY <1>5
  <2>4. g[k] = x \o y
    BY <1>2, <1>3, <2>2, <2>3 DEF Grows
  <2>5. a[k - 1] = CharAnswer(x, o) /\ a[k] = CharAnswer(x \o y, o)
    BY <1>7, <2>1, <2>2, <2>4
  <2>6. Len(x \o y) = Len(x) + Len(y)
    BY Concat
  <2>7. CASE ~(o >= Len(x))
    <3>1. o + 1 \in 1 .. Len(x)
      BY <2>7
    <3>2. (x \o y)[o + 1] = x[o + 1] /\ ~(o >= Len(x \o y))
      BY <2>6, <3>1, Concat
    <3> QED BY <2>5, <2>7, <3>2, FoundIs DEF CharAnswer
  <2>8. CASE o >= Len(x) /\ o >= Len(x) + Len(y)
    <3>1. a[k - 1] = Found("none", Len(x)) /\ a[k] = Found("none", Len(x) + Len(y))
      BY <2>5, <2>6, <2>8 DEF CharAnswer
    <3>2. F(a[k - 1], cs[k]) = Found("none", Len(x) + Len(y))
      BY <2>3, <2>8, <3>1, FoundIs
    <3> QED BY <1>5, <3>1, <3>2, FoundIs
  <2>9. CASE o >= Len(x) /\ ~(o >= Len(x) + Len(y))
    <3>1. PICK l \in Nat : l = Len(x)
      OBVIOUS
    <3>2. PICK m \in Nat : m = Len(y)
      OBVIOUS
    <3>3. PICK p \in Nat : p = o - l
      <4>1. o >= l
        BY <2>9, <3>1
      <4> HIDE DEF F, Next1, P
      <4> QED BY <4>1
    <3>4. p < m /\ o + 1 \in 1 .. (l + m) /\ ~(o + 1 <= l) /\ (o + 1) - l = p + 1 /\ l <= o /\ o < l + m
      BY <2>9, <3>1, <3>2, <3>3
    <3>5. (x \o y)[o + 1] = y[p + 1]
      BY <3>1, <3>2, <3>4, Concat
    <3>6. a[k - 1] = Found("none", l) /\ a[k] = IF y[p + 1] \in Tails THEN Found("panic", 0) ELSE Found("some", y[p + 1])
      BY <2>5, <2>6, <2>9, <3>1, <3>5 DEF CharAnswer
    <3>7. Boundary(y, p) <=> y[p + 1] \notin Tails
      BY <3>2, <3>4 DEF Boundary
    <3>8. F(a[k - 1], cs[k]) = IF ~Boundary(y, p) THEN Found("panic", 0) ELSE Found("some", y[p + 1])
      <4>1. a[k - 1].value = l
        BY <3>6, FoundIs
      <4>2. PICK e \in Nat : e = l + Len(Cut(cs[k]))
        BY <2>3
      <4>3. l <= o /\ o < e /\ o - l = p /\ (o - l) + 1 = p + 1
        BY <2>3, <3>2, <3>3, <3>4, <4>2
      <4> QED BY <2>3, <4>1, <4>2, <4>3
    <3>9. Next1(a, k) = F(a[k - 1], cs[k])
      <4> HIDE DEF F
      <4> QED BY <1>5, <3>6, FoundIs
    <3> QED BY <3>6, <3>7, <3>8, <3>9
  <2> QED BY <2>7, <2>8, <2>9
<1>10. P(a)
  <2>1. a = [k \in 0 .. n |-> a[k]]
    BY <1>7
  <2>2. ASSUME NEW k \in 0 .. n PROVE a[k] = IF k = 0 THEN Found("none", 0) ELSE Next1(a, k)
    <3> HIDE DEF Next1
    <3>1. CASE k = 0
      BY <1>8, <3>1
    <3>2. CASE k # 0
      <4>1. k \in 1 .. n
        BY <3>2
      <4> QED BY <1>9, <3>2, <4>1
    <3> QED BY <3>1, <3>2
  <2> HIDE DEF Next1
  <2> QED BY <2>1, <2>2
<1>11. PICK h : h = CHOOSE x : P(x)
  OBVIOUS
<1>12. P(h)
  <2> HIDE DEF P
  <2> QED BY <1>10, <1>11
<1>13. Agreeing(h, a, n)
  <2>1. h[0] = a[0]
    BY <1>8, <1>12
  <2>2. ASSUME NEW k \in 1 .. n, h[k - 1] = a[k - 1] PROVE h[k] = a[k]
    <3>1. k \in 0 .. n /\ k # 0
      OBVIOUS
    <3>2. h[k] = Next1(h, k)
      <4> HIDE DEF Next1
      <4> QED BY <1>12, <3>1
    <3>3. Next1(h, k) = Next1(a, k)
      BY <2>2
    <3> HIDE DEF Next1
    <3> QED BY <1>9, <3>2, <3>3
  <2> QED BY <2>1, <2>2 DEF Agreeing
<1>14. h[n] = a[n]
  <2>1. n \in 0 .. n
    OBVIOUS
  <2> HIDE DEF P
  <2> QED BY <1>13, <2>1, StepsAgree
<1>15. n \in 0 .. n
  OBVIOUS
<1> HIDE DEF P
<1> QED BY <1>4, <1>6, <1>7, <1>11, <1>14, <1>15

StrAnswer(t, text) == IF IsPrefix(t, text) THEN Found("none", Len(t)) ELSE Found("differs", 0)

LEMMA PrefixIs ==
  ASSUME NEW S, NEW x \in Seq(S), NEW y \in Seq(S)
  PROVE  IsPrefix(x, y) <=> Len(x) <= Len(y) /\ \A i \in 1 .. Len(x) : x[i] = y[i]
<1>1. PICK l \in Nat : l = Len(x)
  OBVIOUS
<1>2. PICK m \in Nat : m = Len(y)
  OBVIOUS
<1>3. ASSUME l <= m PROVE SubSeq(x, 1, l) = SubSeq(y, 1, l) <=> \A i \in 1 .. l : x[i] = y[i]
  <2>1. PICK p : p = SubSeq(x, 1, l)
    OBVIOUS
  <2>2. PICK q : q = SubSeq(y, 1, l)
    OBVIOUS
  <2>3. p \in Seq(S) /\ Len(p) = l /\ \A i \in 1 .. l : p[i] = x[i]
    BY <1>1, <2>1
  <2>4. q \in Seq(S) /\ Len(q) = l /\ \A i \in 1 .. l : q[i] = y[i]
    BY <1>2, <1>3, <2>2
  <2>5. (\A i \in 1 .. l : x[i] = y[i]) => p = q
    <3>1. ASSUME \A i \in 1 .. l : x[i] = y[i] PROVE p = q
      <4>1. Len(p) = Len(q) /\ \A i \in 1 .. Len(p) : p[i] = q[i]
        BY <2>3, <2>4, <3>1
      <4> QED BY ONLY <2>3, <2>4, <4>1, SameSeq
    <3> QED BY <3>1
  <2> QED BY <2>1, <2>2, <2>3, <2>4, <2>5
<1> QED BY <1>1, <1>2, <1>3 DEF IsPrefix

LEMMA PrefixJoined ==
  ASSUME NEW S, NEW x \in Seq(S), NEW y \in Seq(S), NEW t \in Seq(S)
  PROVE  /\ IsPrefix(x \o y, t) => IsPrefix(x, t)
         /\ IsPrefix(x, t) => (IsPrefix(x \o y, t) <=> IsPrefix(y, SubSeq(t, Len(x) + 1, Len(t))))
<1>1. PICK l \in Nat : l = Len(x)
  OBVIOUS
<1>2. PICK m \in Nat : m = Len(y)
  OBVIOUS
<1>3. PICK n \in Nat : n = Len(t)
  OBVIOUS
<1>4. PICK z : z = x \o y
  OBVIOUS
<1>5. z \in Seq(S) /\ Len(z) = l + m /\ \A i \in 1 .. (l + m) : z[i] = IF i <= l THEN x[i] ELSE y[i - l]
  BY <1>1, <1>2, <1>4, Concat
<1>6. IsPrefix(z, t) <=> l + m <= n /\ \A i \in 1 .. (l + m) : z[i] = t[i]
  <2>1. IsPrefix(z, t) <=> Len(z) <= Len(t) /\ \A i \in 1 .. Len(z) : z[i] = t[i]
    BY <1>5, PrefixIs
  <2> QED BY <1>3, <1>5, <2>1
<1>7. IsPrefix(x, t) <=> l <= n /\ \A i \in 1 .. l : x[i] = t[i]
  BY <1>1, <1>3, PrefixIs
<1>8. ASSUME IsPrefix(z, t) PROVE IsPrefix(x, t)
  <2>1. ASSUME NEW i \in 1 .. l PROVE x[i] = t[i]
    <3>1. i \in 1 .. (l + m) /\ i <= l
      OBVIOUS
    <3> QED BY <1>5, <1>6, <1>8, <3>1
  <2> QED BY <1>6, <1>7, <1>8, <2>1
<1>9. ASSUME IsPrefix(x, t) PROVE IsPrefix(z, t) <=> IsPrefix(y, SubSeq(t, l + 1, n))
  <2>1. PICK r : r = SubSeq(t, l + 1, n)
    OBVIOUS
  <2>2. l <= n
    BY <1>7, <1>9
  <2>3. r \in Seq(S) /\ Len(r) = n - l /\ \A i \in 1 .. (n - l) : r[i] = t[l + i]
    <3>1. n <= Len(t) /\ n \in Int
      BY <1>3
    <3>2. /\ SubSeq(t, l + 1, n) \in Seq(S)
          /\ Len(SubSeq(t, l + 1, n)) = IF l <= n THEN n - l ELSE 0
          /\ \A i \in 1 .. (n - l) : SubSeq(t, l + 1, n)[i] = t[l + i]
      BY <3>1, PartIs
    <3> QED BY <2>1, <2>2, <3>2
  <2>4. IsPrefix(y, r) <=> m <= n - l /\ \A i \in 1 .. m : y[i] = r[i]
    <3>1. r \in Seq(S) /\ Len(r) = n - l /\ Len(y) = m
      BY <1>2, <2>3
    <3>2. IsPrefix(y, r) <=> Len(y) <= Len(r) /\ \A i \in 1 .. Len(y) : y[i] = r[i]
      <4>1. y \in Seq(S) /\ r \in Seq(S)
        BY <3>1
      <4> QED BY ONLY <4>1, PrefixIs
    <3> QED BY ONLY <3>1, <3>2
  <2>5. ASSUME IsPrefix(z, t) PROVE IsPrefix(y, r)
    <3>1. ASSUME NEW i \in 1 .. m PROVE y[i] = r[i]
      <4>1. l + i \in 1 .. (l + m) /\ ~(l + i <= l) /\ (l + i) - l = i /\ i \in 1 .. (n - l)
        BY <1>6, <2>5
      <4> QED BY <1>5, <1>6, <2>3, <2>5, <4>1
    <3> QED BY <1>6, <2>4, <2>5, <3>1
  <2>6. ASSUME IsPrefix(y, r) PROVE IsPrefix(z, t)
    <3>0. m <= n - l
      BY <2>4, <2>6
    <3>1. ASSUME NEW i \in 1 .. (l + m) PROVE z[i] = t[i]
      <4>1. CASE i <= l
        <5>1. i \in 1 .. l
          BY <4>1
        <5> QED BY <1>5, <1>7, <1>9, <4>1, <5>1
      <4>2. CASE ~(i <= l)
        <5>1. i - l \in 1 .. m /\ i - l \in 1 .. (n - l) /\ l + (i - l) = i
          BY <3>0, <4>2
        <5> QED BY <1>5, <2>3, <2>4, <2>6, <4>2, <5>1
      <4> QED BY <4>1, <4>2
    <3> QED BY <1>6, <3>0, <3>1
  <2> QED BY <2>1, <2>5, <2>6
<1> QED BY <1>1, <1>3, <1>4, <1>8, <1>9

LEMMA StrAnswers ==
  ASSUME NEW v, Chunks(v) \in Seq(ChunkSet), Readable(v), NEW text \in Seq(Bytes)
  PROVE  EqStr(v, text) = IF Shown(v) = text THEN "equal" ELSE "differs"
<1>1. PICK cs \in Seq(ChunkSet) : cs = Chunks(v)
  OBVIOUS
<1>2. PICK n \in Nat : n = Len(cs) /\ DOMAIN cs = 1 .. n
  OBVIOUS
<1>3. PICK g \in [0 .. n -> Seq(Bytes)] : Grows(g, cs) /\ CutsOf(cs) = g[n]
  BY <1>2, ShownGrows
<1>4. Shown(v) = g[n]
  BY <1>1, <1>3 DEF Shown, CutsOf
<1>5. \A k \in 1 .. n : CutsWell(cs[k]) /\ Cut(cs[k]) \in Seq(Bytes)
  BY <1>1, <1>2, ReadableIs
<1> DEFINE F(r, k) == IF IsPrefix(Cut(k), SubSeq(text, r.value + 1, Len(text)))
                      THEN [r EXCEPT !.value = @ + Len(Cut(k))]
                      ELSE Found("differs", 0)
           Next1(h, k) == IF h[k - 1].answer # "none" THEN h[k - 1]
                          ELSE IF ~CutsWell(cs[k]) THEN Found("panic", 0)
                          ELSE F(h[k - 1], cs[k])
           P(h) == h = [k \in 0 .. n |-> IF k = 0 THEN Found("none", 0) ELSE Next1(h, k)]
<1>6. EqStr(v, text) = LET rest == (CHOOSE h : P(h))[n]
                       IN  IF rest.answer = "panic" THEN "panic"
                           ELSE IF rest.answer = "none" /\ rest.value = Len(text) THEN "equal" ELSE "differs"
  BY <1>1, <1>2 DEF EqStr, TryFoldChunks
<1>7. PICK a : a = [k \in 0 .. n |-> StrAnswer(g[k], text)]
  OBVIOUS
<1>8. a[0] = Found("none", 0)
  <2>1. g[0] = <<>> /\ 0 \in 0 .. n
    BY <1>3 DEF Grows
  <2>2. IsPrefix(<<>>, text) /\ Len(<<>>) = 0
    <3>1. << >> \in Seq(Bytes) /\ Len(<<>>) = 0 /\ 1 .. 0 = {}
      OBVIOUS
    <3>2. text \in Seq(Bytes) /\ Len(text) \in Nat
      OBVIOUS
    <3>3. IsPrefix(<<>>, text) <=> Len(<<>>) <= Len(text) /\ \A i \in 1 .. Len(<<>>) : <<>>[i] = text[i]
      BY ONLY <3>1, <3>2, PrefixIs
    <3> QED BY <3>1, <3>2, <3>3
  <2> QED BY <1>7, <2>1, <2>2 DEF StrAnswer
<1>9. ASSUME NEW k \in 1 .. n PROVE a[k] = Next1(a, k)
  <2>1. k - 1 \in 0 .. n /\ k \in 0 .. n
    OBVIOUS
  <2>2. PICK x \in Seq(Bytes) : x = g[k - 1]
    BY <2>1
  <2>3. PICK y \in Seq(Bytes) : y = Cut(cs[k])
    BY <1>5
  <2>4. g[k] = x \o y
    BY <1>2, <1>3, <2>2, <2>3 DEF Grows
  <2>5. a[k - 1] = StrAnswer(x, text) /\ a[k] = StrAnswer(x \o y, text)
    BY <1>7, <2>1, <2>2, <2>4
  <2>6. Len(x \o y) = Len(x) + Len(y)
    BY Concat
  <2>7. CASE ~IsPrefix(x, text)
    <3>1. ~IsPrefix(x \o y, text)
      BY <2>7, PrefixJoined
    <3> QED BY <2>5, <2>7, <3>1, FoundIs DEF StrAnswer
  <2>8. CASE IsPrefix(x, text)
    <3>1. IsPrefix(x \o y, text) <=> IsPrefix(y, SubSeq(text, Len(x) + 1, Len(text)))
      BY <2>8, PrefixJoined
    <3>2. a[k - 1] = Found("none", Len(x))
      BY <2>5, <2>8 DEF StrAnswer
    <3>3. a[k] = IF IsPrefix(x \o y, text) THEN Found("none", Len(x) + Len(y)) ELSE Found("differs", 0)
      BY <2>5, <2>6 DEF StrAnswer
    <3>4. F(a[k - 1], cs[k]) = IF IsPrefix(x \o y, text) THEN Found("none", Len(x) + Len(y)) ELSE Found("differs", 0)
      <4>1. F(a[k - 1], cs[k]) = IF IsPrefix(y, SubSeq(text, Len(x) + 1, Len(text)))
                                THEN [Found("none", Len(x)) EXCEPT !.value = @ + Len(y)]
                                ELSE Found("differs", 0)
        BY <2>3, <3>2, FoundIs
      <4>2. [Found("none", Len(x)) EXCEPT !.value = @ + Len(y)] = Found("none", Len(x) + Len(y))
        BY DEF Found
      <4> QED BY <3>1, <4>1, <4>2
    <3>5. Next1(a, k) = F(a[k - 1], cs[k])
      <4> HIDE DEF F
      <4> QED BY <1>5, <3>2, FoundIs
    <3> QED BY <3>3, <3>4, <3>5
  <2> QED BY <2>7, <2>8
<1>10. P(a)
  <2>1. a = [k \in 0 .. n |-> a[k]]
    BY <1>7
  <2>2. ASSUME NEW k \in 0 .. n PROVE a[k] = IF k = 0 THEN Found("none", 0) ELSE Next1(a, k)
    <3> HIDE DEF Next1
    <3>1. CASE k = 0
      BY <1>8, <3>1
    <3>2. CASE k # 0
      <4>1. k \in 1 .. n
        BY <3>2
      <4> QED BY <1>9, <3>2, <4>1
    <3> QED BY <3>1, <3>2
  <2> HIDE DEF Next1
  <2> QED BY <2>1, <2>2
<1>11. PICK h : h = CHOOSE x : P(x)
  OBVIOUS
<1>12. P(h)
  <2> HIDE DEF P
  <2> QED BY <1>10, <1>11
<1>13. Agreeing(h, a, n)
  <2>1. h[0] = a[0]
    BY <1>8, <1>12
  <2>2. ASSUME NEW k \in 1 .. n, h[k - 1] = a[k - 1] PROVE h[k] = a[k]
    <3>1. k \in 0 .. n /\ k # 0
      OBVIOUS
    <3>2. h[k] = Next1(h, k)
      <4> HIDE DEF Next1
      <4> QED BY <1>12, <3>1
    <3>3. Next1(h, k) = Next1(a, k)
      BY <2>2
    <3> HIDE DEF Next1
    <3> QED BY <1>9, <3>2, <3>3
  <2> QED BY <2>1, <2>2 DEF Agreeing
<1>14. h[n] = a[n]
  <2>1. n \in 0 .. n
    OBVIOUS
  <2> HIDE DEF P
  <2> QED BY <1>13, <2>1, StepsAgree
<1>15. n \in 0 .. n
  OBVIOUS
<1> HIDE DEF P
<1>16. PICK x \in Seq(Bytes) : x = Shown(v)
  BY <1>4, <1>15
<1>17. h[n] = StrAnswer(x, text)
  BY <1>4, <1>7, <1>14, <1>15, <1>16
<1>18. EqStr(v, text) = IF h[n].answer = "panic" THEN "panic"
                        ELSE IF h[n].answer = "none" /\ h[n].value = Len(text) THEN "equal" ELSE "differs"
  BY <1>6, <1>11
<1>19. CASE IsPrefix(x, text)
  <2>1. h[n].answer = "none" /\ h[n].value = Len(x)
    BY <1>17, <1>19, FoundIs DEF StrAnswer
  <2>2. Len(x) = Len(text) <=> x = text
    <3>1. ASSUME Len(x) = Len(text) PROVE x = text
      <4>1. \A i \in 1 .. Len(x) : x[i] = text[i]
        BY <1>19, PrefixIs
      <4> QED BY <3>1, <4>1, SameSeq
    <3> QED BY <3>1
  <2> QED BY <1>16, <1>18, <2>1, <2>2
<1>20. CASE ~IsPrefix(x, text)
  <2>1. h[n].answer = "differs"
    BY <1>17, <1>20, FoundIs DEF StrAnswer
  <2>2. x # text
    BY <1>20, PrefixIs
  <2> QED BY <1>16, <1>18, <2>1, <2>2
<1> QED BY <1>19, <1>20

(***************************************************************************)
(* CharsFound, for any texts and ranges: find_char, contains_char and      *)
(* char_at answer as for the text in one piece (try_fold_chunks).          *)
(***************************************************************************)
THEOREM CharsFoundAlways == Spec => []CharsFound
<1>1. ViewsInv => CharsFound
  <2> SUFFICES ASSUME ViewsInv, NEW v \in Made, zip = NoZip, Readable(v)
               PROVE  /\ \A c \in Bytes \ Tails :
                           LET at == FirstAt(Shown(v), c)
                           IN  /\ FindChar(v, c).answer = IF at = {} THEN "none" ELSE "some"
                               /\ at # {} => FindChar(v, c).value \in at
                               /\ ContainsChar(v, c).answer = FindChar(v, c).answer
                      /\ \A o \in 0 .. Length(v) :
                           CharAt(v, o) = IF o >= Len(Shown(v)) THEN Found("none", Len(Shown(v)))
                                          ELSE IF Shown(v)[o + 1] \in Tails THEN Found("panic", 0)
                                          ELSE Found("some", Shown(v)[o + 1])
    BY DEF CharsFound
  <2>1. Chunks(v) \in Seq(ChunkSet) /\ Shown(v) \in Seq(Bytes)
    BY ShownIs
  <2>2. ASSUME NEW c
        PROVE  LET at == FirstAt(Shown(v), c)
               IN  /\ FindChar(v, c).answer = IF at = {} THEN "none" ELSE "some"
                   /\ at # {} => FindChar(v, c).value \in at
                   /\ ContainsChar(v, c).answer = FindChar(v, c).answer
    <3>1. FindChar(v, c) = FindAnswer(Shown(v), c) /\ ContainsChar(v, c) = ContainsAnswer(Shown(v), c)
      BY <2>1, FindAnswers, ContainsAnswers
    <3>2. FirstAt(Shown(v), c) # {} => Max(FirstAt(Shown(v), c)) \in FirstAt(Shown(v), c)
      BY <2>1, FirstAtIs
    <3> QED BY <3>1, <3>2, FoundIs DEF FindAnswer, ContainsAnswer
  <2>3. ASSUME NEW o \in 0 .. Length(v) PROVE CharAt(v, o) = CharAnswer(Shown(v), o)
    <3>1. o \in Nat
      BY ViewIs DEF ViewsInv, Length
    <3> QED BY <2>1, <3>1, CharAnswers
  <2> QED BY <2>2, <2>3 DEF CharAnswer
<1>2. ViewsInv /\ [Next]_vars => ViewsInv'
  BY ViewsStep
<1> QED BY <1>1, <1>2, ViewsInit, PTL DEF Spec

(***************************************************************************)
(* ComparesStrings, for any texts: taking the chunks off the string one by *)
(* one finds out whether the two are equal (PartialEq<str>).               *)
(***************************************************************************)
THEOREM ComparesStringsAlways == Spec => []ComparesStrings
<1>1. ViewsInv => ComparesStrings
  <2> SUFFICES ASSUME ViewsInv, NEW v \in Made, zip = NoZip, Readable(v), NEW n \in Nodes
               PROVE  EqStr(v, Text(n)) = IF Shown(v) = Text(n) THEN "equal" ELSE "differs"
    BY DEF ComparesStrings
  <2>1. Chunks(v) \in Seq(ChunkSet)
    BY ShownIs
  <2>2. PICK text \in Seq(Bytes) : text = Text(n)
    BY TextIs DEF ViewsInv, TypeOK
  <2> QED BY <2>1, <2>2, StrAnswers
<1>2. ViewsInv /\ [Next]_vars => ViewsInv'
  BY ViewsStep
<1> QED BY <1>1, <1>2, ViewsInit, PTL DEF Spec

-----------------------------------------------------------------------------
(***************************************************************************)
(* Two texts and the chunks of each that are still to be compared: they    *)
(* are the same up to those.                                               *)
(***************************************************************************)
Continues(a, b, xs, ys) == \E d \in Seq(Bytes) : a = d \o CutsOf(xs) /\ b = d \o CutsOf(ys)

AllCutWell(cs) == \A i \in DOMAIN cs : CutsWell(cs[i])

LEMMA EmptyCut ==
  ASSUME NEW c \in ChunkSet
  PROVE  IsEmpty(c) <=> Cut(c) = <<>>
<1>1. PICK x \in Seq(Bytes) : x = Cut(c)
  BY CutIs
<1>2. c.lo \in Nat /\ c.hi \in Nat /\ Len(x) = c.hi - c.lo
  BY <1>1, CutIs
<1>3. Len(x) = 0 <=> x = <<>>
  BY LengthZero
<1>4. IsEmpty(c) <=> Len(x) = 0
  BY <1>2 DEF IsEmpty
<1> QED BY <1>1, <1>3, <1>4

LEMMA NotAllEmpty ==
  ASSUME NEW cs \in Seq(ChunkSet), ~AllEmpty(cs)
  PROVE  CutsOf(cs) # <<>>
<1>1. PICK n \in Nat : n = Len(cs) /\ DOMAIN cs = 1 .. n
  OBVIOUS
<1>2. PICK g \in [0 .. n -> Seq(Bytes)] : Grows(g, cs) /\ CutsOf(cs) = g[n]
  BY <1>1, ShownGrows
<1>3. PICK B : B = {k \in 0 .. n : g[k] = <<>> /\ \E i \in 1 .. k : ~IsEmpty(cs[i])}
  OBVIOUS
<1>4. B = {}
  <2> SUFFICES ASSUME B # {} PROVE FALSE
    OBVIOUS
  <2>1. PICK k \in B : \A j \in B : k <= j
    <3>1. B \subseteq Nat
      BY <1>3
    <3> QED BY <3>1, LeastNumber
  <2>2. k \in 0 .. n /\ g[k] = <<>>
    BY <1>3
  <2>3. PICK i \in 1 .. k : ~IsEmpty(cs[i])
    BY <1>3
  <2>4. k \in 1 .. n /\ k - 1 \in 0 .. n /\ ~(k <= k - 1)
    BY <2>2, <2>3
  <2>5. PICK x \in Seq(Bytes) : x = g[k - 1]
    BY <2>4
  <2>6. cs[k] \in ChunkSet
    BY <1>1, <2>4
  <2>7. PICK y \in Seq(Bytes) : y = Cut(cs[k])
    BY <2>6, CutIs
  <2>8. x \o y = <<>>
    BY <1>1, <1>2, <2>2, <2>4, <2>5, <2>7 DEF Grows
  <2>9. Len(x) = 0 /\ Len(y) = 0
    <3>1. Len(x \o y) = Len(x) + Len(y) /\ Len(x) \in Nat /\ Len(y) \in Nat
      BY Concat
    <3>2. Len(<<>>) = 0
      OBVIOUS
    <3> QED BY <2>8, <3>1, <3>2
  <2>10. x = <<>> /\ y = <<>>
    BY <2>9, LengthZero
  <2>11. IsEmpty(cs[k])
    BY <2>6, <2>7, <2>10, EmptyCut
  <2>12. i \in 1 .. (k - 1)
    BY <2>2, <2>3, <2>11
  <2>13. k - 1 \in B
    BY <1>3, <2>3, <2>4, <2>5, <2>10, <2>12
  <2> QED BY <2>1, <2>4, <2>13
<1>5. PICK i \in 1 .. n : ~IsEmpty(cs[i])
  BY <1>1 DEF AllEmpty
<1>6. n \in 0 .. n
  OBVIOUS
<1> QED BY <1>2, <1>3, <1>4, <1>5, <1>6

(* An empty chunk in front is no loss. *)
LEMMA HeadEmpty ==
  ASSUME NEW cs \in Seq(ChunkSet), cs # <<>>, IsEmpty(Head(cs))
  PROVE  CutsOf(cs) = CutsOf(Tail(cs))
<1>1. CutsOf(cs) = Cut(Head(cs)) \o CutsOf(Tail(cs)) /\ Head(cs) \in ChunkSet /\ Tail(cs) \in Seq(ChunkSet)
  BY CutsCons
<1>2. Cut(Head(cs)) = <<>>
  BY <1>1, EmptyCut
<1>3. PICK y \in Seq(Bytes) : y = CutsOf(Tail(cs))
  BY <1>1, CutsAre
<1>4. <<>> \o y = y
  OBVIOUS
<1> QED BY <1>1, <1>2, <1>3, <1>4

(* A chunk that is not empty among the further ones. *)
LEMMA TailNotEmpty ==
  ASSUME NEW cs \in Seq(ChunkSet), cs # <<>>, ~AllEmpty(Tail(cs))
  PROVE  CutsOf(cs) # <<>>
<1>1. CutsOf(cs) = Cut(Head(cs)) \o CutsOf(Tail(cs)) /\ Head(cs) \in ChunkSet /\ Tail(cs) \in Seq(ChunkSet)
  BY CutsCons
<1>2. CutsOf(Tail(cs)) # <<>>
  BY <1>1, NotAllEmpty
<1>3. PICK x \in Seq(Bytes) : x = Cut(Head(cs))
  BY <1>1, CutIs
<1>4. PICK y \in Seq(Bytes) : y = CutsOf(Tail(cs))
  BY <1>1, CutsAre
<1>5. Len(y) # 0
  BY <1>2, <1>4, LengthZero
<1>6. Len(x \o y) # 0
  <2>1. Len(x \o y) = Len(x) + Len(y) /\ Len(x) \in Nat /\ Len(y) \in Nat
    BY Concat
  <2> QED BY <1>5, <2>1
<1>7. Len(<<>>) = 0
  OBVIOUS
<1> QED BY <1>1, <1>3, <1>4, <1>6, <1>7

(* One side has ended. *)
LEMMA OneSideEnds ==
  ASSUME NEW a, NEW b, NEW xs \in Seq(ChunkSet), NEW ys \in Seq(ChunkSet), Continues(a, b, xs, ys),
         CutsOf(xs) = <<>> \/ CutsOf(ys) = <<>>
  PROVE  /\ Len(a) = Len(b) => a = b
         /\ CutsOf(xs) # <<>> \/ CutsOf(ys) # <<>> => a # b
<1>1. PICK d \in Seq(Bytes) : a = d \o CutsOf(xs) /\ b = d \o CutsOf(ys)
  BY DEF Continues
<1>2. PICK x \in Seq(Bytes) : x = CutsOf(xs)
  BY CutsAre
<1>3. PICK y \in Seq(Bytes) : y = CutsOf(ys)
  BY CutsAre
<1>4. Len(d \o x) = Len(d) + Len(x) /\ Len(d \o y) = Len(d) + Len(y) /\ Len(x) \in Nat /\ Len(y) \in Nat /\ Len(d) \in Nat
  BY Concat
<1>5. (x = <<>> <=> Len(x) = 0) /\ (y = <<>> <=> Len(y) = 0)
  BY LengthZero
<1>6. a = d \o x /\ b = d \o y /\ (x = <<>> \/ y = <<>>)
  BY <1>1, <1>2, <1>3
<1>7. Len(a) = Len(b) <=> Len(x) = Len(y)
  BY <1>4, <1>6
<1>8. Len(x) = Len(y) <=> x = <<>> /\ y = <<>>
  BY <1>4, <1>5, <1>6
<1> QED BY <1>2, <1>3, <1>6, <1>7, <1>8

LEMMA AdvancedIs ==
  ASSUME NEW cs \in Seq(ChunkSet), cs # <<>>, NEW by \in Nat, by <= Len(Cut(Head(cs)))
  PROVE  /\ Advanced(cs, by) \in Seq(ChunkSet) /\ Advanced(cs, by) # <<>>
         /\ CutsOf(cs) = SubSeq(Cut(Head(cs)), 1, by) \o CutsOf(Advanced(cs, by))
         /\ Head(Advanced(cs, by)) = [Head(cs) EXCEPT !.lo = @ + by]
         /\ Tail(Advanced(cs, by)) = Tail(cs)
<1>1. PICK n \in Nat : n = Len(cs) /\ DOMAIN cs = 1 .. n
  OBVIOUS
<1>2. n # 0 /\ 1 \in 1 .. n
  BY <1>1, LengthZero
<1>3. PICK c \in ChunkSet : c = Head(cs) /\ c = cs[1]
  BY <1>1, <1>2
<1>4. /\ c.text \in Seq(Bytes) /\ c.lo \in Nat /\ c.hi \in Nat /\ c.lo <= c.hi /\ c.hi <= Len(c.text)
      /\ Cut(c) \in Seq(Bytes) /\ Len(Cut(c)) = c.hi - c.lo
  BY CutIs
<1>5. PICK e : e = [c EXCEPT !.lo = @ + by]
  OBVIOUS
<1>6. e \in ChunkSet /\ e.text = c.text /\ e.lo = c.lo + by /\ e.hi = c.hi
  <2>1. c \in [text : Strings, lo : Nat, hi : Nat]
    BY DEF ChunkSet
  <2>2. e \in [text : Strings, lo : Nat, hi : Nat] /\ e.text = c.text /\ e.lo = c.lo + by /\ e.hi = c.hi
    <3>1. PICK t \in Strings : t = c.text
      BY <2>1
    <3>2. PICK l \in Nat : l = c.lo
      BY <2>1
    <3>3. PICK h \in Nat : h = c.hi
      BY <2>1
    <3>4. c = [text |-> t, lo |-> l, hi |-> h]
      BY <2>1, <3>1, <3>2, <3>3
    <3>5. e = [text |-> t, lo |-> l + by, hi |-> h]
      BY <1>5, <3>4
    <3> QED BY <3>1, <3>2, <3>3, <3>5
  <2> QED BY <1>3, <1>4, <2>2 DEF ChunkSet
<1>7. PICK ds : ds = Advanced(cs, by)
  OBVIOUS
<1>8. ds = [cs EXCEPT ![1] = e]
  BY <1>3, <1>5, <1>7 DEF Advanced, ReplaceAt
<1>9. ds \in Seq(ChunkSet) /\ Len(ds) = n /\ ds[1] = e /\ \A i \in 1 .. n : i # 1 => ds[i] = cs[i]
  <2>1. ds \in [1 .. n -> ChunkSet] /\ ds[1] = e /\ \A i \in 1 .. n : i # 1 => ds[i] = cs[i]
    BY <1>1, <1>2, <1>6, <1>8
  <2> QED BY <2>1
<1>10. ds # <<>>
  BY <1>2, <1>9
<1>11. Head(ds) = e
  BY <1>9, <1>10
<1>12. Tail(ds) = Tail(cs)
  <2>1. PICK p : p = Tail(ds)
    OBVIOUS
  <2>2. PICK q : q = Tail(cs)
    OBVIOUS
  <2>3. p \in Seq(ChunkSet) /\ Len(p) = n - 1 /\ \A i \in 1 .. (n - 1) : p[i] = ds[i + 1]
    BY <1>2, <1>9, <1>10, <2>1
  <2>4. q \in Seq(ChunkSet) /\ Len(q) = n - 1 /\ \A i \in 1 .. (n - 1) : q[i] = cs[i + 1]
    BY <1>1, <1>2, <2>2
  <2>5. ASSUME NEW i \in 1 .. (n - 1) PROVE p[i] = q[i]
    <3>1. i + 1 \in 1 .. n /\ i + 1 # 1
      OBVIOUS
    <3> QED BY <1>9, <2>3, <2>4, <3>1
  <2>6. Len(p) = Len(q) /\ \A i \in 1 .. Len(p) : p[i] = q[i]
    BY <2>3, <2>4, <2>5
  <2>7. p = q
    BY ONLY <2>3, <2>4, <2>6, SameSeq
  <2> QED BY <2>1, <2>2, <2>7
<1>13. Cut(c) = SubSeq(Cut(c), 1, by) \o Cut(e)
  <2>1. PICK x \in Seq(Bytes) : x = Cut(c)
    BY <1>4
  <2>2. PICK l \in Nat : l = Len(x)
    OBVIOUS
  <2>3. by <= l /\ l = c.hi - c.lo
    BY <1>3, <1>4, <2>1, <2>2
  <2>4. PICK p : p = SubSeq(x, 1, by)
    OBVIOUS
  <2>5. p \in Seq(Bytes) /\ Len(p) = by /\ \A i \in 1 .. by : p[i] = x[i]
    <3>1. /\ SubSeq(x, 0 + 1, by) \in Seq(Bytes)
          /\ Len(SubSeq(x, 0 + 1, by)) = IF 0 <= by THEN by - 0 ELSE 0
          /\ \A i \in 1 .. (by - 0) : SubSeq(x, 0 + 1, by)[i] = x[0 + i]
      <4>1. by <= Len(x) /\ 0 \in Nat /\ by \in Int
        BY <2>2, <2>3
      <4> QED BY ONLY <2>1, <4>1, PartIs
    <3>2. 0 + 1 = 1 /\ by - 0 = by /\ 0 <= by /\ \A i \in 1 .. by : 0 + i = i
      OBVIOUS
    <3> QED BY <2>4, <3>1, <3>2
  <2>6. PICK y \in Seq(Bytes) : y = Cut(e)
    BY <1>6, CutIs
  <2>7. Len(y) = l - by /\ \A i \in 1 .. (l - by) : y[i] = x[by + i]
    <3>1. Len(y) = e.hi - e.lo /\ \A i \in 1 .. (e.hi - e.lo) : y[i] = e.text[e.lo + i]
      BY <1>6, <2>6, CutIs
    <3>2. \A i \in 1 .. (c.hi - c.lo) : x[i] = c.text[c.lo + i]
      BY <2>1, CutIs
    <3>3. PICK t : t = c.text
      OBVIOUS
    <3>4. PICK lo \in Nat : lo = c.lo
      BY <1>4
    <3>5. e.hi - e.lo = l - by
      BY <1>4, <1>6, <2>3
    <3>6. ASSUME NEW i \in 1 .. (l - by) PROVE y[i] = x[by + i]
      <4>1. y[i] = t[(lo + by) + i]
        BY <1>6, <3>1, <3>3, <3>4, <3>5
      <4>2. by + i \in 1 .. l
        BY <2>3
      <4>3. x[by + i] = t[lo + (by + i)]
        BY <2>3, <3>2, <3>3, <3>4, <4>2
      <4>4. (lo + by) + i = lo + (by + i)
        OBVIOUS
      <4> QED BY <4>1, <4>3, <4>4
    <3> QED BY <3>1, <3>5, <3>6
  <2>8. PICK z : z = p \o y
    OBVIOUS
  <2>9. /\ z \in Seq(Bytes) /\ Len(z) = Len(p) + Len(y)
        /\ \A i \in 1 .. (Len(p) + Len(y)) : z[i] = IF i <= Len(p) THEN p[i] ELSE y[i - Len(p)]
    BY <2>5, <2>8, Concat
  <2>10. Len(z) = l
    BY <2>3, <2>5, <2>7, <2>9
  <2>11. ASSUME NEW i \in 1 .. l PROVE x[i] = z[i]
    <3>0. i \in 1 .. (Len(p) + Len(y))
      BY <2>9, <2>10
    <3>1. z[i] = IF i <= by THEN p[i] ELSE y[i - by]
      BY <2>5, <2>9, <3>0
    <3>2. CASE i <= by
      <4>1. i \in 1 .. by
        BY <3>2
      <4> QED BY <2>5, <3>1, <3>2, <4>1
    <3>3. CASE ~(i <= by)
      <4>1. i - by \in 1 .. (l - by) /\ by + (i - by) = i
        BY <2>3, <3>3
      <4> QED BY <2>7, <3>1, <3>3, <4>1
    <3> QED BY <3>2, <3>3
  <2>12. x = z
    <3>1. Len(x) = Len(z) /\ \A i \in 1 .. Len(x) : x[i] = z[i]
      BY <2>2, <2>10, <2>11
    <3> QED BY ONLY x \in Seq(Bytes), <2>9, <3>1, SameSeq
  <2> QED BY <2>1, <2>4, <2>6, <2>8, <2>12
<1>14. CutsOf(cs) = Cut(c) \o CutsOf(Tail(cs)) /\ Tail(cs) \in Seq(ChunkSet)
  BY <1>3, CutsCons
<1>15. CutsOf(ds) = Cut(e) \o CutsOf(Tail(cs))
  BY <1>9, <1>10, <1>11, <1>12, CutsCons
<1>16. PICK x \in Seq(Bytes) : x = SubSeq(Cut(c), 1, by)
  <2>1. PICK y \in Seq(Bytes) : y = Cut(c)
    BY <1>4
  <2>2. by <= Len(y)
    BY <1>3, <2>1
  <2>3. SubSeq(y, 1, by) \in Seq(Bytes)
    BY <2>2
  <2> QED BY <2>1, <2>3
<1>17. PICK y \in Seq(Bytes) : y = Cut(e)
  BY <1>6, CutIs
<1>18. PICK z \in Seq(Bytes) : z = CutsOf(Tail(cs))
  BY <1>14, CutsAre
<1>19. (x \o y) \o z = x \o (y \o z)
  BY Associative
<1>20. CutsOf(cs) = SubSeq(Cut(c), 1, by) \o CutsOf(ds)
  BY <1>13, <1>14, <1>15, <1>16, <1>17, <1>18, <1>19
<1> QED BY <1>3, <1>5, <1>7, <1>9, <1>10, <1>11, <1>12, <1>20

(* What both chunks have in common is taken off both. *)
LEMMA BothAdvance ==
  ASSUME NEW a, NEW b, NEW xs \in Seq(ChunkSet), NEW ys \in Seq(ChunkSet), Continues(a, b, xs, ys),
         xs # <<>>, ys # <<>>, NEW by \in Nat, by <= Len(Cut(Head(xs))), by <= Len(Cut(Head(ys))),
         SubSeq(Cut(Head(xs)), 1, by) = SubSeq(Cut(Head(ys)), 1, by)
  PROVE  Continues(a, b, Advanced(xs, by), Advanced(ys, by))
<1>1. PICK d \in Seq(Bytes) : a = d \o CutsOf(xs) /\ b = d \o CutsOf(ys)
  BY DEF Continues
<1>2. PICK y \in Seq(Bytes) : y = Cut(Head(xs))
  BY CutsCons, CutIs
<1>3. PICK x \in Seq(Bytes) : x = SubSeq(Cut(Head(xs)), 1, by)
  <2>1. by <= Len(y)
    BY <1>2
  <2>2. SubSeq(y, 1, by) \in Seq(Bytes)
    BY <2>1
  <2> QED BY <1>2, <2>2
<1>4. Advanced(xs, by) \in Seq(ChunkSet) /\ CutsOf(xs) = x \o CutsOf(Advanced(xs, by))
  BY <1>3, AdvancedIs
<1>5. Advanced(ys, by) \in Seq(ChunkSet) /\ CutsOf(ys) = x \o CutsOf(Advanced(ys, by))
  BY <1>3, AdvancedIs
<1>6. PICK p \in Seq(Bytes) : p = CutsOf(Advanced(xs, by))
  BY <1>4, CutsAre
<1>7. PICK q \in Seq(Bytes) : q = CutsOf(Advanced(ys, by))
  BY <1>5, CutsAre
<1>8. (d \o x) \o p = d \o (x \o p) /\ (d \o x) \o q = d \o (x \o q)
  <2>1. Regroups(Bytes, d, x, p) /\ Regroups(Bytes, d, x, q)
    BY Regrouped
  <2> QED BY <1>6, <1>7, <2>1 DEF Regroups
<1>9. PICK e : e = d \o x
  OBVIOUS
<1>10. e \in Seq(Bytes)
  BY <1>9, Concat
<1>11. a = e \o p /\ b = e \o q
  BY <1>1, <1>4, <1>5, <1>6, <1>7, <1>8, <1>9
<1> QED BY <1>6, <1>7, <1>10, <1>11 DEF Continues

(* Chunks of which neither is the beginning of the other. *)
LEMMA ChunksDiffer ==
  ASSUME NEW a, NEW b, NEW xs \in Seq(ChunkSet), NEW ys \in Seq(ChunkSet), Continues(a, b, xs, ys),
         xs # <<>>, ys # <<>>,
         ~IsPrefix(Cut(Head(xs)), Cut(Head(ys))), ~IsPrefix(Cut(Head(ys)), Cut(Head(xs)))
  PROVE  a # b
<1> SUFFICES ASSUME a = b PROVE FALSE
  OBVIOUS
<1>1. PICK d \in Seq(Bytes) : a = d \o CutsOf(xs) /\ b = d \o CutsOf(ys)
  BY DEF Continues
<1>2. PICK x \in Seq(Bytes) : x = Cut(Head(xs))
  BY CutsCons, CutIs
<1>3. PICK y \in Seq(Bytes) : y = Cut(Head(ys))
  BY CutsCons, CutIs
<1>4. PICK p \in Seq(Bytes) : p = CutsOf(Tail(xs))
  BY CutsCons, CutsAre
<1>5. PICK q \in Seq(Bytes) : q = CutsOf(Tail(ys))
  BY CutsCons, CutsAre
<1>6. PICK u : u = x \o p
  OBVIOUS
<1>7. PICK w : w = y \o q
  OBVIOUS
<1>8. /\ u \in Seq(Bytes) /\ Len(u) = Len(x) + Len(p) /\ Len(x) \in Nat /\ Len(p) \in Nat
      /\ \A i \in 1 .. (Len(x) + Len(p)) : u[i] = IF i <= Len(x) THEN x[i] ELSE p[i - Len(x)]
  BY <1>6, Concat
<1>9. /\ w \in Seq(Bytes) /\ Len(w) = Len(y) + Len(q) /\ Len(y) \in Nat /\ Len(q) \in Nat
      /\ \A i \in 1 .. (Len(y) + Len(q)) : w[i] = IF i <= Len(y) THEN y[i] ELSE q[i - Len(y)]
  BY <1>7, Concat
<1>10. d \o u = d \o w
  BY <1>1, <1>2, <1>3, <1>4, <1>5, <1>6, <1>7, CutsCons
<1>11. u = w
  <2>1. PICK f : f = d \o u
    OBVIOUS
  <2>2. /\ f \in Seq(Bytes) /\ Len(f) = Len(d) + Len(u) /\ Len(d) \in Nat /\ Len(u) \in Nat
        /\ \A i \in 1 .. (Len(d) + Len(u)) : f[i] = IF i <= Len(d) THEN d[i] ELSE u[i - Len(d)]
    BY <1>8, <2>1, Concat
  <2>3. /\ Len(f) = Len(d) + Len(w) /\ Len(w) \in Nat
        /\ \A i \in 1 .. (Len(d) + Len(w)) : f[i] = IF i <= Len(d) THEN d[i] ELSE w[i - Len(d)]
    <3>1. /\ Len(d \o w) = Len(d) + Len(w) /\ Len(w) \in Nat
          /\ \A i \in 1 .. (Len(d) + Len(w)) : (d \o w)[i] = IF i <= Len(d) THEN d[i] ELSE w[i - Len(d)]
      <4>1. d \in Seq(Bytes) /\ w \in Seq(Bytes)
        BY <1>9
      <4>2. Len(w) \in Nat
        BY ONLY <4>1
      <4> QED BY ONLY <4>1, <4>2, Concat
    <3>2. f = d \o w
      BY <1>10, <2>1
    <3> QED BY ONLY <3>1, <3>2
  <2>4. Len(u) = Len(w)
    BY <2>2, <2>3
  <2>5. ASSUME NEW i \in 1 .. Len(u) PROVE u[i] = w[i]
    <3>1. /\ Len(d) + i \in 1 .. (Len(d) + Len(u)) /\ ~(Len(d) + i <= Len(d)) /\ (Len(d) + i) - Len(d) = i
      BY <2>2
    <3> QED BY <2>2, <2>3, <2>4, <3>1
  <2> QED BY <1>8, <1>9, <2>4, <2>5, SameSeq
<1>12. CASE Len(x) <= Len(y)
  <2>1. ASSUME NEW i \in 1 .. Len(x) PROVE x[i] = y[i]
    <3>1. i \in 1 .. (Len(x) + Len(p)) /\ i \in 1 .. (Len(y) + Len(q)) /\ i <= Len(x) /\ i <= Len(y)
      BY <1>8, <1>9, <1>12
    <3>2. u[i] = x[i] /\ w[i] = y[i]
      BY <1>8, <1>9, <3>1
    <3> QED BY <1>11, <3>2
  <2>2. IsPrefix(x, y)
    BY <1>12, <2>1, PrefixIs
  <2> QED BY <1>2, <1>3, <2>2
<1>13. CASE ~(Len(x) <= Len(y))
  <2>0. Len(y) <= Len(x)
    BY <1>8, <1>9, <1>13
  <2>1. ASSUME NEW i \in 1 .. Len(y) PROVE y[i] = x[i]
    <3>1. i \in 1 .. (Len(x) + Len(p)) /\ i \in 1 .. (Len(y) + Len(q)) /\ i <= Len(x) /\ i <= Len(y)
      BY <1>8, <1>9, <2>0
    <3>2. u[i] = x[i] /\ w[i] = y[i]
      BY <1>8, <1>9, <3>1
    <3> QED BY <1>11, <3>2
  <2>2. IsPrefix(y, x)
    BY <2>0, <2>1, PrefixIs
  <2> QED BY <1>2, <1>3, <2>2
<1> QED BY <1>12, <1>13

(* Equal bytes from two boundaries, up to the end of one of the chunks, are  *)
(* whole characters of both.                                                 *)
LEMMA AdvanceCutsWell ==
  ASSUME NEW x \in ChunkSet, NEW y \in ChunkSet, CutsWell(x), CutsWell(y), NEW by \in Nat,
         by <= Len(Cut(x)), by <= Len(Cut(y)), by = Len(Cut(x)) \/ by = Len(Cut(y)),
         SubSeq(Cut(x), 1, by) = SubSeq(Cut(y), 1, by)
  PROVE  CutsWell([x EXCEPT !.lo = @ + by]) /\ CutsWell([y EXCEPT !.lo = @ + by])
<1>1. /\ x.text \in Strings /\ x.text \in Seq(Bytes) /\ x.lo \in Nat /\ x.hi \in Nat
      /\ x.lo <= x.hi /\ x.hi <= Len(x.text) /\ Len(Cut(x)) = x.hi - x.lo
      /\ Cut(x) = SubSeq(x.text, x.lo + 1, x.hi)
  BY CutIs DEF ChunkSet, Cut
<1>2. /\ y.text \in Strings /\ y.text \in Seq(Bytes) /\ y.lo \in Nat /\ y.hi \in Nat
      /\ y.lo <= y.hi /\ y.hi <= Len(y.text) /\ Len(Cut(y)) = y.hi - y.lo
      /\ Cut(y) = SubSeq(y.text, y.lo + 1, y.hi)
  BY CutIs DEF ChunkSet, Cut
<1>3. PICK t \in Seq(Bytes) : t = x.text
  BY <1>1
<1>4. PICK u \in Seq(Bytes) : u = y.text
  BY <1>2
<1>5. PICK i \in Nat : i = x.lo
  BY <1>1
<1>6. PICK k \in Nat : k = x.hi
  BY <1>1
<1>7. PICK j \in Nat : j = y.lo
  BY <1>2
<1>8. PICK l \in Nat : l = y.hi
  BY <1>2
<1>9. PICK m \in Nat : m = Len(t)
  OBVIOUS
<1>10. PICK n \in Nat : n = Len(u)
  OBVIOUS
<1>11. i <= k /\ k <= m /\ j <= l /\ l <= n /\ by <= k - i /\ by <= l - j /\ (by = k - i \/ by = l - j)
  BY <1>1, <1>2, <1>3, <1>4, <1>5, <1>6, <1>7, <1>8, <1>9, <1>10
<1>12. Boundary(t, i) /\ Boundary(t, k) /\ Boundary(u, j) /\ Boundary(u, l)
  BY <1>3, <1>4, <1>5, <1>6, <1>7, <1>8 DEF CutsWell
<1>13. SubSeq(t, i + 1, i + by) = SubSeq(u, j + 1, j + by)
  <2>1. SubSeq(SubSeq(t, i + 1, k), 0 + 1, by) = SubSeq(t, (i + 0) + 1, i + by)
    <3>1. i <= k /\ k <= Len(t) /\ 0 \in Nat /\ 0 <= by /\ by <= k - i
      BY <1>9, <1>11
    <3> QED BY ONLY <3>1, t \in Seq(Bytes), i \in Nat, k \in Nat, by \in Nat, PartOfPart
  <2>2. SubSeq(SubSeq(u, j + 1, l), 0 + 1, by) = SubSeq(u, (j + 0) + 1, j + by)
    <3>1. j <= l /\ l <= Len(u) /\ 0 \in Nat /\ 0 <= by /\ by <= l - j
      BY <1>10, <1>11
    <3> QED BY ONLY <3>1, u \in Seq(Bytes), j \in Nat, l \in Nat, by \in Nat, PartOfPart
  <2>3. Cut(x) = SubSeq(t, i + 1, k) /\ Cut(y) = SubSeq(u, j + 1, l)
    BY <1>1, <1>2, <1>3, <1>4, <1>5, <1>6, <1>7, <1>8
  <2>4. 0 + 1 = 1 /\ i + 0 = i /\ j + 0 = j
    OBVIOUS
  <2> QED BY <2>1, <2>2, <2>3, <2>4
<1>14. Boundary(t, i + by) <=> Boundary(u, j + by)
  <2>1. Min({m - i, n - j}) = IF m - i <= n - j THEN m - i ELSE n - j
    <3>1. PICK f \in Int : f = m - i
      OBVIOUS
    <3>2. PICK g \in Int : g = n - j
      OBVIOUS
    <3>3. Min({f, g}) = IF f <= g THEN f ELSE g
      BY MinTwo
    <3> QED BY <3>1, <3>2, <3>3
  <2>2. i \in 0 .. Len(t) /\ j \in 0 .. Len(u)
    BY <1>9, <1>10, <1>11
  <2>3. by \in 0 .. Min({Len(t) - i, Len(u) - j})
    BY <1>9, <1>10, <1>11, <2>1
  <2>4. t \in Strings /\ u \in Strings
    BY <1>1, <1>2, <1>3, <1>4
  <2> QED BY <1>12, <1>13, <2>2, <2>3, <2>4, CharactersAssumption
<1>15. Boundary(t, i + by) /\ Boundary(u, j + by)
  <2>1. CASE by = k - i
    <3>1. i + by = k
      BY <2>1
    <3> QED BY <1>12, <1>14, <3>1
  <2>2. CASE by = l - j
    <3>1. j + by = l
      BY <2>2
    <3> QED BY <1>12, <1>14, <3>1
  <2> QED BY <1>11, <2>1, <2>2
<1>16. PICK e : e = [x EXCEPT !.lo = @ + by]
  OBVIOUS
<1>17. PICK f : f = [y EXCEPT !.lo = @ + by]
  OBVIOUS
<1>18. x \in [text : Strings, lo : Nat, hi : Nat] /\ y \in [text : Strings, lo : Nat, hi : Nat]
  BY DEF ChunkSet
<1>19. e.text = t /\ e.lo = i + by /\ e.hi = k
  BY <1>3, <1>5, <1>6, <1>16, <1>18
<1>20. f.text = u /\ f.lo = j + by /\ f.hi = l
  BY <1>4, <1>7, <1>8, <1>17, <1>18
<1> QED BY <1>12, <1>15, <1>16, <1>17, <1>19, <1>20 DEF CutsWell

-----------------------------------------------------------------------------
(***************************************************************************)
(* The invariant of zip_texts: what was compared is the same on both       *)
(* sides, and the chunks to come of a readable view are cut well.          *)
(***************************************************************************)
ZipType ==
  zip \in [pc : {"idle", "start", "loop", "done", "panicked"}, left : Views \cup {NULL}, right : Views \cup {NULL},
           xs : Seq(ChunkSet), ys : Seq(ChunkSet), equal : BOOLEAN]

Going ==
  /\ zip.left \in Made /\ zip.right \in Made
  /\ SameLength(zip.left, zip.right)
  /\ Continues(Shown(zip.left), Shown(zip.right), zip.xs, zip.ys)
  /\ Readable(zip.left) /\ Readable(zip.right) => AllCutWell(zip.xs) /\ AllCutWell(zip.ys)
  /\ zip.pc = "loop" => zip.xs # <<>> /\ zip.ys # <<>>

ZipInv ==
  /\ ZipType
  /\ zip.pc \in {"start", "loop"} => Going
  /\ ComparesTexts

LEMMA NoZipIs ==
  ASSUME zip = NoZip PROVE ZipInv
<1>1. zip.pc = "idle"
  BY DEF NoZip
<1>2. ZipType
  <2>1. << >> \in Seq(ChunkSet)
    OBVIOUS
  <2> QED BY <2>1 DEF NoZip, ZipType
<1> QED BY <1>1, <1>2 DEF ZipInv, ComparesTexts

LEMMA NoZipStays ==
  ASSUME zip' = NoZip PROVE ZipInv'
<1>1. zip'.pc = "idle"
  BY DEF NoZip
<1>2. ZipType'
  <2>1. << >> \in Seq(ChunkSet)
    OBVIOUS
  <2> QED BY <2>1 DEF NoZip, ZipType
<1> QED BY <1>1, <1>2 DEF ZipInv, ComparesTexts

(* A turn leaves the trees and the views alone. *)
LEMMA SeenStays ==
  ASSUME UNCHANGED Seen
  PROVE  /\ Made' = Made /\ fresh' = fresh
         /\ \A v : Shown(v)' = Shown(v) /\ (Readable(v)' <=> Readable(v)) /\ Length(v)' = Length(v)
<1>1. inside' = inside /\ start' = start /\ view' = view /\ fresh' = fresh
  BY DEF Seen
<1>2. \A v : Chunks(v)' = Chunks(v)
  BY <1>1 DEF Chunks, Chunk, Part, TokenStart
<1>3. \A v : Shown(v)' = Shown(v)
  BY <1>2 DEF Shown
<1>4. \A v : (Readable(v)' <=> Readable(v))
  BY <1>2 DEF Readable
<1> QED BY <1>1, <1>3, <1>4 DEF Made, Length

(* The end of the loop. *)
LEMMA EndKeeps ==
  ASSUME ViewsInv, ZipInv, Going, UNCHANGED Seen, NEW equal \in BOOLEAN, EndZip(equal),
         ~equal => Shown(zip.left) # Shown(zip.right),
         equal /\ Len(Shown(zip.left)) = Len(Shown(zip.right)) => Shown(zip.left) = Shown(zip.right)
  PROVE  ZipInv'
<1>1. ZipType
  BY DEF ZipInv
<1>2. /\ zip'.pc = "done" /\ zip'.equal = equal /\ zip'.left = zip.left /\ zip'.right = zip.right /\ ZipType'
  <2>1. << >> \in Seq(ChunkSet)
    OBVIOUS
  <2> QED BY <1>1, <2>1 DEF EndZip, ZipType
<1>3. PICK v \in Made : v = zip.left
  BY DEF Going
<1>4. PICK w \in Made : w = zip.right
  BY DEF Going
<1>5. {v, w} \subseteq fresh => Len(Shown(v)) = Len(Shown(w))
  BY <1>3, <1>4, ShownIs DEF Going, SameLength
<1>6. ComparesTexts'
  <2>1. Shown(v)' = Shown(v) /\ Shown(w)' = Shown(w) /\ fresh' = fresh
    BY SeenStays
  <2>2. zip'.left = v /\ zip'.right = w
    BY <1>2, <1>3, <1>4
  <2> QED BY <1>2, <1>3, <1>4, <1>5, <2>1, <2>2 DEF ComparesTexts
<1> QED BY <1>2, <1>6 DEF ZipInv

LEMMA CompareKeeps ==
  ASSUME ViewsInv, ZipInv, NEW v \in Made, NEW w \in Made, Compare(v, w)
  PROVE  ZipInv'
<1>1. UNCHANGED Seen
  BY DEF Compare, Seen
<1>2. v \in Views /\ w \in Views
  BY DEF Made
<1>3. /\ Chunks(v) \in Seq(ChunkSet) /\ Shown(v) \in Seq(Bytes)
      /\ Chunks(w) \in Seq(ChunkSet) /\ Shown(w) \in Seq(Bytes)
  BY ShownIs
<1>4. PICK xs \in Seq(ChunkSet) : xs = Chunks(v)
  BY <1>3
<1>5. PICK ys \in Seq(ChunkSet) : ys = Chunks(w)
  BY <1>3
<1>6. CASE SameLength(v, w)
  <2>1. zip' = [pc |-> "start", left |-> v, right |-> w, xs |-> xs, ys |-> ys, equal |-> FALSE]
    BY <1>4, <1>5, <1>6 DEF Compare, NoZip
  <2>2. ZipType'
    BY <1>2, <2>1 DEF ZipType
  <2>3. Continues(Shown(v), Shown(w), xs, ys)
    <3>1. CutsOf(xs) = Shown(v) /\ CutsOf(ys) = Shown(w)
      BY <1>4, <1>5 DEF Shown, CutsOf
    <3>2. <<>> \o Shown(v) = Shown(v) /\ <<>> \o Shown(w) = Shown(w) /\ << >> \in Seq(Bytes)
      BY <1>3
    <3> QED BY <3>1, <3>2 DEF Continues
  <2>4. Readable(v) /\ Readable(w) => AllCutWell(xs) /\ AllCutWell(ys)
    BY <1>4, <1>5 DEF Readable, AllCutWell
  <2>5. Going'
    <3>1. zip'.left = v /\ zip'.right = w /\ zip'.xs = xs /\ zip'.ys = ys /\ zip'.pc = "start"
      BY <2>1
    <3>2. /\ v \in Made' /\ w \in Made' /\ Shown(v)' = Shown(v) /\ Shown(w)' = Shown(w)
          /\ (Readable(v)' <=> Readable(v)) /\ (Readable(w)' <=> Readable(w))
          /\ Length(v)' = Length(v) /\ Length(w)' = Length(w)
      BY <1>1, SeenStays
    <3>3. (SameLength(v, w))'
      BY <1>6, <3>2 DEF SameLength
    <3>4. (Continues(Shown(v), Shown(w), xs, ys))'
      BY <2>3, <3>2 DEF Continues
    <3>5. (Readable(v) /\ Readable(w) => AllCutWell(xs) /\ AllCutWell(ys))'
      BY <2>4, <3>2
    <3> QED BY <3>1, <3>2, <3>3, <3>4, <3>5 DEF Going
  <2>6. ComparesTexts'
    BY <2>1 DEF ComparesTexts
  <2> QED BY <2>2, <2>5, <2>6 DEF ZipInv
<1>7. CASE ~SameLength(v, w)
  <2>1. zip' = [pc |-> "done", left |-> v, right |-> w, xs |-> <<>>, ys |-> <<>>, equal |-> FALSE]
    BY <1>7 DEF Compare, NoZip
  <2>2. ZipType'
    <3>1. << >> \in Seq(ChunkSet)
      OBVIOUS
    <3> QED BY <1>2, <2>1, <3>1 DEF ZipType
  <2>3. Length(v)' # Length(w)'
    BY <1>1, <1>7, SeenStays DEF SameLength
  <2>4. ComparesTexts'
    BY <2>1, <2>3 DEF ComparesTexts
  <2> QED BY <2>1, <2>2, <2>4 DEF ZipInv
<1> QED BY <1>6, <1>7

(* A turn that goes on with other chunks. *)
LEMMA GoesOn ==
  ASSUME ViewsInv, ZipInv, Going, UNCHANGED Seen, NEW xs \in Seq(ChunkSet), NEW ys \in Seq(ChunkSet),
         zip' = [zip EXCEPT !.pc = "loop", !.xs = xs, !.ys = ys], xs # <<>>, ys # <<>>,
         Continues(Shown(zip.left), Shown(zip.right), xs, ys),
         AllCutWell(zip.xs) /\ AllCutWell(zip.ys) => AllCutWell(xs) /\ AllCutWell(ys)
  PROVE  ZipInv'
<1>1. ZipType
  BY DEF ZipInv
<1>2. /\ zip'.pc = "loop" /\ zip'.left = zip.left /\ zip'.right = zip.right
      /\ zip'.xs = xs /\ zip'.ys = ys /\ ZipType'
  BY <1>1 DEF ZipType
<1>3. PICK v \in Made : v = zip.left
  BY DEF Going
<1>4. PICK w \in Made : w = zip.right
  BY DEF Going
<1>5. /\ v \in Made' /\ w \in Made' /\ Shown(v)' = Shown(v) /\ Shown(w)' = Shown(w)
      /\ (Readable(v)' <=> Readable(v)) /\ (Readable(w)' <=> Readable(w))
      /\ Length(v)' = Length(v) /\ Length(w)' = Length(w)
  BY SeenStays
<1>6. Going'
  <2>1. zip'.left = v /\ zip'.right = w
    BY <1>2, <1>3, <1>4
  <2>2. (SameLength(v, w))'
    BY <1>3, <1>4, <1>5 DEF Going, SameLength
  <2>3. (Continues(Shown(v), Shown(w), xs, ys))'
    BY <1>3, <1>4, <1>5 DEF Continues
  <2>4. Readable(v)' /\ Readable(w)' => AllCutWell(xs) /\ AllCutWell(ys)
    BY <1>3, <1>4, <1>5 DEF Going
  <2> QED BY <1>2, <1>5, <2>1, <2>2, <2>3, <2>4 DEF Going
<1>7. ComparesTexts'
  BY <1>2 DEF ComparesTexts
<1> QED BY <1>2, <1>6, <1>7 DEF ZipInv

LEMMA TailCutWell ==
  ASSUME NEW cs \in Seq(ChunkSet), cs # <<>>, AllCutWell(cs)
  PROVE  CutsWell(Head(cs)) /\ AllCutWell(Tail(cs))
<1>1. PICK n \in Nat : n = Len(cs) /\ DOMAIN cs = 1 .. n
  OBVIOUS
<1>2. n # 0
  BY <1>1, LengthZero
<1>3. Head(cs) = cs[1] /\ 1 \in 1 .. n
  BY <1>1, <1>2
<1>4. PICK ds \in Seq(ChunkSet) : ds = Tail(cs)
  BY CutsCons
<1>5. DOMAIN ds = 1 .. (n - 1) /\ \A i \in 1 .. (n - 1) : ds[i] = cs[i + 1] /\ i + 1 \in 1 .. n
  BY <1>1, <1>2, <1>4
<1>6. AllCutWell(ds)
  BY <1>1, <1>5 DEF AllCutWell
<1> QED BY <1>1, <1>3, <1>4, <1>6 DEF AllCutWell

LEMMA HeadCutWell ==
  ASSUME NEW cs \in Seq(ChunkSet), cs # <<>>, CutsWell(Head(cs)), AllCutWell(Tail(cs))
  PROVE  AllCutWell(cs)
<1>1. PICK n \in Nat : n = Len(cs) /\ DOMAIN cs = 1 .. n
  OBVIOUS
<1>2. n # 0
  BY <1>1, LengthZero
<1>3. Head(cs) = cs[1]
  BY <1>1, <1>2
<1>4. PICK ds \in Seq(ChunkSet) : ds = Tail(cs)
  BY CutsCons
<1>5. DOMAIN ds = 1 .. (n - 1) /\ \A i \in 1 .. (n - 1) : ds[i] = cs[i + 1]
  BY <1>1, <1>2, <1>4
<1>6. ASSUME NEW i \in 1 .. n PROVE CutsWell(cs[i])
  <2>1. CASE i = 1
    BY <1>3, <2>1
  <2>2. CASE i # 1
    <3>1. PICK j \in 1 .. (n - 1) : i = j + 1
      <4>1. i - 1 \in 1 .. (n - 1) /\ i = (i - 1) + 1
        BY <2>2
      <4> QED BY <4>1
    <3>2. CutsWell(ds[j])
      BY <1>4, <1>5 DEF AllCutWell
    <3> QED BY <1>5, <3>1, <3>2
  <2> QED BY <2>1, <2>2
<1> QED BY <1>1, <1>6 DEF AllCutWell

LEMMA ZipStartKeeps ==
  ASSUME ViewsInv, ZipInv, UNCHANGED Seen, ZipStart
  PROVE  ZipInv'
<1>1. Going /\ ZipType /\ zip.pc = "start"
  BY DEF ZipInv, ZipStart
<1>2. PICK xs \in Seq(ChunkSet) : xs = zip.xs
  BY <1>1 DEF ZipType
<1>3. PICK ys \in Seq(ChunkSet) : ys = zip.ys
  BY <1>1 DEF ZipType
<1>4. PICK a, b : a = Shown(zip.left) /\ b = Shown(zip.right)
  OBVIOUS
<1>5. Continues(a, b, xs, ys)
  BY <1>1, <1>2, <1>3, <1>4 DEF Going
<1>6. CASE xs = <<>>
  <2>1. EndZip(AllEmpty(ys)) /\ AllEmpty(ys) \in BOOLEAN
    BY <1>2, <1>3, <1>6 DEF ZipStart, AllEmpty
  <2>2. Len(a) = Len(b) => a = b
    BY <1>5, <1>6, CutsEmpty, OneSideEnds
  <2>3. ~AllEmpty(ys) => a # b
    BY <1>5, <1>6, CutsEmpty, OneSideEnds, NotAllEmpty
  <2> QED BY <1>1, <1>4, <2>1, <2>2, <2>3, EndKeeps
<1>7. CASE xs # <<>> /\ ys = <<>>
  <2>1. EndZip(AllEmpty(Tail(xs))) /\ AllEmpty(Tail(xs)) \in BOOLEAN
    BY <1>2, <1>3, <1>7 DEF ZipStart, AllEmpty
  <2>2. Len(a) = Len(b) => a = b
    BY <1>5, <1>7, CutsEmpty, OneSideEnds
  <2>3. ~AllEmpty(Tail(xs)) => a # b
    BY <1>5, <1>7, CutsEmpty, OneSideEnds, TailNotEmpty
  <2> QED BY <1>1, <1>4, <2>1, <2>2, <2>3, EndKeeps
<1>8. CASE xs # <<>> /\ ys # <<>>
  <2>1. zip' = [zip EXCEPT !.pc = "loop"]
    BY <1>2, <1>3, <1>8 DEF ZipStart
  <2>2. zip' = [zip EXCEPT !.pc = "loop", !.xs = xs, !.ys = ys]
    BY <1>1, <1>2, <1>3, <2>1 DEF ZipType
  <2> QED BY <1>1, <1>2, <1>3, <1>4, <1>5, <1>8, <2>2, GoesOn
<1> QED BY <1>6, <1>7, <1>8

LEMMA ShortTail ==
  ASSUME NEW cs \in Seq(ChunkSet), cs # <<>>
  PROVE  Len(cs) = 1 <=> Tail(cs) = <<>>
<1>1. PICK n \in Nat : n = Len(cs)
  OBVIOUS
<1>2. n # 0
  BY <1>1, LengthZero
<1>3. PICK ds \in Seq(ChunkSet) : ds = Tail(cs)
  BY CutsCons
<1>4. Len(ds) = n - 1
  BY <1>1, <1>2, <1>3
<1>5. ds = <<>> <=> Len(ds) = 0
  BY LengthZero
<1> QED BY <1>1, <1>2, <1>3, <1>4, <1>5

LEMMA ZipSkipLeftKeeps ==
  ASSUME ViewsInv, ZipInv, UNCHANGED Seen, ZipSkipLeft
  PROVE  ZipInv'
<1>1. Going /\ ZipType /\ zip.pc = "loop"
  BY DEF ZipInv, ZipSkipLeft
<1>2. PICK xs \in Seq(ChunkSet) : xs = zip.xs
  BY <1>1 DEF ZipType
<1>3. PICK ys \in Seq(ChunkSet) : ys = zip.ys
  BY <1>1 DEF ZipType
<1>4. PICK a, b : a = Shown(zip.left) /\ b = Shown(zip.right)
  OBVIOUS
<1>5. Continues(a, b, xs, ys) /\ xs # <<>> /\ ys # <<>>
  BY <1>1, <1>2, <1>3, <1>4 DEF Going
<1>6. CutsOf(xs) = CutsOf(Tail(xs)) /\ Tail(xs) \in Seq(ChunkSet)
  BY <1>2, <1>5, HeadEmpty, CutsCons DEF ZipSkipLeft
<1>7. CASE Len(xs) = 1
  <2>1. EndZip(AllEmpty(Tail(ys))) /\ AllEmpty(Tail(ys)) \in BOOLEAN
    BY <1>2, <1>3, <1>7 DEF ZipSkipLeft, AllEmpty
  <2>2. CutsOf(xs) = <<>>
    BY <1>5, <1>6, <1>7, ShortTail, CutsEmpty
  <2>3. Len(a) = Len(b) => a = b
    BY <1>5, <2>2, OneSideEnds
  <2>4. ~AllEmpty(Tail(ys)) => a # b
    BY <1>5, <2>2, OneSideEnds, TailNotEmpty
  <2> QED BY <1>1, <1>4, <2>1, <2>3, <2>4, EndKeeps
<1>8. CASE Len(xs) # 1
  <2>1. PICK ds \in Seq(ChunkSet) : ds = Tail(xs)
    BY <1>6
  <2>2. zip' = [zip EXCEPT !.xs = ds]
    BY <1>2, <1>8, <2>1 DEF ZipSkipLeft
  <2>3. zip' = [zip EXCEPT !.pc = "loop", !.xs = ds, !.ys = ys]
    BY <1>1, <1>3, <2>2 DEF ZipType
  <2>4. ds # <<>>
    BY <1>5, <1>8, <2>1, ShortTail
  <2>5. Continues(a, b, ds, ys)
    BY <1>5, <1>6, <2>1 DEF Continues
  <2>6. AllCutWell(xs) => AllCutWell(ds)
    BY <1>5, <2>1, TailCutWell
  <2> QED BY <1>1, <1>2, <1>3, <1>4, <1>5, <2>3, <2>4, <2>5, <2>6, GoesOn
<1> QED BY <1>7, <1>8

LEMMA ZipSkipRightKeeps ==
  ASSUME ViewsInv, ZipInv, UNCHANGED Seen, ZipSkipRight
  PROVE  ZipInv'
<1>1. Going /\ ZipType /\ zip.pc = "loop"
  BY DEF ZipInv, ZipSkipRight
<1>2. PICK xs \in Seq(ChunkSet) : xs = zip.xs
  BY <1>1 DEF ZipType
<1>3. PICK ys \in Seq(ChunkSet) : ys = zip.ys
  BY <1>1 DEF ZipType
<1>4. PICK a, b : a = Shown(zip.left) /\ b = Shown(zip.right)
  OBVIOUS
<1>5. Continues(a, b, xs, ys) /\ xs # <<>> /\ ys # <<>>
  BY <1>1, <1>2, <1>3, <1>4 DEF Going
<1>6. CutsOf(ys) = CutsOf(Tail(ys)) /\ Tail(ys) \in Seq(ChunkSet)
  BY <1>3, <1>5, HeadEmpty, CutsCons DEF ZipSkipRight
<1>7. CASE Len(ys) = 1
  <2>1. EndZip(AllEmpty(Tail(xs))) /\ AllEmpty(Tail(xs)) \in BOOLEAN
    BY <1>2, <1>3, <1>7 DEF ZipSkipRight, AllEmpty
  <2>2. CutsOf(ys) = <<>>
    BY <1>5, <1>6, <1>7, ShortTail, CutsEmpty
  <2>3. Len(a) = Len(b) => a = b
    BY <1>5, <2>2, OneSideEnds
  <2>4. ~AllEmpty(Tail(xs)) => a # b
    BY <1>5, <2>2, OneSideEnds, TailNotEmpty
  <2> QED BY <1>1, <1>4, <2>1, <2>3, <2>4, EndKeeps
<1>8. CASE Len(ys) # 1
  <2>1. PICK ds \in Seq(ChunkSet) : ds = Tail(ys)
    BY <1>6
  <2>2. zip' = [zip EXCEPT !.ys = ds]
    BY <1>3, <1>8, <2>1 DEF ZipSkipRight
  <2>3. zip' = [zip EXCEPT !.pc = "loop", !.xs = xs, !.ys = ds]
    BY <1>1, <1>2, <2>2 DEF ZipType
  <2>4. ds # <<>>
    BY <1>5, <1>8, <2>1, ShortTail
  <2>5. Continues(a, b, xs, ds)
    BY <1>5, <1>6, <2>1 DEF Continues
  <2>6. AllCutWell(ys) => AllCutWell(ds)
    BY <1>5, <2>1, TailCutWell
  <2> QED BY <1>1, <1>2, <1>3, <1>4, <1>5, <2>3, <2>4, <2>5, <2>6, GoesOn
<1> QED BY <1>7, <1>8

(* What two chunks of which one begins the other have in common. *)
LEMMA CommonPart ==
  ASSUME NEW x \in Seq(Bytes), NEW y \in Seq(Bytes), IsPrefix(x, y) \/ IsPrefix(y, x)
  PROVE  \E by \in Nat : /\ by = Min({Len(x), Len(y)}) /\ by <= Len(x) /\ by <= Len(y)
                         /\ by = Len(x) \/ by = Len(y)
                         /\ SubSeq(x, 1, by) = SubSeq(y, 1, by)
<1>1. PICK l \in Nat : l = Len(x)
  OBVIOUS
<1>2. PICK m \in Nat : m = Len(y)
  OBVIOUS
<1>3. Min({l, m}) = IF l <= m THEN l ELSE m
  BY MinTwo
<1>4. PICK by \in Nat : by = IF l <= m THEN l ELSE m
  OBVIOUS
<1>5. by <= l /\ by <= m /\ (by = l \/ by = m)
  BY <1>4
<1>6. SubSeq(x, 1, by) = SubSeq(y, 1, by)
  <2>1. CASE IsPrefix(x, y)
    <3>1. by = l
      BY <1>1, <1>2, <1>4, <2>1 DEF IsPrefix
    <3> QED BY <1>1, <2>1, <3>1 DEF IsPrefix
  <2>2. CASE IsPrefix(y, x)
    <3>1. by = m
      <4>1. m <= l
        BY <1>1, <1>2, <2>2 DEF IsPrefix
      <4> QED BY <1>4, <4>1
    <3> QED BY <1>2, <2>2, <3>1 DEF IsPrefix
  <2> QED BY <2>1, <2>2
<1> QED BY <1>1, <1>2, <1>3, <1>4, <1>5, <1>6

LEMMA ZipCompareKeeps ==
  ASSUME ViewsInv, ZipInv, UNCHANGED Seen, ZipCompare
  PROVE  ZipInv'
<1>1. Going /\ ZipType /\ zip.pc = "loop"
  BY DEF ZipInv, ZipCompare
<1>2. PICK xs \in Seq(ChunkSet) : xs = zip.xs
  BY <1>1 DEF ZipType
<1>3. PICK ys \in Seq(ChunkSet) : ys = zip.ys
  BY <1>1 DEF ZipType
<1>4. PICK a, b : a = Shown(zip.left) /\ b = Shown(zip.right)
  OBVIOUS
<1>5. Continues(a, b, xs, ys) /\ xs # <<>> /\ ys # <<>>
  BY <1>1, <1>2, <1>3, <1>4 DEF Going
<1>6. PICK x \in ChunkSet : x = Head(xs)
  BY <1>5, CutsCons
<1>7. PICK y \in ChunkSet : y = Head(ys)
  BY <1>5, CutsCons
<1>8. /\ ~CutsWell(x) \/ ~CutsWell(y) => zip' = [zip EXCEPT !.pc = "panicked"]
      /\ CutsWell(x) /\ CutsWell(y) /\ (IsPrefix(Cut(x), Cut(y)) \/ IsPrefix(Cut(y), Cut(x))) =>
           zip' = [zip EXCEPT !.xs = Advanced(xs, Advance(x, y)), !.ys = Advanced(ys, Advance(x, y))]
      /\ CutsWell(x) /\ CutsWell(y) /\ ~IsPrefix(Cut(x), Cut(y)) /\ ~IsPrefix(Cut(y), Cut(x)) => EndZip(FALSE)
  BY <1>1, <1>2, <1>3, <1>6, <1>7 DEF ZipCompare, ZipType
<1>9. CASE ~CutsWell(x) \/ ~CutsWell(y)
  <2>1. /\ zip'.pc = "panicked" /\ zip'.left = zip.left /\ zip'.right = zip.right /\ ZipType'
    BY <1>1, <1>8, <1>9 DEF ZipType
  <2>2. ~AllCutWell(xs) \/ ~AllCutWell(ys)
    BY <1>5, <1>6, <1>7, <1>9, TailCutWell
  <2>3. ~Readable(zip.left) \/ ~Readable(zip.right)
    BY <1>1, <1>2, <1>3, <2>2 DEF Going
  <2>4. PICK v, w : v = zip.left /\ w = zip.right
    OBVIOUS
  <2>5. (Readable(v)' <=> Readable(v)) /\ (Readable(w)' <=> Readable(w))
    BY SeenStays
  <2>6. ComparesTexts'
    BY <2>1, <2>3, <2>4, <2>5 DEF ComparesTexts
  <2> QED BY <2>1, <2>6 DEF ZipInv
<1>10. CASE CutsWell(x) /\ CutsWell(y) /\ (IsPrefix(Cut(x), Cut(y)) \/ IsPrefix(Cut(y), Cut(x)))
  <2>1. PICK p \in Seq(Bytes) : p = Cut(x)
    BY CutIs
  <2>2. PICK q \in Seq(Bytes) : q = Cut(y)
    BY CutIs
  <2>3. PICK by \in Nat : /\ by = Min({Len(p), Len(q)}) /\ by <= Len(p) /\ by <= Len(q)
                          /\ by = Len(p) \/ by = Len(q)
                          /\ SubSeq(p, 1, by) = SubSeq(q, 1, by)
    BY <1>10, <2>1, <2>2, CommonPart
  <2>4. by = Advance(x, y)
    BY <2>1, <2>2, <2>3 DEF Advance
  <2>5. PICK cs : cs = Advanced(xs, by)
    OBVIOUS
  <2>6. PICK ds : ds = Advanced(ys, by)
    OBVIOUS
  <2>7. cs \in Seq(ChunkSet) /\ cs # <<>> /\ Head(cs) = [x EXCEPT !.lo = @ + by] /\ Tail(cs) = Tail(xs)
    BY <1>5, <1>6, <2>1, <2>3, <2>5, AdvancedIs
  <2>8. ds \in Seq(ChunkSet) /\ ds # <<>> /\ Head(ds) = [y EXCEPT !.lo = @ + by] /\ Tail(ds) = Tail(ys)
    BY <1>5, <1>7, <2>2, <2>3, <2>6, AdvancedIs
  <2>9. Continues(a, b, cs, ds)
    BY <1>5, <1>6, <1>7, <2>1, <2>2, <2>3, <2>5, <2>6, BothAdvance
  <2>10. CutsWell(Head(cs)) /\ CutsWell(Head(ds))
    <3>1. /\ CutsWell(x) /\ CutsWell(y)
          /\ by <= Len(Cut(x)) /\ by <= Len(Cut(y))
          /\ by = Len(Cut(x)) \/ by = Len(Cut(y))
          /\ SubSeq(Cut(x), 1, by) = SubSeq(Cut(y), 1, by)
      BY ONLY <1>10, <2>1, <2>2, <2>3
    <3>2. x \in ChunkSet /\ y \in ChunkSet /\ by \in Nat
      OBVIOUS
    <3>3. CutsWell([x EXCEPT !.lo = @ + by]) /\ CutsWell([y EXCEPT !.lo = @ + by])
      BY ONLY <3>1, <3>2, AdvanceCutsWell
    <3> QED BY ONLY <3>3, <2>7, <2>8
  <2>11. AllCutWell(xs) /\ AllCutWell(ys) => AllCutWell(cs) /\ AllCutWell(ds)
    BY <1>5, <2>7, <2>8, <2>10, TailCutWell, HeadCutWell
  <2>12. zip' = [zip EXCEPT !.xs = cs, !.ys = ds]
    BY <1>8, <1>10, <2>4, <2>5, <2>6
  <2>13. zip' = [zip EXCEPT !.pc = "loop", !.xs = cs, !.ys = ds]
    BY <1>1, <2>12 DEF ZipType
  <2> QED BY <1>1, <1>2, <1>3, <1>4, <2>7, <2>8, <2>9, <2>11, <2>13, GoesOn
<1>11. CASE CutsWell(x) /\ CutsWell(y) /\ ~IsPrefix(Cut(x), Cut(y)) /\ ~IsPrefix(Cut(y), Cut(x))
  <2>1. a # b
    BY <1>5, <1>6, <1>7, <1>11, ChunksDiffer
  <2>2. EndZip(FALSE)
    BY <1>8, <1>11
  <2> QED BY <1>1, <1>4, <2>1, <2>2, EndKeeps
<1> QED BY <1>9, <1>10, <1>11

LEMMA ZipStep ==
  ASSUME ViewsInv, ZipInv, [Next]_vars
  PROVE  ZipInv'
<1>1. ViewsInv /\ ZipInv
  OBVIOUS
<1>2. ASSUME zip = NoZip, zip' = zip PROVE ZipInv'
  BY <1>2, NoZipStays
<1>3. CASE \E v \in Views, n \in Nodes : New(v, n)
  BY <1>2, <1>3 DEF New
<1>4. CASE \E v \in Made, w \in Views : \E first, last \in 0 .. Length(v) : Slice(v, w, first, last)
  BY <1>2, <1>4 DEF Slice
<1>5. CASE \E v, w \in Made : Compare(v, w)
  BY <1>1, <1>5, CompareKeeps
<1>6. CASE ZipTurn
  <2>1. UNCHANGED Seen
    BY <1>6 DEF ZipTurn, Seen
  <2> QED BY <1>1, <1>6, <2>1, ZipStartKeeps, ZipSkipLeftKeeps, ZipSkipRightKeeps, ZipCompareKeeps DEF ZipTurn
<1>7. CASE Answered
  BY <1>7, NoZipStays DEF Answered
<1>8. CASE \E n \in Nodes :
             \/ \E i \in DOMAIN inside[n] : TakeOut(n, i)
             \/ \E i \in 1 .. Len(inside[n]) + 1, text \in Texts : PutIn(n, i, text)
             \/ \E s \in Starts : Move(n, s)
  <2>1. PICK n \in Nodes : Edited(n)
    BY <1>8 DEF TakeOut, PutIn, Move
  <2> QED BY <1>2, <2>1 DEF Edited
<1>9. CASE UNCHANGED vars
  <2>1. zip' = zip /\ UNCHANGED Seen
    BY <1>9 DEF vars, Seen
  <2>2. \A v : Shown(v)' = Shown(v) /\ (Readable(v)' <=> Readable(v)) /\ Length(v)' = Length(v)
    BY <2>1, SeenStays
  <2>3. Made' = Made /\ fresh' = fresh
    BY <2>1, SeenStays
  <2>4. PICK v, w : v = zip.left /\ w = zip.right
    OBVIOUS
  <2>5. ZipType'
    BY <1>1, <2>1 DEF ZipInv, ZipType
  <2>6. Going => Going'
    BY <2>1, <2>2, <2>3 DEF Going, SameLength, Continues
  <2>7. ComparesTexts'
    BY <1>1, <2>1, <2>2, <2>3 DEF ZipInv, ComparesTexts
  <2> QED BY <1>1, <2>1, <2>5, <2>6, <2>7 DEF ZipInv
<1> QED BY <1>3, <1>4, <1>5, <1>6, <1>7, <1>8, <1>9 DEF Next

TextInv == ViewsInv /\ ZipInv

LEMMA TextStep ==
  ASSUME TextInv, [Next]_vars
  PROVE  TextInv'
<1>1. ViewsInv /\ ZipInv
  BY DEF TextInv
<1>2. ViewsInv'
  BY <1>1, ViewsStep
<1>3. ZipInv'
  BY <1>1, ZipStep
<1> QED BY <1>2, <1>3 DEF TextInv

(***************************************************************************)
(* ComparesTexts, for any texts and any division of them into tokens: two  *)
(* views are equal exactly if their texts are, and comparing panics only   *)
(* if a view itself begins or ends within a character (zip_texts).         *)
(***************************************************************************)
THEOREM ComparesTextsAlways == Spec => []ComparesTexts
<1>1. Init => TextInv
  <2>1. Init => zip = NoZip
    BY DEF Init
  <2> QED BY <2>1, ViewsInit, NoZipIs DEF TextInv
<1>2. TextInv /\ [Next]_vars => TextInv'
  BY TextStep
<1>3. TextInv => ComparesTexts
  BY DEF TextInv, ZipInv
<1> QED BY <1>1, <1>2, <1>3, PTL DEF Spec
=============================================================================

---------------------------- MODULE CursorProofs ----------------------------
(***************************************************************************)
(* The cursors, for every instance of the constants of Cursor, in two      *)
(* parts.  First the forest: the reference counts are exact, a tree is     *)
(* mutable as a whole or not at all, parents make no cycle, and the list   *)
(* of every mutable NodeData holds exactly its live children.  Then what   *)
(* the cursors do to the green tree: a red points at the green element     *)
(* its parent's green node has in its slot, every green element is owned   *)
(* exactly as often as it is counted, cached offsets are exact, nothing    *)
(* is left when everything was dropped, and elements of one tree that      *)
(* compare equal are at one place.                                         *)
(***************************************************************************)
EXTENDS Cursor, GreenNodeProofs

-----------------------------------------------------------------------------
(***************************************************************************)
(* The forest of NodeDatas.  The counts come first: what every action      *)
(* does to them.  Then each step is reduced to what it does to the forest  *)
(* (Quiet, MakesRoot, MakesChild, Moves, Regreens, Detaches, Links,        *)
(* Frees), and one lemma per effect shows what it preserves.               *)
(***************************************************************************)

-----------------------------------------------------------------------------
(***************************************************************************)
(* Counting references.                                                    *)
(***************************************************************************)
(* A step that changes the parent of one red. *)
LEMMA ChildrenChange ==
  ASSUME NEW c \in Reds, NEW n \in Reds,
         \A m \in Reds : m # c => red'[m].parent = red[m].parent
  PROVE  /\ Cardinality(ChildrenOf(n)) \in Nat /\ Cardinality(ChildrenOf(n))' \in Nat
         /\ Cardinality(ChildrenOf(n))' =
              Cardinality(ChildrenOf(n)) - One(red[c].parent = n) + One(red'[c].parent = n)
<1>1. IsFiniteSet(ChildrenOf(n)) /\ IsFiniteSet(ChildrenOf(n)')
  BY RedsAssumption, FS_Subset DEF ChildrenOf
<1>2. ChildrenOf(n) \ {c} = ChildrenOf(n)' \ {c}
  BY DEF ChildrenOf
<1>3. /\ One(c \in ChildrenOf(n)) = One(red[c].parent = n)
      /\ One(c \in ChildrenOf(n)') = One(red'[c].parent = n)
  BY DEF ChildrenOf, One
<1> HIDE DEF ChildrenOf
<1> QED BY <1>1, <1>2, <1>3, DifferInOne

(* A step that changes one handle. *)
LEMMA OwnersChange ==
  ASSUME NEW h \in Handles, NEW n \in Reds,
         \A k \in Handles : k # h => handle'[k] = handle[k]
  PROVE  /\ Cardinality(Owners(n)) \in Nat /\ Cardinality(Owners(n))' \in Nat
         /\ Cardinality(Owners(n))' =
              Cardinality(Owners(n)) - One(handle[h] = n) + One(handle'[h] = n)
<1>1. IsFiniteSet(Owners(n)) /\ IsFiniteSet(Owners(n)')
  BY HandlesAssumption, FS_Subset DEF Owners
<1>2. Owners(n) \ {h} = Owners(n)' \ {h}
  BY DEF Owners
<1>3. /\ One(h \in Owners(n)) = One(handle[h] = n)
      /\ One(h \in Owners(n)') = One(handle'[h] = n)
  BY DEF Owners, One
<1> HIDE DEF Owners
<1> QED BY <1>1, <1>2, <1>3, DifferInOne

(* Whatever is referred to has a positive count. *)
LEMMA Referenced ==
  ASSUME RcExact, NEW n \in Reds
  PROVE  /\ \A h \in Handles : handle[h] = n => red[n].rc > 0
         /\ \A c \in Reds : red[c].parent = n => red[n].rc > 0
         /\ Held(n) > 0 => red[n].rc > 0
         /\ red[n].rc \in Nat
<1>1. red[n].rc = Cardinality(Owners(n)) + Cardinality(ChildrenOf(n)) + Held(n)
  BY DEF RcExact
<1>2. Held(n) \in Nat
  BY DEF Held, One
<1>3. IsFiniteSet(Owners(n)) /\ IsFiniteSet(ChildrenOf(n))
  BY HandlesAssumption, RedsAssumption, FS_Subset DEF Owners, ChildrenOf
<1>4. Cardinality(Owners(n)) \in Nat /\ Cardinality(ChildrenOf(n)) \in Nat
  BY <1>3, FS_CardinalityType
<1>5. ASSUME NEW h \in Handles, handle[h] = n  PROVE Cardinality(Owners(n)) # 0
  <2>1. Owners(n) # {}
    BY <1>5 DEF Owners
  <2> QED BY <2>1, <1>3, FS_EmptySet
<1>6. ASSUME NEW c \in Reds, red[c].parent = n  PROVE Cardinality(ChildrenOf(n)) # 0
  <2>1. ChildrenOf(n) # {}
    BY <1>6 DEF ChildrenOf
  <2> QED BY <2>1, <1>3, FS_EmptySet
<1>7. \A h \in Handles : handle[h] = n => red[n].rc > 0
  BY <1>1, <1>2, <1>4, <1>5
<1>8. \A c \in Reds : red[c].parent = n => red[n].rc > 0
  BY <1>1, <1>2, <1>4, <1>6
<1> QED BY <1>1, <1>2, <1>4, <1>7, <1>8

(* The counts stay exact if each changes by what its references change. *)
LEMMA CountsFollow ==
  ASSUME RcExact, NEW h \in Handles, NEW c \in Reds,
         \A k \in Handles : k # h => handle'[k] = handle[k],
         \A m \in Reds : m # c => red'[m].parent = red[m].parent,
         \A n \in Reds :
           red'[n].rc = red[n].rc - One(handle[h] = n) + One(handle'[h] = n)
                        - One(red[c].parent = n) + One(red'[c].parent = n)
                        - Held(n) + Held(n)'
  PROVE  RcExact'
<1> SUFFICES ASSUME NEW n \in Reds
             PROVE  red'[n].rc = Cardinality(Owners(n))' + Cardinality(ChildrenOf(n))' + Held(n)'
  BY DEF RcExact
<1>1. red[n].rc = Cardinality(Owners(n)) + Cardinality(ChildrenOf(n)) + Held(n)
  BY DEF RcExact
<1>2. Held(n) \in Nat /\ Held(n)' \in Nat
  BY DEF Held, One
<1>3. /\ One(handle[h] = n) \in Nat /\ One(handle'[h] = n) \in Nat
      /\ One(red[c].parent = n) \in Nat /\ One(red'[c].parent = n) \in Nat
  BY DEF One
<1>4. /\ Cardinality(Owners(n)) \in Nat /\ Cardinality(Owners(n))' \in Nat
      /\ Cardinality(Owners(n))' =
           Cardinality(Owners(n)) - One(handle[h] = n) + One(handle'[h] = n)
  BY OwnersChange
<1>5. /\ Cardinality(ChildrenOf(n)) \in Nat /\ Cardinality(ChildrenOf(n))' \in Nat
      /\ Cardinality(ChildrenOf(n))' =
           Cardinality(ChildrenOf(n)) - One(red[c].parent = n) + One(red'[c].parent = n)
  BY ChildrenChange
<1>6. red'[n].rc = red[n].rc - One(handle[h] = n) + One(handle'[h] = n)
                   - One(red[c].parent = n) + One(red'[c].parent = n)
                   - Held(n) + Held(n)'
  OBVIOUS
<1> HIDE DEF One, Held
<1> QED BY <1>1, <1>2, <1>3, <1>4, <1>5, <1>6

(* CountsFollow for a step that changes no handle. *)
LEMMA CountsFollowLoop ==
  ASSUME RcExact, NEW c \in Reds,
         handle' = handle,
         \A m \in Reds : m # c => red'[m].parent = red[m].parent,
         \A n \in Reds :
           red'[n].rc = red[n].rc - One(red[c].parent = n) + One(red'[c].parent = n)
                        - Held(n) + Held(n)'
  PROVE  RcExact'
<1> SUFFICES ASSUME NEW n \in Reds
             PROVE  red'[n].rc = Cardinality(Owners(n))' + Cardinality(ChildrenOf(n))' + Held(n)'
  BY DEF RcExact
<1>1. red[n].rc = Cardinality(Owners(n)) + Cardinality(ChildrenOf(n)) + Held(n)
  BY DEF RcExact
<1>2. Held(n) \in Nat /\ Held(n)' \in Nat
  BY DEF Held, One
<1>3. One(red[c].parent = n) \in Nat /\ One(red'[c].parent = n) \in Nat
  BY DEF One
<1>4. Cardinality(Owners(n)) \in Nat /\ Cardinality(Owners(n))' = Cardinality(Owners(n))
  <2>1. IsFiniteSet(Owners(n))
    BY HandlesAssumption, FS_Subset DEF Owners
  <2>2. Owners(n)' = Owners(n)
    BY DEF Owners
  <2> QED BY <2>1, <2>2, FS_CardinalityType
<1>5. /\ Cardinality(ChildrenOf(n)) \in Nat /\ Cardinality(ChildrenOf(n))' \in Nat
      /\ Cardinality(ChildrenOf(n))' =
           Cardinality(ChildrenOf(n)) - One(red[c].parent = n) + One(red'[c].parent = n)
  BY ChildrenChange
<1>6. red'[n].rc = red[n].rc - One(red[c].parent = n) + One(red'[c].parent = n)
                   - Held(n) + Held(n)'
  OBVIOUS
<1> HIDE DEF One, Held
<1> QED BY <1>1, <1>2, <1>3, <1>4, <1>5, <1>6

-----------------------------------------------------------------------------
(***************************************************************************)
(* The inductive invariant: the counts are exact because the machine never *)
(* holds a reference it does not account for.  A dying red has lost its    *)
(* last reference, and the child attach_child is about to link is a root.  *)
(***************************************************************************)
Accounted ==
  /\ spine.node = NULL => spine.release = NULL
  /\ dying # NULL => red[dying].rc = 0
  /\ todo.stage = "none" => todo.child = NULL
  /\ todo.stage \in {"link", "drop", "clone"} => todo.node \in Reds /\ todo.child \in Reds
  /\ todo.stage = "replace" => todo.child = NULL
  /\ todo.stage \in {"clone", "replace"} => dying = NULL /\ spine.node = NULL
  /\ todo.stage = "link" => red[todo.child].parent = NULL

CountInv == RefType /\ RcExact /\ Accounted

LEMMA InitCounts == Init => CountInv
<1> SUFFICES ASSUME Init PROVE CountInv
  OBVIOUS
<1> USE DEF Init
<1>1. RefType
  BY RedsAssumption DEF RefType, FreeRed, NoSpine, NoTodo, RedOrNull
<1>2. RcExact
  <2> SUFFICES ASSUME NEW n \in Reds
               PROVE  red[n].rc = Cardinality(Owners(n)) + Cardinality(ChildrenOf(n)) + Held(n)
    BY DEF RcExact
  <2>1. Owners(n) = {} /\ ChildrenOf(n) = {}
    BY RedsAssumption DEF Owners, ChildrenOf, FreeRed
  <2>2. Held(n) = 0
    BY RedsAssumption DEF Held, One, NoSpine, NoTodo
  <2>3. red[n].rc = 0
    BY DEF FreeRed
  <2> QED BY <2>1, <2>2, <2>3, FS_EmptySet
<1>3. Accounted
  BY DEF Accounted, NoSpine, NoTodo
<1> QED BY <1>1, <1>2, <1>3 DEF CountInv

(* While the user acts, the loops hold no reference. *)
LEMMA IdleHolds ==
  ASSUME Idle
  PROVE  /\ dying = NULL /\ spine.node = NULL /\ spine.release = NULL
         /\ todo.stage = "none" /\ todo.node = NULL /\ todo.child = NULL
BY DEF Idle, NoSpine, NoTodo

(* Exact counts are natural numbers, in the next state too. *)
LEMMA ExactIsNat ==
  ASSUME RcExact'
  PROVE  \A n \in Reds : red'[n].rc \in Nat
<1> SUFFICES ASSUME NEW n \in Reds PROVE red'[n].rc \in Nat
  OBVIOUS
<1>1. red'[n].rc = Cardinality(Owners(n)') + Cardinality(ChildrenOf(n)') + Held(n)'
  BY DEF RcExact
<1>2. IsFiniteSet(Owners(n)') /\ IsFiniteSet(ChildrenOf(n)')
  BY HandlesAssumption, RedsAssumption, FS_Subset DEF Owners, ChildrenOf
<1>3. Cardinality(Owners(n)') \in Nat /\ Cardinality(ChildrenOf(n)') \in Nat
  BY <1>2, FS_CardinalityType
<1>4. Held(n)' \in Nat
  BY DEF Held, One
<1> QED BY <1>1, <1>3, <1>4

(***************************************************************************)
(* RefType and RcExact after a step of the user that redirects the handle  *)
(* h, gives the red c a new parent and changes counts accordingly.         *)
(***************************************************************************)
Recounts(h, m, c, n) ==
  red'[n].rc = red[n].rc - One(handle[h] = n) + One(m = n)
               - One(red[c].parent = n) + One(red'[c].parent = n)

Redirects(h, m, c) ==
  /\ UNCHANGED <<spine, todo, stolen, forgotten>>
  /\ dying' \in RedOrNull
  /\ handle' = [handle EXCEPT ![h] = m]
  /\ DOMAIN red' = Reds
  /\ \A n \in Reds :
       /\ DOMAIN red'[n] = DOMAIN FreeRed
       /\ red'[n].mutable \in BOOLEAN
       /\ red'[n].first \subseteq Reds
       /\ red'[n].parent \in RedOrNull
       /\ n # c => red'[n].parent = red[n].parent
       /\ Recounts(h, m, c, n)

LEMMA UserStepCounts ==
  ASSUME CountInv, NEW h \in Handles, NEW m \in RedOrNull, NEW c \in Reds, Redirects(h, m, c)
  PROVE  RefType' /\ RcExact'
<1> USE DEF Redirects, Recounts
<1>1. \A k \in Handles : k # h => handle'[k] = handle[k]
  BY DEF CountInv, RefType
<1>2. handle'[h] = m /\ handle' \in [Handles -> RedOrNull]
  BY DEF CountInv, RefType
<1>3. \A n \in Reds : Held(n)' = Held(n) /\ Held(n) \in Nat /\ red[n].rc \in Nat
  BY DEF Held, One, CountInv, RefType
<1>4. \A b : One(b) \in Nat
  BY DEF One
<1>5. ASSUME NEW n \in Reds
      PROVE  red'[n].rc = red[n].rc - One(handle[h] = n) + One(handle'[h] = n)
                          - One(red[c].parent = n) + One(red'[c].parent = n)
                          - Held(n) + Held(n)'
  <2>1. /\ One(handle[h] = n) \in Nat /\ One(m = n) \in Nat
        /\ One(red[c].parent = n) \in Nat /\ One(red'[c].parent = n) \in Nat
    BY <1>4
  <2>2. One(handle'[h] = n) = One(m = n)
    BY <1>2
  <2> QED BY <1>3, <2>1, <2>2
<1>6. RcExact'
  BY <1>1, <1>5, CountsFollow DEF CountInv
<1>7. \A n \in Reds : red'[n].rc \in Nat
  BY <1>6, ExactIsNat
<1> QED BY <1>2, <1>6, <1>7 DEF RefType, CountInv

-----------------------------------------------------------------------------
(***************************************************************************)
(* The steps of the user.                                                  *)
(***************************************************************************)
LEMMA IdleAccounted ==
  ASSUME Accounted, Idle, UNCHANGED <<spine, todo>>, dying' # NULL => red'[dying'].rc = 0
  PROVE  Accounted'
BY IdleHolds DEF Accounted

LEMMA NewRootDataCounts ==
  ASSUME CountInv, Idle, NEW g, NEW mut \in BOOLEAN, NEW h \in Handles, NewRootData(g, mut, h)
  PROVE  CountInv'
<1>1. PICK r \in NextRed :
        /\ red' = [red EXCEPT ![r] = [FreeRed EXCEPT !.rc = 1, !.green = g, !.mutable = mut]]
        /\ handle' = [handle EXCEPT ![h] = r]
  BY DEF NewRootData
<1>2. r \in Reds /\ r \in RedOrNull /\ red[r] = FreeRed
  BY DEF NextRed, Lowest, FreshReds, RedOrNull
<1>3. UNCHANGED <<spine, dying, todo, stolen, forgotten>> /\ handle[h] = NULL
  BY DEF NewRootData
<1>4. Redirects(h, r, r)
  BY <1>1, <1>2, <1>3, RedsAssumption DEF Redirects, Recounts, CountInv, RefType, FreeRed, RedOrNull, One
<1>5. RefType' /\ RcExact'
  BY <1>2, <1>4, UserStepCounts
<1>6. Accounted'
  BY <1>3, IdleHolds, IdleAccounted DEF CountInv
<1> QED BY <1>5, <1>6 DEF CountInv

(* One more handle for a red: clone, parent, and a child that is linked already. *)
LEMMA ReferCounts ==
  ASSUME CountInv, Idle, NEW n \in Reds, NEW h \in Handles, handle[h] = NULL,
         red' = [red EXCEPT ![n].rc = @ + 1],
         handle' = [handle EXCEPT ![h] = n],
         UNCHANGED <<spine, dying, todo, stolen, forgotten>>
  PROVE  CountInv'
<1>1. Redirects(h, n, n)
  BY RedsAssumption DEF Redirects, Recounts, CountInv, RefType, FreeRed, RedOrNull, One
<1>2. RefType' /\ RcExact'
  BY <1>1, UserStepCounts DEF RedOrNull
<1>3. Accounted'
  BY IdleHolds, IdleAccounted DEF CountInv
<1> QED BY <1>2, <1>3 DEF CountInv

(* What WithChild does to the fields the counts depend on. *)
LEMMA FreshChild ==
  ASSUME RefType, NEW p \in Reds, red[p].rc > 0, NEW i, NEW c \in Reds,
         IsChild(p, i, c), c \notin Linked(p, i)
  PROVE  LET r == WithChild(p, i, c)
         IN  /\ red[c] = FreeRed /\ c # p
             /\ DOMAIN r = Reds
             /\ \A n \in Reds :
                  /\ DOMAIN r[n] = DOMAIN FreeRed
                  /\ r[n].mutable \in BOOLEAN
                  /\ r[n].first \subseteq Reds
                  /\ r[n].parent = IF n = c THEN p ELSE red[n].parent
                  /\ r[n].rc = IF n = c THEN 1 ELSE IF n = p THEN red[n].rc + 1 ELSE red[n].rc
<1> DEFINE first == IF red[p].mutable THEN red[p].first \cup {c} ELSE red[p].first
<1>1. red[c] = FreeRed /\ c # p
  BY DEF IsChild, NextRed, Lowest, FreshReds, FreeRed
<1>2. WithChild(p, i, c) =
        [red EXCEPT ![c] = ChildData(p, i), ![p].rc = @ + 1, ![p].first = first]
  BY <1>1 DEF WithChild, RefType, FreeRed
<1>3. /\ DOMAIN ChildData(p, i) = DOMAIN FreeRed
      /\ ChildData(p, i).rc = 1 /\ ChildData(p, i).parent = p
      /\ ChildData(p, i).mutable = red[p].mutable /\ ChildData(p, i).first = {}
  BY DEF ChildData, FreeRed
<1>4. first \subseteq Reds
  BY DEF RefType
<1> HIDE DEF first
<1> QED BY <1>1, <1>2, <1>3, <1>4 DEF RefType, FreeRed

LEMMA NewChildCounts ==
  ASSUME CountInv, Idle, NEW p \in Reds, red[p].rc > 0, NEW i, NEW h \in Handles, NewChild(p, i, h)
  PROVE  CountInv'
<1>1. PICK c \in Reds : /\ IsChild(p, i, c)
                        /\ red' = WithChild(p, i, c)
                        /\ handle' = [handle EXCEPT ![h] = c]
  BY DEF NewChild
<1>2. UNCHANGED <<spine, dying, todo, stolen, forgotten>> /\ handle[h] = NULL
  BY DEF NewChild
<1>3. CASE c \in Linked(p, i)
  <2>1. red' = [red EXCEPT ![c].rc = @ + 1]
    BY <1>1, <1>3 DEF WithChild
  <2> QED BY <1>1, <1>2, <2>1, ReferCounts
<1>4. CASE c \notin Linked(p, i)
  <2>1. RefType
    BY DEF CountInv
  <2>2. /\ red[c] = FreeRed /\ c # p
        /\ DOMAIN red' = Reds
        /\ \A n \in Reds :
             /\ DOMAIN red'[n] = DOMAIN FreeRed
             /\ red'[n].mutable \in BOOLEAN
             /\ red'[n].first \subseteq Reds
             /\ red'[n].parent = IF n = c THEN p ELSE red[n].parent
             /\ red'[n].rc = IF n = c THEN 1 ELSE IF n = p THEN red[n].rc + 1 ELSE red[n].rc
    BY <1>1, <1>4, <2>1, FreshChild
  <2>3. Redirects(h, c, c)
    BY <1>1, <1>2, <2>1, <2>2, RedsAssumption DEF Redirects, Recounts, RefType, FreeRed, RedOrNull, One
  <2>4. RefType' /\ RcExact'
    BY <2>3, UserStepCounts DEF RedOrNull
  <2>5. Accounted'
    BY <1>2, IdleHolds, IdleAccounted DEF CountInv
  <2> QED BY <2>4, <2>5 DEF CountInv
<1> QED BY <1>3, <1>4

(* A child or a sibling: the node it is made below is live. *)
LEMMA ChildStepCounts ==
  ASSUME CountInv, NEW h \in Handles, NEW K, NEW new \in Handles,
         \/ FirstChild(h, K, new) \/ LastChild(h, K, new)
         \/ NextSibling(h, K, new) \/ PrevSibling(h, K, new)
  PROVE  CountInv'
<1>1. handle[h] \in Reds /\ Idle
  BY DEF FirstChild, LastChild, NextSibling, PrevSibling, User, CountInv, RefType, RedOrNull
<1>2. RcExact
  BY DEF CountInv
<1>3. red[handle[h]].rc > 0
  BY <1>1, <1>2, Referenced
<1>4. CASE FirstChild(h, K, new) \/ LastChild(h, K, new)
  <2>1. PICK i : NewChild(handle[h], i, new)
    BY <1>4 DEF FirstChild, LastChild
  <2> QED BY <1>1, <1>3, <2>1, NewChildCounts
<1>5. CASE NextSibling(h, K, new) \/ PrevSibling(h, K, new)
  <2>1. PICK i : NewChild(red[handle[h]].parent, i, new) /\ red[handle[h]].parent # NULL
    BY <1>5 DEF NextSibling, PrevSibling, After, Before, Lowest, Highest
  <2>2. red[handle[h]].parent \in Reds
    BY <1>1, <2>1 DEF CountInv, RefType, RedOrNull
  <2>3. red[red[handle[h]].parent].rc > 0
    BY <1>1, <1>2, <2>2, Referenced
  <2> QED BY <1>1, <2>1, <2>2, <2>3, NewChildCounts
<1> QED BY <1>4, <1>5

LEMMA DropCounts ==
  ASSUME CountInv, Idle, NEW h \in Handles, handle[h] # NULL,
         handle' = [handle EXCEPT ![h] = NULL],
         Release(red, handle[h]),
         UNCHANGED <<spine, todo, stolen, forgotten>>
  PROVE  CountInv'
<1> DEFINE n == handle[h]
<1>1. n \in Reds
  BY DEF CountInv, RefType, RedOrNull
<1>2. /\ red' = [red EXCEPT ![n].rc = @ - 1]
      /\ dying' = IF red[n].rc = 1 THEN n ELSE NULL
  BY DEF Release
<1>3. Redirects(h, NULL, n)
  BY <1>1, <1>2, RedsAssumption DEF Redirects, Recounts, CountInv, RefType, FreeRed, RedOrNull, One
<1>4. RefType' /\ RcExact'
  BY <1>1, <1>3, UserStepCounts DEF RedOrNull
<1>5. dying' # NULL => red'[dying'].rc = 0
  BY <1>1, <1>2 DEF CountInv, RefType, FreeRed
<1>6. Accounted'
  BY <1>5, IdleAccounted DEF CountInv
<1> QED BY <1>4, <1>6 DEF CountInv

(***************************************************************************)
(* to_next_sibling.                                                        *)
(***************************************************************************)
(* A reference that is given up for one to a later sibling. *)
Hops(h, K) ==
  LET n == handle[h]
      p == red[n].parent
  IN  /\ User
      /\ n # NULL
      /\ \E i \in After(n, K), c \in Reds :
           /\ IsChild(p, i, c)
           /\ handle' = [handle EXCEPT ![h] = c]
           /\ Release(WithChild(p, i, c), n)
      /\ UNCHANGED <<heap, kept, spine, drops, todo, stolen, forgotten, edits>>

LEMMA SharedHops ==
  ASSUME NEW h, NEW K, StepShared(h, K) PROVE Hops(h, K)
BY DEF StepShared, Steps, Hops, Lowest

LEMMA HopCounts ==
  ASSUME CountInv, NEW h \in Handles, NEW K, Hops(h, K)
  PROVE  CountInv'
<1> DEFINE n == handle[h]
           p == red[n].parent
<1>1. /\ n \in Reds /\ Idle
      /\ UNCHANGED <<spine, todo, stolen, forgotten>>
  BY DEF Hops, User, CountInv, RefType, RedOrNull
<1>2. PICK i \in After(n, K), c \in Reds :
        /\ IsChild(p, i, c)
        /\ handle' = [handle EXCEPT ![h] = c]
        /\ Release(WithChild(p, i, c), n)
  BY DEF Hops
<1>3. /\ red' = [WithChild(p, i, c) EXCEPT ![n].rc = @ - 1]
      /\ dying' = IF WithChild(p, i, c)[n].rc = 1 THEN n ELSE NULL
  BY <1>2 DEF Release
<1>4. p \in Reds
  BY <1>1, <1>2 DEF After, CountInv, RefType, RedOrNull
<1>5. RefType /\ RcExact
  BY DEF CountInv
<1>6. red[n].rc > 0 /\ red[p].rc > 0
  BY <1>1, <1>4, <1>5, Referenced
<1>7. Redirects(h, c, c) /\ (dying' # NULL => red'[dying'].rc = 0)
  <2>1. CASE c \in Linked(p, i)
    <3>1. WithChild(p, i, c) = [red EXCEPT ![c].rc = @ + 1]
      BY <2>1 DEF WithChild
    <3>2. Redirects(h, c, c)
      BY <1>1, <1>2, <1>3, <1>5, <3>1, RedsAssumption
      DEF Redirects, Recounts, RefType, FreeRed, RedOrNull, One
    <3>3. dying' # NULL => red'[dying'].rc = 0
      BY <1>1, <1>3, <1>5, <3>1 DEF RefType, FreeRed
    <3> QED BY <3>2, <3>3
  <2>2. CASE c \notin Linked(p, i)
    <3> DEFINE r == WithChild(p, i, c)
    <3>1. /\ red[c] = FreeRed /\ c # p
          /\ DOMAIN r = Reds
          /\ \A m \in Reds :
               /\ DOMAIN r[m] = DOMAIN FreeRed
               /\ r[m].mutable \in BOOLEAN
               /\ r[m].first \subseteq Reds
               /\ r[m].parent = IF m = c THEN p ELSE red[m].parent
               /\ r[m].rc = IF m = c THEN 1 ELSE IF m = p THEN red[m].rc + 1 ELSE red[m].rc
      BY <1>2, <1>4, <1>5, <1>6, <2>2, FreshChild
    <3>2. c # n /\ red[c].rc = 0 /\ red[c].parent = NULL
      BY <1>6, <3>1 DEF FreeRed
    <3>3. /\ red' = [r EXCEPT ![n].rc = @ - 1]
          /\ dying' = IF r[n].rc = 1 THEN n ELSE NULL
      BY <1>3
    <3> HIDE DEF r
    <3>4. /\ DOMAIN red' = Reds
          /\ \A m \in Reds :
               /\ DOMAIN red'[m] = DOMAIN FreeRed
               /\ red'[m].mutable = r[m].mutable
               /\ red'[m].first = r[m].first
               /\ red'[m].parent = r[m].parent
               /\ red'[m].rc = IF m = n THEN r[m].rc - 1 ELSE r[m].rc
      BY <1>1, <3>1, <3>3 DEF FreeRed
    <3>5. \A m \in Reds : Recounts(h, c, c, m)
      <4>1. red[c].parent = NULL /\ red'[c].parent = p /\ n \in Reds /\ p # NULL /\ c # n
            /\ red[c].rc = 0
        BY <1>1, <1>4, <3>1, <3>2, <3>4, RedsAssumption
      <4>2. \A m \in Reds : red[m].rc \in Nat
        BY <1>5 DEF RefType
      <4> HIDE DEF n, p
      <4>3. ASSUME NEW m \in Reds
            PROVE  red'[m].rc = red[m].rc - One(n = m) + One(c = m) - One(NULL = m) + One(p = m)
        <5>1. red'[m].rc = (IF m = c THEN 1 ELSE IF m = p THEN red[m].rc + 1 ELSE red[m].rc)
                           - (IF m = n THEN 1 ELSE 0)
          BY <3>1, <3>4, <4>2
        <5>2. m # NULL
          BY RedsAssumption
        <5> QED BY <3>1, <4>1, <4>2, <5>1, <5>2 DEF One
      <4> QED BY <4>1, <4>3 DEF n, Recounts
    <3>6. Redirects(h, c, c)
      <4>1. \A m \in Reds : /\ red'[m].mutable \in BOOLEAN /\ red'[m].first \subseteq Reds
                            /\ red'[m].parent \in RedOrNull
                            /\ m # c => red'[m].parent = red[m].parent
        BY <1>4, <1>5, <3>1, <3>4 DEF RefType, RedOrNull
      <4>2. dying' \in RedOrNull
        BY <1>1, <3>3 DEF RedOrNull
      <4>3. UNCHANGED <<spine, todo, stolen, forgotten>> /\ handle' = [handle EXCEPT ![h] = c]
        BY <1>1, <1>2
      <4>4. DOMAIN red' = Reds /\ \A m \in Reds : DOMAIN red'[m] = DOMAIN FreeRed
        BY <3>4
      <4> QED BY <3>5, <4>1, <4>2, <4>3, <4>4 DEF Redirects
    <3>7. dying' # NULL => red'[dying'].rc = 0
      BY <1>1, <3>3, <3>4
    <3> QED BY <3>6, <3>7
  <2> QED BY <2>1, <2>2
<1>8. RefType' /\ RcExact'
  BY <1>7, UserStepCounts DEF RedOrNull
<1>9. Accounted'
  BY <1>1, <1>7, IdleAccounted DEF CountInv
<1> QED BY <1>8, <1>9 DEF CountInv

LEMMA StepInPlaceCounts ==
  ASSUME CountInv, NEW h \in Handles, NEW K, StepInPlace(h, K)
  PROVE  CountInv'
<1> DEFINE n == handle[h]
<1>1. /\ n \in Reds /\ Idle
      /\ UNCHANGED <<handle, spine, dying, todo, stolen, forgotten>>
  BY DEF StepInPlace, Steps, User, CountInv, RefType, RedOrNull
<1>2. PICK i : red' = [red EXCEPT ![n].index = i,
                                  ![n].offset = ChildOffset(red[n].parent, i),
                                  ![n].green = Kid(heap, red[red[n].parent].green, i)]
  BY DEF StepInPlace
<1>3. Redirects(h, n, n)
  BY <1>1, <1>2, RedsAssumption DEF Redirects, Recounts, CountInv, RefType, FreeRed, RedOrNull, One
<1>4. RefType' /\ RcExact'
  BY <1>1, <1>3, UserStepCounts DEF RedOrNull
<1>5. Accounted'
  BY <1>1, IdleHolds, IdleAccounted DEF CountInv
<1> QED BY <1>4, <1>5 DEF CountInv

(* The sole reference to a red is a handle: no loop holds one, none is forgotten. *)
LEMMA SoleHandle ==
  ASSUME CountInv, NEW h \in Handles, handle[h] \in Reds, red[handle[h]].rc = 1
  PROVE  Held(handle[h]) = 0 /\ ChildrenOf(handle[h]) = {}
<1> DEFINE n == handle[h]
<1>1. red[n].rc = Cardinality(Owners(n)) + Cardinality(ChildrenOf(n)) + Held(n)
  BY DEF CountInv, RcExact
<1>2. IsFiniteSet(Owners(n)) /\ IsFiniteSet(ChildrenOf(n)) /\ Owners(n) # {}
  BY HandlesAssumption, RedsAssumption, FS_Subset DEF Owners, ChildrenOf
<1>3. /\ Cardinality(Owners(n)) \in Nat /\ Cardinality(ChildrenOf(n)) \in Nat
      /\ Cardinality(Owners(n)) # 0
  BY <1>2, FS_CardinalityType, FS_EmptySet
<1>4. Held(n) \in Nat
  BY DEF Held, One
<1>5. Held(n) = 0 /\ Cardinality(ChildrenOf(n)) = 0
  BY <1>1, <1>3, <1>4
<1> QED BY <1>2, <1>5, FS_EmptySet

LEMMA StepOffRootCounts ==
  ASSUME CountInv, NEW h \in Handles, NEW K, StepOffRoot(h, K)
  PROVE  CountInv'
<1> DEFINE n == handle[h]
<1>1. /\ n \in Reds /\ Idle
      /\ UNCHANGED <<red, spine, dying, todo, stolen>>
      /\ handle' = [handle EXCEPT ![h] = NULL]
      /\ forgotten' = forgotten \cup {n}
      /\ red[n].rc = 1
  BY DEF StepOffRoot, Steps, User, CanTakePtr, CountInv, RefType, RedOrNull
<1>2. Held(n) = 0
  BY <1>1, SoleHandle
<1>3. n \notin forgotten
  BY <1>2 DEF Held, One
<1>4. ASSUME NEW m \in Reds  PROVE Held(m)' = Held(m) + One(n = m)
  BY <1>1, <1>3 DEF Held, One
<1>5. RefType'
  BY <1>1 DEF CountInv, RefType, RedOrNull
<1>6. RcExact'
  <2>1. \A k \in Handles : k # h => handle'[k] = handle[k]
    BY <1>1 DEF CountInv, RefType
  <2>2. handle'[h] = NULL
    BY <1>1 DEF CountInv, RefType
  <2>3. ASSUME NEW m \in Reds
        PROVE  red'[m].rc = red[m].rc - One(handle[h] = m) + One(handle'[h] = m)
                            - One(red[n].parent = m) + One(red'[n].parent = m)
                            - Held(m) + Held(m)'
    <3>1. red[m].rc \in Nat /\ Held(m) \in Nat
      BY DEF CountInv, RefType, Held, One
    <3>2. One(handle'[h] = m) = 0
      BY <2>2, RedsAssumption DEF One
    <3>3. red'[m].rc = red[m].rc /\ red'[n].parent = red[n].parent
      BY <1>1
    <3>4. One(n = m) \in Nat /\ One(red[n].parent = m) \in Nat
      BY DEF One
    <3> HIDE DEF Held, One
    <3> QED BY <1>4, <3>1, <3>2, <3>3, <3>4
  <2> QED BY <1>1, <2>1, <2>3, CountsFollow DEF CountInv
<1>7. Accounted'
  BY <1>1, IdleHolds, IdleAccounted DEF CountInv
<1> QED BY <1>5, <1>6, <1>7 DEF CountInv

LEMMA ToNextSiblingCounts ==
  ASSUME CountInv, NEW h \in Handles, NEW K, ToNextSibling(h, K)
  PROVE  CountInv'
<1>1. CASE StepOffEnd(h, K)
  BY <1>1, DropCounts DEF StepOffEnd, Steps, User
<1> QED
  BY <1>1, SharedHops, HopCounts, StepInPlaceCounts, StepOffRootCounts DEF ToNextSibling

-----------------------------------------------------------------------------
(***************************************************************************)
(* RefType and RcExact after a step that changes no handle, gives the red  *)
(* c a new parent and changes the counts as the references change.         *)
(***************************************************************************)
Rearranges(c) ==
  /\ UNCHANGED <<handle, forgotten>>
  /\ DOMAIN spine' = {"node", "green", "release"}
  /\ spine'.node \in RedOrNull /\ spine'.release \in RedOrNull
  /\ dying' \in RedOrNull /\ stolen' \in RedOrNull
  /\ DOMAIN todo' = DOMAIN NoTodo
  /\ todo'.stage \in {"none", "link", "drop", "clone", "replace"}
  /\ todo'.node \in RedOrNull /\ todo'.child \in RedOrNull
  /\ DOMAIN red' = Reds
  /\ \A n \in Reds :
       /\ DOMAIN red'[n] = DOMAIN FreeRed
       /\ red'[n].mutable \in BOOLEAN
       /\ red'[n].first \subseteq Reds
       /\ red'[n].parent \in RedOrNull
       /\ n # c => red'[n].parent = red[n].parent
       /\ red'[n].rc = red[n].rc - One(red[c].parent = n) + One(red'[c].parent = n)
                       - One(spine.release = n) + One(spine'.release = n)
                       - One(todo.child = n) + One(todo'.child = n)

LEMMA LoopStepCounts ==
  ASSUME CountInv, NEW c \in Reds, Rearranges(c)
  PROVE  RefType' /\ RcExact'
<1> USE DEF Rearranges
<1>1. \A b : One(b) \in Nat
  BY DEF One
<1>2. ASSUME NEW n \in Reds
      PROVE  red'[n].rc = red[n].rc - One(red[c].parent = n) + One(red'[c].parent = n)
                          - Held(n) + Held(n)'
  <2>1. /\ Held(n) = One(spine.release = n) + One(todo.child = n) + One(n \in forgotten)
        /\ Held(n)' = One(spine'.release = n) + One(todo'.child = n) + One(n \in forgotten)
    BY DEF Held, One
  <2>2. red[n].rc \in Nat
    BY DEF CountInv, RefType
  <2>3. /\ One(spine.release = n) \in Nat /\ One(spine'.release = n) \in Nat
        /\ One(todo.child = n) \in Nat /\ One(todo'.child = n) \in Nat
        /\ One(n \in forgotten) \in Nat
        /\ One(red[c].parent = n) \in Nat /\ One(red'[c].parent = n) \in Nat
    BY <1>1
  <2> QED BY <2>1, <2>2, <2>3
<1>3. RcExact'
  BY <1>2, CountsFollowLoop DEF CountInv
<1>4. \A n \in Reds : red'[n].rc \in Nat
  BY <1>3, ExactIsNat
<1> QED BY <1>3, <1>4 DEF RefType, CountInv

(***************************************************************************)
(* Detaching, alone and as the first part of attach_child.                 *)
(***************************************************************************)
LEMMA Detached ==
  ASSUME RefType, NEW n \in Reds, red[n].parent # NULL, DetachData(n)
  PROVE  /\ red[n].parent \in Reds
         /\ DOMAIN red' = Reds
         /\ \A m \in Reds :
              /\ DOMAIN red'[m] = DOMAIN FreeRed
              /\ red'[m].mutable = red[m].mutable
              /\ red'[m].first \subseteq Reds
              /\ red'[m].rc = red[m].rc
              /\ red'[m].parent = IF m = n THEN NULL ELSE red[m].parent
         /\ \E a \in Greens : spine' = [node |-> red[n].parent, green |-> a, release |-> red[n].parent]
<1> DEFINE p == red[n].parent
           s == Adjust(red, red[p].first, red[n].index + 1, -1)
<1>1. p \in Reds
  BY DEF RefType, RedOrNull
<1>2. /\ DOMAIN s = Reds
      /\ \A m \in Reds : /\ DOMAIN s[m] = DOMAIN FreeRed
                         /\ s[m].mutable = red[m].mutable
                         /\ s[m].first \subseteq Reds
                         /\ s[m].rc = red[m].rc
                         /\ s[m].parent = red[m].parent
  BY DEF Adjust, RefType, FreeRed
<1>3. red' = [Unlink(s, p, n) EXCEPT ![n].parent = NULL]
  BY DEF DetachData
<1> HIDE DEF s
<1>4. /\ DOMAIN Unlink(s, p, n) = Reds
      /\ \A m \in Reds : /\ DOMAIN Unlink(s, p, n)[m] = DOMAIN FreeRed
                         /\ Unlink(s, p, n)[m].mutable = s[m].mutable
                         /\ Unlink(s, p, n)[m].first \subseteq Reds
                         /\ Unlink(s, p, n)[m].rc = s[m].rc
                         /\ Unlink(s, p, n)[m].parent = s[m].parent
  BY <1>1, <1>2 DEF Unlink, FreeRed
<1>5. \E a \in Greens : spine' = [node |-> p, green |-> a, release |-> p]
  BY DEF DetachData, NextGreen, Lowest, FreeGreens
<1> QED BY <1>1, <1>2, <1>3, <1>4, <1>5 DEF FreeRed

LEMMA DetachCounts ==
  ASSUME CountInv, NEW h \in Handles, Detach(h)
  PROVE  CountInv'
<1> DEFINE n == handle[h]
           p == red[n].parent
<1>1. /\ Idle /\ n \in Reds /\ p # NULL /\ DetachData(n)
      /\ UNCHANGED <<handle, dying, todo, stolen, forgotten>>
  BY DEF Detach, User, CountInv, RefType, RedOrNull
<1>2. /\ p \in Reds
      /\ DOMAIN red' = Reds
      /\ \A m \in Reds :
           /\ DOMAIN red'[m] = DOMAIN FreeRed
           /\ red'[m].mutable = red[m].mutable
           /\ red'[m].first \subseteq Reds
           /\ red'[m].rc = red[m].rc
           /\ red'[m].parent = IF m = n THEN NULL ELSE red[m].parent
      /\ \E a \in Greens : spine' = [node |-> p, green |-> a, release |-> p]
  BY <1>1, Detached DEF CountInv
<1>3. dying = NULL /\ spine.release = NULL /\ todo.stage = "none"
  BY <1>1, IdleHolds
<1>4. \A m \in Reds :
        red'[m].rc = red[m].rc - One(red[n].parent = m) + One(red'[n].parent = m)
                     - One(spine.release = m) + One(spine'.release = m)
                     - One(todo.child = m) + One(todo'.child = m)
  <2> SUFFICES ASSUME NEW m \in Reds
               PROVE  red'[m].rc = red[m].rc - One(red[n].parent = m) + One(red'[n].parent = m)
                                   - One(spine.release = m) + One(spine'.release = m)
                                   - One(todo.child = m) + One(todo'.child = m)
    OBVIOUS
  <2>1. red'[m].rc = red[m].rc /\ red[m].rc \in Nat
    BY <1>2 DEF CountInv, RefType
  <2>2. spine'.release = p /\ red'[n].parent = NULL /\ todo' = todo
    BY <1>1, <1>2
  <2>3. One(red'[n].parent = m) = 0 /\ One(spine.release = m) = 0
    BY <1>3, <2>2, RedsAssumption DEF One
  <2>4. One(p = m) \in Nat /\ One(todo.child = m) \in Nat
    BY DEF One
  <2> QED BY <2>1, <2>2, <2>3, <2>4
<1>5. Rearranges(n)
  <2>1. /\ DOMAIN spine' = {"node", "green", "release"}
        /\ spine'.node \in RedOrNull /\ spine'.release \in RedOrNull
    BY <1>2 DEF RedOrNull
  <2>2. ASSUME NEW m \in Reds
        PROVE  red'[m].parent \in RedOrNull /\ red'[m].mutable \in BOOLEAN
    BY <1>2 DEF CountInv, RefType, RedOrNull
  <2> QED
    BY <1>1, <1>2, <1>4, <2>1, <2>2 DEF Rearranges, CountInv, RefType, RedOrNull
<1>6. RefType' /\ RcExact'
  BY <1>1, <1>5, LoopStepCounts
<1>7. Accounted'
  BY <1>1, <1>2, <1>3, RedsAssumption DEF Accounted, CountInv
<1> QED BY <1>6, <1>7 DEF CountInv

LEMMA AttachChildCounts ==
  ASSUME CountInv, NEW h \in Handles, NEW i, NEW c \in Handles, AttachChild(h, i, c)
  PROVE  CountInv'
<1> DEFINE n == handle[h]
           m == handle[c]
           p == red[m].parent
<1>1. /\ Idle /\ n \in Reds /\ m \in Reds
      /\ todo' = [stage |-> "link", node |-> n, index |-> i, child |-> m]
      /\ handle' = [handle EXCEPT ![c] = NULL]
      /\ UNCHANGED <<dying, stolen, forgotten>>
  BY DEF AttachChild, User, CountInv, RefType, RedOrNull
<1>2. dying = NULL /\ spine.node = NULL /\ spine.release = NULL /\ todo.child = NULL
  BY <1>1, IdleHolds
<1>3. /\ DOMAIN red' = Reds
      /\ \A k \in Reds : /\ DOMAIN red'[k] = DOMAIN FreeRed
                         /\ red'[k].mutable \in BOOLEAN
                         /\ red'[k].first \subseteq Reds
                         /\ red'[k].rc = red[k].rc
                         /\ red'[k].parent = IF k = m THEN NULL ELSE red[k].parent
      /\ DOMAIN spine' = {"node", "green", "release"}
      /\ spine'.node \in RedOrNull /\ spine'.release \in RedOrNull
      /\ spine'.release = p
      /\ spine'.node = NULL => p = NULL
  <2>1. CASE red[m].parent # NULL /\ DetachData(m)
    <3>1. /\ p \in Reds
          /\ DOMAIN red' = Reds
          /\ \A k \in Reds :
               /\ DOMAIN red'[k] = DOMAIN FreeRed
               /\ red'[k].mutable = red[k].mutable
               /\ red'[k].first \subseteq Reds
               /\ red'[k].rc = red[k].rc
               /\ red'[k].parent = IF k = m THEN NULL ELSE red[k].parent
          /\ \E a \in Greens : spine' = [node |-> p, green |-> a, release |-> p]
      BY <1>1, <2>1, Detached DEF CountInv
    <3>2. \A k \in Reds : red'[k].mutable \in BOOLEAN
      BY <3>1 DEF CountInv, RefType
    <3>3. /\ DOMAIN spine' = {"node", "green", "release"}
          /\ spine'.node \in RedOrNull /\ spine'.release \in RedOrNull
          /\ spine'.release = p /\ spine'.node = p
      BY <3>1 DEF RedOrNull
    <3> QED BY <3>1, <3>2, <3>3
  <2>2. CASE red[m].parent = NULL /\ UNCHANGED <<heap, red, spine>>
    BY <1>1, <1>2, <2>2 DEF CountInv, RefType
  <2> QED BY <2>1, <2>2 DEF AttachChild
<1>4. RcExact'
  <2>1. \A k \in Handles : k # c => handle'[k] = handle[k]
    BY <1>1 DEF CountInv, RefType
  <2>2. handle'[c] = NULL
    BY <1>1 DEF CountInv, RefType
  <2>3. ASSUME NEW k \in Reds
        PROVE  red'[k].rc = red[k].rc - One(handle[c] = k) + One(handle'[c] = k)
                            - One(red[m].parent = k) + One(red'[m].parent = k)
                            - Held(k) + Held(k)'
    <3>1. red'[k].rc = red[k].rc /\ red[k].rc \in Nat
      BY <1>3 DEF CountInv, RefType
    <3>2. /\ One(handle'[c] = k) = 0 /\ One(red'[m].parent = k) = 0
          /\ One(spine.release = k) = 0 /\ One(todo.child = k) = 0
      <4>1. red'[m].parent = NULL /\ k # NULL
        BY <1>1, <1>3, RedsAssumption
      <4> QED BY <1>2, <2>2, <4>1 DEF One
    <3>3. /\ Held(k) = One(spine.release = k) + One(todo.child = k) + One(k \in forgotten)
          /\ Held(k)' = One(p = k) + One(m = k) + One(k \in forgotten)
      BY <1>1, <1>3 DEF Held, One
    <3>4. One(p = k) \in Nat /\ One(m = k) \in Nat /\ One(k \in forgotten) \in Nat
      BY DEF One
    <3> QED BY <3>1, <3>2, <3>3, <3>4
  <2> QED BY <1>1, <1>3, <2>1, <2>3, CountsFollow DEF CountInv
<1>5. RefType'
  <2>1. /\ DOMAIN todo' = DOMAIN NoTodo /\ todo'.stage = "link"
        /\ todo'.node = n /\ todo'.child = m
    BY <1>1 DEF NoTodo
  <2>2. \A k \in Reds : red'[k].rc \in Nat /\ red'[k].parent \in RedOrNull
    BY <1>3 DEF CountInv, RefType, RedOrNull
  <2>3. handle' \in [Handles -> RedOrNull]
    BY <1>1 DEF CountInv, RefType, RedOrNull
  <2> QED BY <1>1, <1>3, <2>1, <2>2, <2>3 DEF CountInv, RefType, RedOrNull
<1>6. Accounted'
  BY <1>1, <1>2, <1>3 DEF Accounted
<1> QED BY <1>4, <1>5, <1>6 DEF CountInv

-----------------------------------------------------------------------------
(***************************************************************************)
(* The steps of the loops.                                                 *)
(***************************************************************************)
LEMMA LinkCounts ==
  ASSUME CountInv, todo.stage = "link", dying = NULL, LinkData,
         UNCHANGED <<handle, dying, forgotten>>,
         stolen' \in RedOrNull,
         todo' = [todo EXCEPT !.stage = "drop"],
         DOMAIN spine' = {"node", "green", "release"},
         spine'.node \in RedOrNull,
         spine.release = NULL, spine'.release = NULL
  PROVE  CountInv'
<1> DEFINE n == todo.node
           m == todo.child
           s == Adjust(red, red[n].first, todo.index, 1)
<1>1. n \in Reds /\ m \in Reds /\ red[m].parent = NULL
  BY DEF CountInv, Accounted
<1>2. /\ DOMAIN s = Reds
      /\ \A k \in Reds : /\ DOMAIN s[k] = DOMAIN FreeRed
                         /\ s[k].mutable = red[k].mutable
                         /\ s[k].first = red[k].first
                         /\ s[k].rc = red[k].rc
                         /\ s[k].parent = red[k].parent
  BY DEF Adjust, CountInv, RefType, FreeRed
<1>3. red' = [s EXCEPT ![m].index = todo.index, ![m].parent = n,
                       ![n].rc = @ + 1, ![n].first = @ \cup {m}]
  BY DEF LinkData
<1> HIDE DEF s
<1>4. /\ DOMAIN red' = Reds
      /\ \A k \in Reds :
           /\ DOMAIN red'[k] = DOMAIN FreeRed
           /\ red'[k].mutable = red[k].mutable
           /\ red'[k].first \subseteq Reds
           /\ red'[k].rc = IF k = n THEN red[k].rc + 1 ELSE red[k].rc
           /\ red'[k].parent = IF k = m THEN n ELSE red[k].parent
  <2>1. /\ DOMAIN FreeRed = {"rc", "parent", "index", "green", "mutable", "offset", "first"}
        /\ \A k \in Reds : red[k].first \subseteq Reds
    BY DEF FreeRed, CountInv, RefType
  <2>2. DOMAIN red' = Reds
    BY <1>2, <1>3
  <2>3. ASSUME NEW k \in Reds
        PROVE  /\ DOMAIN red'[k] = DOMAIN FreeRed
               /\ red'[k].mutable = s[k].mutable
               /\ red'[k].first = IF k = n THEN s[k].first \cup {m} ELSE s[k].first
               /\ red'[k].rc = IF k = n THEN s[k].rc + 1 ELSE s[k].rc
               /\ red'[k].parent = IF k = m THEN n ELSE s[k].parent
    <3>1. DOMAIN s[k] = {"rc", "parent", "index", "green", "mutable", "offset", "first"}
      BY <1>2, <2>1
    <3> HIDE DEF n, m
    <3>2. CASE k = n
      BY <1>1, <1>2, <1>3, <2>1, <3>1, <3>2
    <3>3. CASE k # n
      BY <1>1, <1>2, <1>3, <2>1, <3>1, <3>3
    <3> QED BY <3>2, <3>3
  <2> HIDE DEF n, m
  <2>4. ASSUME NEW k \in Reds
        PROVE  /\ DOMAIN red'[k] = DOMAIN FreeRed
               /\ red'[k].mutable = red[k].mutable
               /\ red'[k].first \subseteq Reds
               /\ red'[k].rc = IF k = n THEN red[k].rc + 1 ELSE red[k].rc
               /\ red'[k].parent = IF k = m THEN n ELSE red[k].parent
    <3>1. /\ s[k].first = red[k].first /\ s[k].rc = red[k].rc /\ s[k].parent = red[k].parent
          /\ red[k].first \subseteq Reds /\ m \in Reds
      BY <1>1, <1>2, <2>1
    <3>2. red'[k].first \subseteq Reds
      BY <2>3, <3>1
    <3>3. red'[k].rc = IF k = n THEN red[k].rc + 1 ELSE red[k].rc
      BY <2>3, <3>1
    <3>4. red'[k].parent = IF k = m THEN n ELSE red[k].parent
      BY <2>3, <3>1
    <3>5. DOMAIN red'[k] = DOMAIN FreeRed /\ red'[k].mutable = red[k].mutable
      BY <1>2, <2>3
    <3> QED BY <3>2, <3>3, <3>4, <3>5
  <2> QED BY ONLY <2>2, <2>4
<1>5. /\ DOMAIN todo' = DOMAIN NoTodo /\ todo'.stage = "drop"
      /\ todo'.node = n /\ todo'.child = m
  BY DEF CountInv, RefType, NoTodo
<1>6. ASSUME NEW k \in Reds
      PROVE  /\ red'[k].mutable \in BOOLEAN
             /\ red'[k].parent \in RedOrNull
             /\ red'[k].rc = red[k].rc - One(red[m].parent = k) + One(red'[m].parent = k)
                             - One(spine.release = k) + One(spine'.release = k)
                             - One(todo.child = k) + One(todo'.child = k)
  <2>1. red[k].rc \in Nat /\ red'[k].mutable \in BOOLEAN /\ red'[k].parent \in RedOrNull
    BY <1>1, <1>4 DEF CountInv, RefType, RedOrNull
  <2>2. One(red[m].parent = k) = 0 /\ One(spine.release = k) = 0 /\ One(spine'.release = k) = 0
    BY <1>1, RedsAssumption DEF One
  <2>3. red'[m].parent = n /\ todo'.child = todo.child
    BY <1>1, <1>4, <1>5
  <2>4. red'[k].rc = red[k].rc + One(n = k)
    BY <1>4, <2>1 DEF One
  <2>5. One(todo.child = k) \in Nat /\ One(n = k) \in Nat
    BY DEF One
  <2> QED BY <2>1, <2>2, <2>3, <2>4, <2>5
<1>7. Rearranges(m)
  BY <1>1, <1>4, <1>5, <1>6 DEF Rearranges, CountInv, RefType, RedOrNull
<1>8. RefType' /\ RcExact'
  BY <1>1, <1>7, LoopStepCounts
<1>9. Accounted'
  BY <1>1, <1>5 DEF Accounted
<1> QED BY <1>8, <1>9 DEF CountInv

LEMMA AttachLinkCounts ==
  ASSUME CountInv, AttachLink \/ AttachPanic
  PROVE  CountInv'
<1>1. /\ todo.stage = "link" /\ LinkData
      /\ dying = NULL /\ spine = NoSpine /\ spine.release = NULL
      /\ UNCHANGED <<handle, dying, forgotten>>
      /\ todo' = [todo EXCEPT !.stage = "drop"]
  BY DEF AttachLink, AttachPanic, LoopsDone, NoSpine
<1>2. todo.node \in Reds /\ todo.child \in Reds
  BY <1>1 DEF CountInv, Accounted
<1>3. CASE AttachLink
  <2>1. PICK a \in Greens : spine' = [node |-> todo.node, green |-> a, release |-> NULL]
    BY <1>3 DEF AttachLink, NextGreen, Lowest, FreeGreens
  <2>2. stolen' \in RedOrNull
    BY <1>3 DEF AttachLink, CountInv, RefType
  <2>3. /\ DOMAIN spine' = {"node", "green", "release"}
         /\ spine'.node \in RedOrNull /\ spine'.release = NULL
    BY <1>2, <2>1 DEF RedOrNull
  <2> QED BY <1>1, <2>2, <2>3, LinkCounts
<1>4. CASE AttachPanic
  <2>1. spine' = spine /\ stolen' \in RedOrNull
    BY <1>2, <1>4 DEF AttachPanic, RedOrNull
  <2>2. /\ DOMAIN spine' = {"node", "green", "release"}
         /\ spine'.node \in RedOrNull /\ spine'.release = NULL
    BY <1>1, <2>1 DEF CountInv, RefType
  <2> QED BY <1>1, <2>1, <2>2, LinkCounts
<1> QED BY <1>3, <1>4

LEMMA AttachEndCounts ==
  ASSUME CountInv, AttachEnd
  PROVE  CountInv'
<1> DEFINE m == todo.child
<1>1. /\ m \in Reds /\ dying = NULL
      /\ spine.node = NULL /\ spine.release = NULL
      /\ todo' = NoTodo
      /\ red' = [red EXCEPT ![m].rc = @ - 1]
      /\ dying' = IF red[m].rc = 1 THEN m ELSE NULL
      /\ UNCHANGED <<handle, spine, stolen, forgotten>>
  BY DEF AttachEnd, LoopsDone, Release, NoSpine, CountInv, Accounted
<1>2. todo'.child = NULL /\ todo'.node = NULL /\ todo'.stage = "none"
  BY <1>1 DEF NoTodo
<1>3. /\ DOMAIN red' = Reds
      /\ \A k \in Reds : /\ DOMAIN red'[k] = DOMAIN FreeRed
                         /\ red'[k].mutable = red[k].mutable
                         /\ red'[k].first = red[k].first
                         /\ red'[k].rc = IF k = m THEN red[k].rc - 1 ELSE red[k].rc
                         /\ red'[k].parent = red[k].parent
  BY <1>1 DEF FreeRed, CountInv, RefType
<1>4. ASSUME NEW k \in Reds
      PROVE  red'[k].rc = red[k].rc - One(red[m].parent = k) + One(red'[m].parent = k)
                          - One(spine.release = k) + One(spine'.release = k)
                          - One(todo.child = k) + One(todo'.child = k)
  <2>1. red[k].rc \in Nat /\ k # NULL
    BY RedsAssumption DEF CountInv, RefType
  <2>2. One(spine.release = k) = 0 /\ One(spine'.release = k) = 0 /\ One(todo'.child = k) = 0
    BY <1>1, <1>2, <2>1 DEF One
  <2>3. red'[k].rc = red[k].rc - One(todo.child = k)
    BY <1>3, <2>1 DEF One
  <2>4. red'[m].parent = red[m].parent
    BY <1>1, <1>3
  <2>5. One(todo.child = k) \in Nat /\ One(red[m].parent = k) \in Nat
    BY DEF One
  <2> QED BY <2>1, <2>2, <2>3, <2>4, <2>5
<1>5. Rearranges(m)
  BY <1>1, <1>2, <1>3, <1>4 DEF Rearranges, CountInv, RefType, RedOrNull, NoTodo
<1>6. RefType' /\ RcExact'
  BY <1>1, <1>5, LoopStepCounts
<1>7. Accounted'
  BY <1>1, <1>2, <1>3 DEF Accounted
<1> QED BY <1>6, <1>7 DEF CountInv

LEMMA RespineCounts ==
  ASSUME CountInv, RespineStep
  PROVE  CountInv'
<1> DEFINE n == spine.node
           p == red[n].parent
           installed == [red EXCEPT ![n].green = spine.green]
<1>1. n \in Reds /\ UNCHANGED <<handle, todo, stolen, forgotten>>
  BY DEF RespineStep, CountInv, RefType, RedOrNull
<1>2. /\ DOMAIN installed = Reds
      /\ \A k \in Reds : /\ DOMAIN installed[k] = DOMAIN FreeRed
                         /\ installed[k].mutable = red[k].mutable
                         /\ installed[k].first = red[k].first
                         /\ installed[k].rc = red[k].rc
                         /\ installed[k].parent = red[k].parent
  BY DEF CountInv, RefType, FreeRed
<1> HIDE DEF installed
<1>3. CASE p # NULL
  <2>1. /\ red' = installed /\ UNCHANGED dying
        /\ \E a \in Greens : spine' = [spine EXCEPT !.node = p, !.green = a]
    BY <1>3 DEF RespineStep, Climb, NextGreen, Lowest, FreeGreens, installed
  <2>2. p \in Reds
    BY <1>1, <1>3 DEF CountInv, RefType, RedOrNull
  <2>3. /\ DOMAIN spine' = {"node", "green", "release"}
        /\ spine'.node \in RedOrNull /\ spine'.release \in RedOrNull
        /\ spine'.release = spine.release /\ spine'.node = p
    BY <2>1, <2>2 DEF CountInv, RefType, RedOrNull
  <2>4. ASSUME NEW k \in Reds
        PROVE  red'[k].rc = red[k].rc - One(red[n].parent = k) + One(red'[n].parent = k)
                            - One(spine.release = k) + One(spine'.release = k)
                            - One(todo.child = k) + One(todo'.child = k)
    <3>1. red[k].rc \in Nat /\ red'[k].rc = red[k].rc /\ red'[n].parent = red[n].parent
      BY <1>1, <1>2, <2>1 DEF CountInv, RefType
    <3>2. /\ One(red[n].parent = k) \in Nat /\ One(spine.release = k) \in Nat
          /\ One(todo.child = k) \in Nat
      BY DEF One
    <3> QED BY <1>1, <2>3, <3>1, <3>2
  <2>5. Rearranges(n)
    BY <1>1, <1>2, <2>1, <2>3, <2>4 DEF Rearranges, CountInv, RefType
  <2>6. RefType' /\ RcExact'
    BY <1>1, <2>5, LoopStepCounts
  <2>7. Accounted'
    <3>1. \A k \in Reds : red'[k].rc = red[k].rc /\ red'[k].parent = red[k].parent
      BY <1>2, <2>1
    <3> QED BY <1>1, <2>1, <2>2, <2>3, <3>1, RedsAssumption
            DEF Accounted, CountInv, RefType, RedOrNull
  <2> QED BY <2>6, <2>7 DEF CountInv
<1>4. CASE p = NULL
  <2> DEFINE last == spine.release
  <2>1. /\ spine' = NoSpine
        /\ IF last = NULL THEN red' = installed /\ UNCHANGED dying ELSE Release(installed, last)
    BY <1>4 DEF RespineStep, installed
  <2>2. /\ DOMAIN spine' = {"node", "green", "release"}
        /\ spine'.node \in RedOrNull /\ spine'.release \in RedOrNull
        /\ spine'.node = NULL /\ spine'.release = NULL
    BY <2>1 DEF NoSpine, RedOrNull
  <2>3. last \in RedOrNull
    BY DEF CountInv, RefType
  <2>4. /\ DOMAIN red' = Reds
        /\ \A k \in Reds : /\ DOMAIN red'[k] = DOMAIN FreeRed
                           /\ red'[k].mutable = red[k].mutable
                           /\ red'[k].first = red[k].first
                           /\ red'[k].rc = IF k = last THEN red[k].rc - 1 ELSE red[k].rc
                           /\ red'[k].parent = red[k].parent
        /\ dying' = IF last = NULL THEN dying
                    ELSE IF red[last].rc = 1 THEN last ELSE NULL
    <3>1. CASE last = NULL
      BY <1>2, <2>1, <3>1, RedsAssumption
    <3>2. CASE last # NULL
      <4>1. last \in Reds
        BY <2>3, <3>2 DEF RedOrNull
      <4>2. /\ red' = [installed EXCEPT ![last].rc = @ - 1]
            /\ dying' = IF installed[last].rc = 1 THEN last ELSE NULL
        BY <2>1, <3>2 DEF Release
      <4> QED BY <1>2, <3>2, <4>1, <4>2 DEF FreeRed
    <3> QED BY <3>1, <3>2
  <2>5. ASSUME NEW k \in Reds
        PROVE  red'[k].rc = red[k].rc - One(red[n].parent = k) + One(red'[n].parent = k)
                            - One(spine.release = k) + One(spine'.release = k)
                            - One(todo.child = k) + One(todo'.child = k)
    <3>1. red[k].rc \in Nat /\ k # NULL /\ red'[n].parent = red[n].parent
      BY <1>1, <2>4, RedsAssumption DEF CountInv, RefType
    <3>2. red'[k].rc = red[k].rc - One(spine.release = k)
      BY <2>4, <3>1 DEF One
    <3>3. One(spine'.release = k) = 0
      BY <2>2, <3>1 DEF One
    <3>4. /\ One(red[n].parent = k) \in Nat /\ One(spine.release = k) \in Nat
          /\ One(todo.child = k) \in Nat
      BY DEF One
    <3> QED BY <1>1, <3>1, <3>2, <3>3, <3>4
  <2>6. dying' \in RedOrNull
    BY <2>3, <2>4 DEF CountInv, RefType, RedOrNull
  <2>7. Rearranges(n)
    BY <1>1, <2>2, <2>4, <2>5, <2>6 DEF Rearranges, CountInv, RefType
  <2>8. RefType' /\ RcExact'
    BY <1>1, <2>7, LoopStepCounts
  <2>9. Accounted'
    <3>1. dying' # NULL => red'[dying'].rc = 0
      <4>1. CASE last = NULL
        <5>1. dying' = dying /\ (dying # NULL => dying \in Reds /\ red[dying].rc = 0)
          BY <2>4, <4>1 DEF CountInv, Accounted, RefType, RedOrNull
        <5> QED BY <2>4, <4>1, <5>1, RedsAssumption
      <4>2. CASE last # NULL
        <5>1. last \in Reds
          BY <2>3, <4>2 DEF RedOrNull
        <5> QED BY <2>4, <4>2, <5>1
      <4> QED BY <4>1, <4>2
    <3>2. \A k \in Reds : red'[k].parent = red[k].parent
      BY <2>4
    <3>3. todo' = todo /\ ~ (todo.stage \in {"clone", "replace"})
      BY <1>1, RedsAssumption DEF Accounted, CountInv
    <3> QED BY <1>1, <2>2, <3>1, <3>2, <3>3 DEF Accounted, CountInv
  <2> QED BY <2>8, <2>9 DEF CountInv
<1> QED BY <1>3, <1>4

LEMMA FreeCounts ==
  ASSUME CountInv, FreeStep
  PROVE  CountInv'
<1> DEFINE n == dying
           p == red[n].parent
<1>1. /\ n \in Reds /\ red[n].rc = 0 /\ n # NULL
      /\ UNCHANGED <<handle, spine, todo, stolen, forgotten>>
  BY DEF FreeStep, CountInv, RefType, RedOrNull, Accounted
<1>2. p \in RedOrNull /\ p # n
  <2>1. RcExact /\ p \in RedOrNull
    BY <1>1 DEF CountInv, RefType
  <2> QED BY <1>1, <2>1, Referenced
<1>3. /\ DOMAIN red' = Reds
      /\ \A k \in Reds :
           /\ DOMAIN red'[k] = DOMAIN FreeRed
           /\ red'[k].mutable \in BOOLEAN
           /\ red'[k].first \subseteq Reds
           /\ red'[k].rc = IF k = p THEN red[k].rc - 1 ELSE red[k].rc
           /\ red'[k].parent = IF k = n THEN NULL ELSE red[k].parent
      /\ dying' = IF p # NULL /\ red[p].rc = 1 THEN p ELSE NULL
  <2>1. CASE p # NULL
    <3> DEFINE u == [Unlink(red, p, n) EXCEPT ![n] = FreeRed]
    <3>1. p \in Reds
      BY <1>2, <2>1 DEF RedOrNull
    <3>2. /\ DOMAIN u = Reds
          /\ \A k \in Reds :
               /\ DOMAIN u[k] = DOMAIN FreeRed
               /\ u[k].mutable \in BOOLEAN
               /\ u[k].first \subseteq Reds
               /\ u[k].rc = red[k].rc
               /\ u[k].parent = IF k = n THEN NULL ELSE red[k].parent
      <4>1. /\ DOMAIN Unlink(red, p, n) = Reds
            /\ \A k \in Reds :
                 /\ DOMAIN Unlink(red, p, n)[k] = DOMAIN FreeRed
                 /\ Unlink(red, p, n)[k].mutable = red[k].mutable
                 /\ Unlink(red, p, n)[k].first \subseteq Reds
                 /\ Unlink(red, p, n)[k].rc = red[k].rc
                 /\ Unlink(red, p, n)[k].parent = red[k].parent
        BY <3>1 DEF Unlink, FreeRed, CountInv, RefType
      <4>2. /\ FreeRed.mutable = FALSE
            /\ FreeRed.first = {} /\ FreeRed.rc = 0 /\ FreeRed.parent = NULL
        BY DEF FreeRed
      <4>3. \A k \in Reds : red[k].mutable \in BOOLEAN
        BY DEF CountInv, RefType
      <4> HIDE DEF FreeRed, Unlink
      <4> QED BY <1>1, <4>1, <4>2, <4>3
    <3>3. /\ red' = [u EXCEPT ![p].rc = @ - 1]
          /\ dying' = IF u[p].rc = 1 THEN p ELSE NULL
      BY <2>1 DEF FreeStep, Release
    <3> HIDE DEF u
    <3> QED BY <2>1, <3>1, <3>2, <3>3 DEF FreeRed
  <2>2. CASE p = NULL
    <3>1. red' = [red EXCEPT ![n] = FreeRed] /\ dying' = NULL
      BY <2>2 DEF FreeStep
    <3> QED BY <1>1, <2>2, <3>1, RedsAssumption DEF FreeRed, CountInv, RefType
  <2> QED BY <2>1, <2>2
<1>4. ASSUME NEW k \in Reds
      PROVE  /\ red'[k].parent \in RedOrNull
             /\ red'[k].rc = red[k].rc - One(red[n].parent = k) + One(red'[n].parent = k)
                             - One(spine.release = k) + One(spine'.release = k)
                             - One(todo.child = k) + One(todo'.child = k)
  <2>1. red[k].rc \in Nat /\ k # NULL /\ red'[k].parent \in RedOrNull
    BY <1>3, RedsAssumption DEF CountInv, RefType, RedOrNull
  <2>2. One(red'[n].parent = k) = 0
    BY <1>1, <1>3, <2>1 DEF One
  <2>3. red'[k].rc = red[k].rc - One(p = k)
    BY <1>3, <2>1 DEF One
  <2>4. /\ One(p = k) \in Nat /\ One(spine.release = k) \in Nat /\ One(todo.child = k) \in Nat
    BY DEF One
  <2> QED BY <1>1, <2>1, <2>2, <2>3, <2>4
<1>5. dying' \in RedOrNull
  BY <1>2, <1>3 DEF RedOrNull
<1>6. Rearranges(n)
  BY <1>1, <1>3, <1>4, <1>5 DEF Rearranges, CountInv, RefType
<1>7. RefType' /\ RcExact'
  BY <1>1, <1>6, LoopStepCounts
<1>8. Accounted'
  <2>1. dying' # NULL => red'[dying'].rc = 0
    <3> SUFFICES ASSUME dying' # NULL PROVE red'[dying'].rc = 0
      OBVIOUS
    <3>1. dying' = p /\ p # NULL /\ red[p].rc = 1
      BY <1>3
    <3>2. p \in Reds
      BY <1>2, <3>1 DEF RedOrNull
    <3>3. red'[p].rc = red[p].rc - 1
      BY <1>3, <3>2
    <3> QED BY <3>1, <3>3
  <2> QED BY <1>1, <1>3, <2>1 DEF Accounted, CountInv, RefType
<1> QED BY <1>7, <1>8 DEF CountInv

(* A step that touches neither reds nor references. *)
LEMMA QuietCounts ==
  ASSUME CountInv, UNCHANGED <<red, handle, spine, dying, todo, stolen, forgotten>>
  PROVE  CountInv'
<1>1. RefType'
  BY DEF CountInv, RefType
<1>2. RcExact'
  <2>1. \A n : Owners(n)' = Owners(n) /\ ChildrenOf(n)' = ChildrenOf(n) /\ Held(n)' = Held(n)
    BY DEF Owners, ChildrenOf, Held
  <2> QED BY <2>1 DEF CountInv, RcExact
<1>3. Accounted'
  BY DEF CountInv, Accounted
<1> QED BY <1>1, <1>2, <1>3 DEF CountInv

-----------------------------------------------------------------------------
(***************************************************************************)
(* clone_for_update: the root, then one red after the other, each of which *)
(* takes the one reference to its parent, and the handle in the end.       *)
(***************************************************************************)
LEMMA CloneForUpdateCounts ==
  ASSUME CountInv, NEW h \in Handles, CloneForUpdate(h)
  PROVE  CountInv'
<1>1. /\ Idle /\ handle[h] \in Reds
      /\ UNCHANGED <<handle, spine, dying, stolen, forgotten>>
  BY DEF CloneForUpdate, User, CountInv, RefType, RedOrNull
<1>2. PICK root \in Up[handle[h]], r \in NextRed :
        /\ red' = [red EXCEPT ![r] = [FreeRed EXCEPT !.rc = 1, !.green = red[root].green,
                                                     !.mutable = TRUE]]
        /\ todo' = [stage |-> "clone", node |-> handle[h], index |-> 0, child |-> r]
  BY DEF CloneForUpdate
<1>3. r \in Reds /\ r \in RedOrNull /\ red[r] = FreeRed
  BY DEF NextRed, Lowest, FreshReds, RedOrNull
<1>4. dying = NULL /\ spine.node = NULL /\ spine.release = NULL /\ todo.child = NULL
  BY <1>1, IdleHolds
<1>5. Rearranges(r)
  <2>1. ASSUME NEW k \in Reds
        PROVE  /\ red'[k].parent \in RedOrNull
               /\ red'[k].parent = red[k].parent
               /\ red'[k].rc = red[k].rc + One(r = k)
    BY <1>2, <1>3 DEF CountInv, RefType, FreeRed, RedOrNull, One
  <2>2. ASSUME NEW k \in Reds
        PROVE  red'[k].rc = red[k].rc - One(red[r].parent = k) + One(red'[r].parent = k)
                            - One(spine.release = k) + One(spine'.release = k)
                            - One(todo.child = k) + One(todo'.child = k)
    <3>1. k # NULL /\ todo'.child = r /\ red[r].parent = NULL /\ red'[r].parent = NULL
      BY <1>2, <1>3, <2>1, RedsAssumption DEF FreeRed
    <3>2. /\ One(red[r].parent = k) = 0 /\ One(red'[r].parent = k) = 0
          /\ One(spine.release = k) = 0 /\ One(spine'.release = k) = 0
          /\ One(todo.child = k) = 0
      BY <1>1, <1>4, <3>1 DEF One
    <3>3. red[k].rc \in Nat /\ One(r = k) \in Nat
      BY DEF CountInv, RefType, One
    <3> QED BY <2>1, <3>1, <3>2, <3>3
  <2>3. /\ DOMAIN red' = Reds
        /\ \A k \in Reds : /\ DOMAIN red'[k] = DOMAIN FreeRed
                           /\ red'[k].mutable \in BOOLEAN
                           /\ red'[k].first \subseteq Reds
    BY <1>2, <1>3 DEF CountInv, RefType, FreeRed
  <2>4. /\ DOMAIN todo' = DOMAIN NoTodo /\ todo'.stage = "clone"
        /\ todo'.node \in RedOrNull /\ todo'.child \in RedOrNull
    BY <1>1, <1>2, <1>3 DEF NoTodo, RedOrNull
  <2> QED BY <1>1, <2>1, <2>2, <2>3, <2>4 DEF Rearranges, CountInv, RefType
<1>6. RefType' /\ RcExact'
  BY <1>3, <1>5, LoopStepCounts
<1>7. Accounted'
  BY <1>1, <1>2, <1>3, <1>4 DEF Accounted
<1> QED BY <1>6, <1>7 DEF CountInv

LEMMA CloneStepCounts ==
  ASSUME CountInv, CloneStep
  PROVE  CountInv'
<1> DEFINE c == todo.child
<1>1. /\ todo.stage = "clone" /\ c \in Reds /\ todo.node \in Reds
      /\ dying = NULL /\ spine.node = NULL /\ spine.release = NULL
      /\ UNCHANGED <<handle, spine, dying, stolen, forgotten>>
  BY DEF CloneStep, CountInv, Accounted
<1>2. red[c].rc > 0
  <2>1. Held(c) > 0
    BY DEF Held, One
  <2> QED BY <1>1, <2>1, Referenced DEF CountInv
<1>3. PICK a \in Up[todo.node], r \in NextRed :
        /\ red' = [red EXCEPT ![r] = [ChildData(c, red[a].index) EXCEPT !.green = red[a].green],
                              ![c].first = @ \cup {r}]
        /\ todo' = [todo EXCEPT !.child = r]
  BY DEF CloneStep
<1>4. r \in Reds /\ red[r] = FreeRed /\ r # c
  BY <1>2, <1>3 DEF NextRed, Lowest, FreshReds, FreeRed
<1>5. LET data == [ChildData(c, red[a].index) EXCEPT !.green = red[a].green]
      IN  /\ DOMAIN data = DOMAIN FreeRed
          /\ data.rc = 1 /\ data.parent = c /\ data.mutable = red[c].mutable /\ data.first = {}
  BY DEF ChildData, FreeRed
<1>6. /\ DOMAIN red' = Reds
      /\ \A n \in Reds :
           /\ DOMAIN red'[n] = DOMAIN FreeRed
           /\ red'[n].mutable \in BOOLEAN
           /\ red'[n].first \subseteq Reds
           /\ red'[n].parent = IF n = r THEN c ELSE red[n].parent
           /\ red'[n].rc = IF n = r THEN 1 ELSE red[n].rc
  <2> HIDE DEF c
  <2> QED BY <1>1, <1>3, <1>4, <1>5 DEF CountInv, RefType, FreeRed
<1>7. /\ DOMAIN todo' = DOMAIN NoTodo /\ todo'.stage = "clone"
      /\ todo'.node = todo.node /\ todo'.child = r
  BY <1>1, <1>3 DEF CountInv, RefType, NoTodo
<1>8. ASSUME NEW k \in Reds
      PROVE  red'[k].rc = red[k].rc - One(red[r].parent = k) + One(red'[r].parent = k)
                          - One(spine.release = k) + One(spine'.release = k)
                          - One(todo.child = k) + One(todo'.child = k)
  <2>1. red[k].rc \in Nat /\ k # NULL /\ red[r].parent = NULL /\ red[r].rc = 0
    BY <1>4, RedsAssumption DEF CountInv, RefType, FreeRed
  <2>2. One(red[r].parent = k) = 0 /\ One(spine.release = k) = 0 /\ One(spine'.release = k) = 0
    BY <1>1, <2>1 DEF One
  <2>3. One(red'[r].parent = k) = One(c = k) /\ One(todo'.child = k) = One(r = k)
    BY <1>4, <1>6, <1>7
  <2>4. red'[k].rc = red[k].rc + One(r = k)
    BY <1>6, <2>1 DEF One
  <2>5. One(c = k) \in Nat /\ One(r = k) \in Nat
    BY DEF One
  <2> QED BY <2>1, <2>2, <2>3, <2>4, <2>5
<1>9. Rearranges(r)
  <2>1. \A n \in Reds : red'[n].parent \in RedOrNull /\ (n # r => red'[n].parent = red[n].parent)
    BY <1>1, <1>6 DEF CountInv, RefType, RedOrNull
  <2>2. todo'.node \in RedOrNull /\ todo'.child \in RedOrNull
    BY <1>1, <1>4, <1>7 DEF RedOrNull
  <2> QED BY <1>1, <1>6, <1>7, <1>8, <2>1, <2>2 DEF Rearranges, CountInv, RefType
<1>10. RefType' /\ RcExact'
  BY <1>4, <1>9, LoopStepCounts
<1>11. Accounted'
  BY <1>1, <1>4, <1>7 DEF Accounted
<1> QED BY <1>10, <1>11 DEF CountInv

LEMMA CloneEndCounts ==
  ASSUME CountInv, CloneEnd
  PROVE  CountInv'
<1> DEFINE c == todo.child
<1>1. /\ todo.stage = "clone" /\ c \in Reds
      /\ dying = NULL /\ spine.node = NULL /\ spine.release = NULL
      /\ todo' = NoTodo
      /\ UNCHANGED <<red, spine, dying, stolen, forgotten>>
  BY DEF CloneEnd, CountInv, Accounted
<1>2. PICK new \in Handles : handle[new] = NULL /\ handle' = [handle EXCEPT ![new] = c]
  BY DEF CloneEnd
<1>3. todo'.child = NULL /\ todo'.node = NULL /\ todo'.stage = "none"
  BY <1>1 DEF NoTodo
<1>4. handle' \in [Handles -> RedOrNull] /\ handle'[new] = c
      /\ \A k \in Handles : k # new => handle'[k] = handle[k]
  BY <1>1, <1>2 DEF CountInv, RefType, RedOrNull
<1>5. ASSUME NEW n \in Reds
      PROVE  red'[n].rc = red[n].rc - One(handle[new] = n) + One(handle'[new] = n)
                          - One(red[c].parent = n) + One(red'[c].parent = n)
                          - Held(n) + Held(n)'
  <2>1. red'[n].rc = red[n].rc /\ red[n].rc \in Nat /\ n # NULL /\ red'[c].parent = red[c].parent
    BY <1>1, RedsAssumption DEF CountInv, RefType
  <2>2. One(handle[new] = n) = 0 /\ One(handle'[new] = n) = One(c = n)
    BY <1>2, <1>4, <2>1 DEF One
  <2>3. Held(n) = One(c = n) + One(n \in forgotten) /\ Held(n)' = One(n \in forgotten)
    BY <1>1, <1>3, <2>1 DEF Held, One
  <2>4. One(c = n) \in Nat /\ One(n \in forgotten) \in Nat /\ One(red[c].parent = n) \in Nat
    BY DEF One
  <2> QED BY <2>1, <2>2, <2>3, <2>4
<1>6. RcExact'
  BY <1>1, <1>4, <1>5, CountsFollow DEF CountInv
<1>7. RefType'
  BY <1>1, <1>3, <1>4 DEF CountInv, RefType, NoTodo, RedOrNull
<1>8. Accounted'
  BY <1>1, <1>3 DEF Accounted, CountInv
<1> QED BY <1>6, <1>7, <1>8 DEF CountInv

(***************************************************************************)
(* replace_with touches no red and holds no reference to one.              *)
(***************************************************************************)
LEMMA ReplaceCounts ==
  ASSUME CountInv,
         \/ \E h, c \in Handles : ReplaceWith(h, c)
         \/ ReplaceStep \/ ReplaceEnd
  PROVE  CountInv'
<1>1. UNCHANGED <<red, handle, dying, stolen, forgotten>>
  BY DEF ReplaceWith, ReplaceStep, ReplaceEnd
<1>2. dying = NULL /\ spine.node = NULL /\ spine.release = NULL /\ todo.child = NULL
  BY IdleHolds DEF ReplaceWith, ReplaceStep, ReplaceEnd, User, CountInv, Accounted
<1>3. /\ DOMAIN spine' = {"node", "green", "release"}
      /\ spine'.node = NULL /\ spine'.release = NULL
  <2>1. ASSUME NEW h \in Handles, NEW c \in Handles, ReplaceWith(h, c)
        PROVE  \E a : spine' = [NoSpine EXCEPT !.green = a]
    BY <2>1 DEF ReplaceWith
  <2>2. CASE ReplaceStep
    BY <1>2, <2>2 DEF ReplaceStep, CountInv, RefType
  <2>3. CASE ReplaceEnd
    BY <2>3 DEF ReplaceEnd, NoSpine
  <2> QED BY <2>1, <2>2, <2>3 DEF NoSpine
<1>4. /\ DOMAIN todo' = DOMAIN NoTodo /\ todo'.stage \in {"none", "replace"}
      /\ todo'.node \in RedOrNull /\ todo'.child = NULL
  <2>1. ASSUME NEW h \in Handles, NEW c \in Handles, ReplaceWith(h, c)
        PROVE  \E p \in RedOrNull : todo' = [NoTodo EXCEPT !.stage = "replace", !.node = p]
    BY <2>1 DEF ReplaceWith, CountInv, RefType, RedOrNull
  <2>2. CASE ReplaceStep
    <3>1. \E p \in RedOrNull : todo' = [todo EXCEPT !.node = p]
      BY <2>2 DEF ReplaceStep, CountInv, RefType, RedOrNull
    <3>2. todo.stage = "replace"
      BY <2>2 DEF ReplaceStep
    <3> QED BY <1>2, <3>1, <3>2 DEF CountInv, RefType, NoTodo
  <2>3. CASE ReplaceEnd
    BY <2>3 DEF ReplaceEnd, NoTodo, RedOrNull
  <2> QED BY <2>1, <2>2, <2>3 DEF NoTodo
<1>5. RefType'
  BY <1>1, <1>3, <1>4 DEF CountInv, RefType, RedOrNull
<1>6. RcExact'
  <2>1. \A n \in Reds : Owners(n)' = Owners(n) /\ ChildrenOf(n)' = ChildrenOf(n) /\ Held(n)' = Held(n)
    BY <1>1, <1>2, <1>3, <1>4 DEF Owners, ChildrenOf, Held
  <2> QED BY <1>1, <2>1 DEF CountInv, RcExact
<1>7. Accounted'
  BY <1>1, <1>2, <1>3, <1>4 DEF Accounted
<1> QED BY <1>5, <1>6, <1>7 DEF CountInv

-----------------------------------------------------------------------------
(* The invariant is inductive: one case for every disjunct of Next. *)
LEMMA StepCounts ==
  ASSUME CountInv, [Next]_vars
  PROVE  CountInv'
<1>1. CASE UNCHANGED vars
  BY <1>1, QuietCounts DEF vars
<1>2. CASE Loop
  <2>1. CASE DropGreenStep
    BY <2>1, QuietCounts DEF DropGreenStep
  <2> QED
    BY <1>2, <2>1, AttachLinkCounts, AttachEndCounts, RespineCounts, FreeCounts,
       CloneStepCounts, CloneEndCounts, ReplaceCounts
    DEF Loop
<1>3. CASE Operation
  <2>1. ASSUME NEW h \in Handles, NEW mut \in BOOLEAN, NewRoot(h, mut)
        PROVE  CountInv'
    BY <2>1, NewRootDataCounts DEF NewRoot, User
  <2>2. CASE DropKept
    BY <2>2, QuietCounts DEF DropKept
  <2>3. ASSUME NEW h \in Handles, Drop(h)
        PROVE  CountInv'
    BY <2>3, DropCounts DEF Drop
  <2>4. ASSUME NEW h \in Handles, NEW K, ToNextSibling(h, K)
        PROVE  CountInv'
    BY <2>4, ToNextSiblingCounts
  <2>5. ASSUME NEW h \in Handles, NEW new \in Handles, CloneSubtree(h, new)
        PROVE  CountInv'
    BY <2>5, NewRootDataCounts DEF CloneSubtree, User
  <2>6. ASSUME NEW h \in Handles, NEW new \in Handles, Clone(h, new) \/ Parent(h, new)
        PROVE  CountInv'
    <3>1. PICK n \in Reds : Refer(n, new) /\ Idle
      BY <2>6 DEF Clone, Parent, User, CountInv, RefType, RedOrNull
    <3> QED BY <3>1, ReferCounts DEF Refer
  <2> QED
    BY <1>3, <2>1, <2>2, <2>3, <2>4, <2>5, <2>6, ChildStepCounts, DetachCounts, AttachChildCounts,
       CloneForUpdateCounts, ReplaceCounts
    DEF Operation
<1> QED BY <1>1, <1>2, <1>3 DEF Next

(***************************************************************************)
(* The references of the cursor and their counts keep their types:         *)
(* inc_rc and dec_rc never take a count below zero, and every parent       *)
(* pointer is NULL or an address of a NodeData.                            *)
(***************************************************************************)
THEOREM RefsAreTyped == Spec => []RefType
<1>1. Init => CountInv
  BY InitCounts
<1>2. CountInv /\ [Next]_vars => CountInv'
  BY StepCounts
<1>3. CountInv => RefType
  BY DEF CountInv
<1> QED BY <1>1, <1>2, <1>3, PTL DEF Spec

(***************************************************************************)
(* Whatever the user does, the count of every NodeData is at every step    *)
(* the number of its handles and children and of the references detach,    *)
(* attach_child and mem::forget hold.                                      *)
(***************************************************************************)
THEOREM CountsAreExact == Spec => []RcExact
<1>1. Init => CountInv
  BY InitCounts
<1>2. CountInv /\ [Next]_vars => CountInv'
  BY StepCounts
<1>3. CountInv => RcExact
  BY DEF CountInv
<1> QED BY <1>1, <1>2, <1>3, PTL DEF Spec

-----------------------------------------------------------------------------
(***************************************************************************)
(* Mutability.                                                             *)
(***************************************************************************)
Uniform ==
  \A n \in Reds : red[n].parent # NULL => red[red[n].parent].mutable = red[n].mutable

(***************************************************************************)
(* What attach_child is about to link belongs to mutable trees, and the    *)
(* caller still refers to the node: the loops in between cannot free it.   *)
(***************************************************************************)
LinkSafe ==
  todo.stage = "link" => /\ red[todo.node].mutable /\ red[todo.child].mutable
                         /\ \E h \in Handles : handle[h] = todo.node

MutInv == CountInv /\ Uniform /\ LinkSafe

(* The parents and the mutability of all reds but c stay. *)
SameBut(r, c) ==
  \A n \in Reds \ {c} : r[n].parent = red[n].parent /\ r[n].mutable = red[n].mutable

Childless(c) == \A n \in Reds : red[n].parent # c

(* A step that does not touch them. *)
LEMMA NothingChanges ==
  ASSUME RefType, Uniform,
         \A n \in Reds : red'[n].parent = red[n].parent /\ red'[n].mutable = red[n].mutable
  PROVE  Uniform'
BY DEF Uniform, RefType, RedOrNull

(* A step that changes them at c, which has no children or keeps its mutability. *)
LEMMA OneChanges ==
  ASSUME RefType, Uniform, NEW c \in Reds, SameBut(red', c),
         red'[c].mutable = red[c].mutable \/ Childless(c),
         red'[c].parent # NULL => red'[red'[c].parent].mutable = red'[c].mutable
  PROVE  Uniform'
<1> SUFFICES ASSUME NEW n \in Reds, red'[n].parent # NULL
             PROVE  red'[red'[n].parent].mutable = red'[n].mutable
  BY DEF Uniform
<1>1. CASE n = c
  BY <1>1
<1>2. CASE n # c
  <2>1. red'[n].parent = red[n].parent /\ red'[n].mutable = red[n].mutable
    BY <1>2 DEF SameBut
  <2>2. red[n].parent \in Reds /\ red[red[n].parent].mutable = red[n].mutable
    BY <2>1 DEF Uniform, RefType, RedOrNull
  <2>3. red'[red[n].parent].mutable = red[red[n].parent].mutable
    BY <2>2 DEF SameBut, Childless
  <2> QED BY <2>1, <2>2, <2>3
<1> QED BY <1>1, <1>2

(* A red without references has no children. *)
LEMMA UnreferencedChildless ==
  ASSUME RcExact, NEW c \in Reds, red[c].rc = 0
  PROVE  Childless(c)
BY Referenced DEF Childless

LEMMA FreshChildless ==
  ASSUME RcExact, NEW c \in NextRed
  PROVE  c \in Reds /\ red[c] = FreeRed /\ Childless(c)
<1>1. c \in Reds /\ red[c] = FreeRed
  BY DEF NextRed, Lowest, FreshReds
<1> QED BY <1>1, UnreferencedChildless DEF FreeRed

(* A fresh root. *)
LEMMA RootUniform ==
  ASSUME CountInv, Uniform, NEW r \in NextRed, NEW g, NEW mut \in BOOLEAN,
         red' = [red EXCEPT ![r] = [FreeRed EXCEPT !.rc = 1, !.green = g, !.mutable = mut]]
  PROVE  Uniform'
<1>1. r \in Reds /\ red[r] = FreeRed /\ Childless(r)
  BY FreshChildless DEF CountInv
<1>2. SameBut(red', r) /\ red'[r].parent = NULL
  BY <1>1 DEF SameBut, CountInv, RefType, FreeRed
<1> QED BY <1>1, <1>2, OneChanges DEF CountInv

(* Looking at a child. *)
LEMMA ChildUniform ==
  ASSUME CountInv, Uniform, NEW p \in Reds, red[p].rc > 0, NEW i, NEW c \in Reds, IsChild(p, i, c),
         \A n \in Reds : /\ red'[n].parent = WithChild(p, i, c)[n].parent
                         /\ red'[n].mutable = WithChild(p, i, c)[n].mutable
  PROVE  Uniform'
<1>1. CASE c \in Linked(p, i)
  <2>1. WithChild(p, i, c) = [red EXCEPT ![c].rc = @ + 1]
    BY <1>1 DEF WithChild
  <2>2. \A n \in Reds : red'[n].parent = red[n].parent /\ red'[n].mutable = red[n].mutable
    BY <2>1 DEF CountInv, RefType, FreeRed
  <2> QED BY <2>2, NothingChanges DEF CountInv
<1>2. CASE c \notin Linked(p, i)
  <2> DEFINE first == IF red[p].mutable THEN red[p].first \cup {c} ELSE red[p].first
  <2>1. red[c] = FreeRed /\ Childless(c) /\ c # p
    <3>1. c \in NextRed
      BY <1>2 DEF IsChild
    <3>2. red[c] = FreeRed /\ Childless(c)
      BY <3>1, FreshChildless DEF CountInv
    <3> QED BY <3>2 DEF FreeRed
  <2>2. WithChild(p, i, c) = [red EXCEPT ![c] = ChildData(p, i), ![p].rc = @ + 1, ![p].first = first]
    BY <1>2, <2>1 DEF WithChild, CountInv, RefType, FreeRed
  <2>3. ChildData(p, i).parent = p /\ ChildData(p, i).mutable = red[p].mutable
    BY DEF ChildData, FreeRed
  <2> HIDE DEF first
  <2>4. /\ red'[c].parent = p /\ red'[c].mutable = red[p].mutable
        /\ SameBut(red', c)
    <3>1. DOMAIN red = Reds /\ \A n \in Reds : DOMAIN red[n] = DOMAIN FreeRed
      BY DEF CountInv, RefType
    <3>2. WithChild(p, i, c)[c] = ChildData(p, i)
      BY <2>1, <2>2, <3>1
    <3>3. \A n \in Reds \ {c} : /\ WithChild(p, i, c)[n].parent = red[n].parent
                                /\ WithChild(p, i, c)[n].mutable = red[n].mutable
      BY <2>1, <2>2, <3>1 DEF FreeRed
    <3> QED BY <2>3, <3>2, <3>3 DEF SameBut
  <2>5. red'[p].mutable = red[p].mutable
    BY <2>1, <2>4 DEF SameBut
  <2> QED BY <2>1, <2>4, <2>5, OneChanges DEF CountInv
<1> QED BY <1>1, <1>2

(* A reference is dropped, after an update r that keeps parents and mutability. *)
LEMMA ReleaseUniform ==
  ASSUME RefType, Uniform, NEW r, NEW n, Release(r, n),
         DOMAIN r = Reds, \A m \in Reds : DOMAIN r[m] = DOMAIN FreeRed,
         \A m \in Reds : r[m].parent = red[m].parent /\ r[m].mutable = red[m].mutable
  PROVE  Uniform'
<1>1. \A m \in Reds : red'[m].parent = r[m].parent /\ red'[m].mutable = r[m].mutable
  BY DEF Release, FreeRed
<1> QED BY <1>1, NothingChanges

(* A detached child. *)
LEMMA DetachUniform ==
  ASSUME RefType, Uniform, NEW n \in Reds, red[n].parent # NULL, DetachData(n)
  PROVE  /\ Uniform'
         /\ \A m \in Reds : red'[m].mutable = red[m].mutable
<1> DEFINE p == red[n].parent
           shifted == Adjust(red, red[p].first, red[n].index + 1, -1)
<1>1. red' = [Unlink(shifted, p, n) EXCEPT ![n].parent = NULL]
  BY DEF DetachData
<1>2. /\ DOMAIN shifted = Reds
      /\ \A m \in Reds : /\ DOMAIN shifted[m] = DOMAIN FreeRed
                         /\ shifted[m].parent = red[m].parent
                         /\ shifted[m].mutable = red[m].mutable
  BY DEF Adjust, RefType, FreeRed
<1> HIDE DEF shifted
<1>3. /\ DOMAIN Unlink(shifted, p, n) = Reds
      /\ \A m \in Reds : /\ DOMAIN Unlink(shifted, p, n)[m] = DOMAIN FreeRed
                         /\ Unlink(shifted, p, n)[m].parent = red[m].parent
                         /\ Unlink(shifted, p, n)[m].mutable = red[m].mutable
  BY <1>2 DEF Unlink, FreeRed
<1>4. \A m \in Reds : /\ red'[m].parent = IF m = n THEN NULL ELSE red[m].parent
                      /\ red'[m].mutable = red[m].mutable
  BY <1>1, <1>3 DEF FreeRed
<1> QED BY <1>4, OneChanges DEF SameBut

(* An attached child. *)
LEMMA LinkUniform ==
  ASSUME RefType, Accounted, Uniform, LinkSafe, todo.stage = "link", LinkData
  PROVE  Uniform'
<1> DEFINE n == todo.node
           m == todo.child
           shifted == Adjust(red, red[n].first, todo.index, 1)
<1>1. /\ n \in Reds /\ m \in Reds /\ m # NULL
      /\ red[n].mutable /\ red[m].mutable
      /\ red[n].mutable \in BOOLEAN /\ red[m].mutable \in BOOLEAN
  BY RedsAssumption DEF Accounted, LinkSafe, RefType
<1>2. red' = [shifted EXCEPT ![m].index = todo.index, ![m].parent = n,
                             ![n].rc = @ + 1, ![n].first = @ \cup {m}]
  BY DEF LinkData
<1>3. /\ DOMAIN shifted = Reds
      /\ \A k \in Reds : /\ DOMAIN shifted[k] = DOMAIN FreeRed
                         /\ shifted[k].parent = red[k].parent
                         /\ shifted[k].mutable = red[k].mutable
  BY DEF Adjust, RefType, FreeRed
<1> HIDE DEF shifted, n, m
<1>4. \A k \in Reds : /\ red'[k].parent = IF k = m THEN n ELSE red[k].parent
                      /\ red'[k].mutable = red[k].mutable
  BY <1>1, <1>2, <1>3 DEF FreeRed
<1>5. red'[n].mutable = red'[m].mutable
  BY <1>1, <1>4
<1> QED BY <1>1, <1>4, <1>5, OneChanges DEF SameBut

-----------------------------------------------------------------------------
(***************************************************************************)
(* The operations of the user.                                             *)
(***************************************************************************)
LEMMA IdleLinkSafe ==
  ASSUME Idle, UNCHANGED todo
  PROVE  LinkSafe'
BY DEF Idle, NoTodo, LinkSafe

LEMMA RootMutable ==
  ASSUME CountInv, Uniform, NEW g, NEW mut \in BOOLEAN, NEW h, NewRootData(g, mut, h)
  PROVE  Uniform' /\ UNCHANGED todo
BY RootUniform DEF NewRootData

LEMMA LookMutable ==
  ASSUME CountInv, Uniform, NEW p \in Reds, red[p].rc > 0, NEW i, NEW h, NewChild(p, i, h)
  PROVE  Uniform' /\ UNCHANGED todo
BY ChildUniform DEF NewChild

LEMMA NavigateMutable ==
  ASSUME CountInv, Uniform, NEW h \in Handles, NEW K, NEW new \in Handles,
         \/ FirstChild(h, K, new) \/ LastChild(h, K, new)
         \/ NextSibling(h, K, new) \/ PrevSibling(h, K, new)
  PROVE  Uniform' /\ LinkSafe'
<1>1. handle[h] \in Reds /\ Idle
  BY DEF FirstChild, LastChild, NextSibling, PrevSibling, User, CountInv, RefType, RedOrNull
<1>2. RcExact
  BY DEF CountInv
<1>3. red[handle[h]].rc > 0
  BY <1>1, <1>2, Referenced
<1>4. CASE FirstChild(h, K, new) \/ LastChild(h, K, new)
  <2>1. PICK i : NewChild(handle[h], i, new)
    BY <1>4 DEF FirstChild, LastChild
  <2> QED BY <1>1, <1>3, <2>1, LookMutable, IdleLinkSafe
<1>5. CASE NextSibling(h, K, new) \/ PrevSibling(h, K, new)
  <2>1. PICK i : NewChild(red[handle[h]].parent, i, new) /\ red[handle[h]].parent # NULL
    BY <1>5 DEF NextSibling, PrevSibling, After, Before, Lowest, Highest
  <2>2. red[handle[h]].parent \in Reds
    BY <1>1, <2>1 DEF CountInv, RefType, RedOrNull
  <2>3. red[red[handle[h]].parent].rc > 0
    BY <1>1, <1>2, <2>2, Referenced
  <2> QED BY <1>1, <2>1, <2>2, <2>3, LookMutable, IdleLinkSafe
<1> QED BY <1>4, <1>5

LEMMA ReferMutable ==
  ASSUME CountInv, Uniform, NEW n, NEW h, Refer(n, h)
  PROVE  Uniform' /\ UNCHANGED todo
<1>1. red' = [red EXCEPT ![n].rc = @ + 1] /\ UNCHANGED todo
  BY DEF Refer
<1>2. \A m \in Reds : red'[m].parent = red[m].parent /\ red'[m].mutable = red[m].mutable
  BY <1>1 DEF CountInv, RefType, FreeRed
<1> QED BY <1>1, <1>2, NothingChanges DEF CountInv

LEMMA ReleaseMutable ==
  ASSUME CountInv, Uniform, NEW n, Release(red, n)
  PROVE  Uniform'
BY ReleaseUniform DEF CountInv, RefType

LEMMA HopMutable ==
  ASSUME CountInv, Uniform, NEW h \in Handles, NEW K, Hops(h, K)
  PROVE  Uniform' /\ LinkSafe'
<1> DEFINE n == handle[h]
           p == red[n].parent
<1>0. Idle /\ UNCHANGED todo /\ n \in Reds
  BY DEF Hops, User, CountInv, RefType, RedOrNull
<1>1. PICK i \in After(n, K), c \in Reds : IsChild(p, i, c) /\ Release(WithChild(p, i, c), n)
  BY DEF Hops
<1>2. p # NULL
  BY <1>1 DEF After
<1>3. p \in Reds /\ red[p].rc > 0
  BY <1>0, <1>2, Referenced DEF CountInv, RefType, RedOrNull
<1>4. DOMAIN WithChild(p, i, c) = Reds /\ \A m \in Reds : DOMAIN WithChild(p, i, c)[m] = DOMAIN FreeRed
  <2>1. CASE c \in Linked(p, i)
    BY <2>1 DEF WithChild, CountInv, RefType, FreeRed
  <2>2. CASE c \notin Linked(p, i)
    BY <1>1, <1>3, <2>2, FreshChild DEF CountInv
  <2> QED BY <2>1, <2>2
<1>5. \A m \in Reds : /\ red'[m].parent = WithChild(p, i, c)[m].parent
                      /\ red'[m].mutable = WithChild(p, i, c)[m].mutable
  <2> HIDE DEF n, p
  <2> QED BY <1>1, <1>4 DEF Release, FreeRed
<1> QED BY <1>0, <1>1, <1>3, <1>5, ChildUniform, IdleLinkSafe

LEMMA ToNextSiblingMutable ==
  ASSUME CountInv, Uniform, NEW h \in Handles, NEW K, ToNextSibling(h, K)
  PROVE  Uniform' /\ LinkSafe'
<1> DEFINE n == handle[h]
           p == red[n].parent
<1>1. Idle /\ UNCHANGED todo /\ n \in Reds
  BY DEF ToNextSibling, StepShared, StepInPlace, StepOffEnd, StepOffRoot, Steps, User,
         CountInv, RefType, RedOrNull
<1>2. CASE StepShared(h, K)
  BY <1>2, SharedHops, HopMutable
<1>3. CASE StepInPlace(h, K)
  <2>1. PICK i : red' = [red EXCEPT ![n].index = i,
                                    ![n].offset = ChildOffset(p, i),
                                    ![n].green = Kid(heap, red[p].green, i)]
    BY <1>3 DEF StepInPlace
  <2>2. \A m \in Reds : red'[m].parent = red[m].parent /\ red'[m].mutable = red[m].mutable
    BY <2>1 DEF CountInv, RefType, FreeRed
  <2> QED BY <1>1, <2>2, NothingChanges, IdleLinkSafe DEF CountInv
<1>4. CASE StepOffEnd(h, K)
  BY <1>1, <1>4, ReleaseMutable, IdleLinkSafe DEF StepOffEnd
<1>5. CASE StepOffRoot(h, K)
  BY <1>1, <1>5, IdleLinkSafe, NothingChanges DEF StepOffRoot, CountInv
<1> QED BY <1>2, <1>3, <1>4, <1>5 DEF ToNextSibling

LEMMA DetachMutable ==
  ASSUME CountInv, Uniform, NEW h \in Handles, Detach(h)
  PROVE  Uniform' /\ LinkSafe'
BY DetachUniform, IdleLinkSafe DEF Detach, User, CountInv, RefType, RedOrNull

LEMMA AttachChildMutable ==
  ASSUME CountInv, Uniform, NEW h \in Handles, NEW i, NEW c \in Handles, AttachChild(h, i, c)
  PROVE  Uniform' /\ LinkSafe'
<1> DEFINE n == handle[h]
           m == handle[c]
<1>1. /\ n \in Reds /\ m \in Reds /\ n # m
      /\ red[n].mutable /\ red[m].mutable
      /\ todo' = [stage |-> "link", node |-> n, index |-> i, child |-> m]
      /\ handle' = [handle EXCEPT ![c] = NULL]
  BY DEF AttachChild, CountInv, RefType, RedOrNull
<1>2. Uniform' /\ red'[n].mutable = red[n].mutable /\ red'[m].mutable = red[m].mutable
  <2>1. CASE red[m].parent # NULL /\ DetachData(m)
    BY <1>1, <2>1, DetachUniform DEF CountInv
  <2>2. CASE UNCHANGED red
    BY <2>2, NothingChanges DEF CountInv
  <2> QED BY <2>1, <2>2 DEF AttachChild
<1>3. handle'[h] = n
  BY <1>1 DEF CountInv, RefType
<1> QED BY <1>1, <1>2, <1>3 DEF LinkSafe

LEMMA CloneForUpdateMutable ==
  ASSUME CountInv, Uniform, NEW h \in Handles, CloneForUpdate(h)
  PROVE  Uniform' /\ LinkSafe'
<1>1. PICK root \in Up[handle[h]], r \in NextRed :
        /\ red' = [red EXCEPT ![r] = [FreeRed EXCEPT !.rc = 1, !.green = red[root].green,
                                                     !.mutable = TRUE]]
        /\ todo' = [stage |-> "clone", node |-> handle[h], index |-> 0, child |-> r]
  BY DEF CloneForUpdate
<1>2. Uniform'
  BY <1>1, RootUniform
<1>3. LinkSafe'
  BY <1>1 DEF LinkSafe
<1> QED BY <1>2, <1>3

LEMMA ReplaceWithMutable ==
  ASSUME CountInv, Uniform, NEW h, NEW c, ReplaceWith(h, c)
  PROVE  Uniform' /\ LinkSafe'
<1>1. UNCHANGED red /\ todo'.stage = "replace"
  BY DEF ReplaceWith, NoTodo
<1> QED BY <1>1, NothingChanges DEF LinkSafe, CountInv

LEMMA OperationMutable ==
  ASSUME MutInv, Operation
  PROVE  Uniform' /\ LinkSafe'
<1> USE DEF MutInv
<1>1. ASSUME NEW h \in Handles, NEW mut \in BOOLEAN, NewRoot(h, mut)
      PROVE  Uniform' /\ LinkSafe'
  BY <1>1, RootMutable, IdleLinkSafe DEF NewRoot, User
<1>2. CASE DropKept
  BY <1>2, NothingChanges, IdleLinkSafe DEF DropKept, CountInv
<1>3. ASSUME NEW h \in Handles, Drop(h)
      PROVE  Uniform' /\ LinkSafe'
  BY <1>3, ReleaseMutable, IdleLinkSafe DEF Drop
<1>4. ASSUME NEW h \in Handles, NEW new \in Handles, CloneSubtree(h, new)
      PROVE  Uniform' /\ LinkSafe'
  BY <1>4, RootMutable, IdleLinkSafe DEF CloneSubtree, User
<1>5. ASSUME NEW h \in Handles, NEW new \in Handles, Clone(h, new) \/ Parent(h, new)
      PROVE  Uniform' /\ LinkSafe'
  BY <1>5, ReferMutable, IdleLinkSafe DEF Clone, Parent, User
<1> QED
  BY <1>1, <1>2, <1>3, <1>4, <1>5, NavigateMutable, ToNextSiblingMutable, DetachMutable,
     AttachChildMutable, CloneForUpdateMutable, ReplaceWithMutable
  DEF Operation

-----------------------------------------------------------------------------
(***************************************************************************)
(* The loops.                                                              *)
(***************************************************************************)
LEMMA AttachLinkMutable ==
  ASSUME MutInv, AttachLink \/ AttachPanic
  PROVE  Uniform' /\ LinkSafe'
<1>1. todo.stage = "link" /\ LinkData /\ todo' = [todo EXCEPT !.stage = "drop"]
  BY DEF AttachLink, AttachPanic
<1>2. todo'.stage = "drop"
  BY <1>1 DEF MutInv, CountInv, RefType, NoTodo
<1> QED BY <1>1, <1>2, LinkUniform DEF MutInv, CountInv, LinkSafe

LEMMA AttachEndMutable ==
  ASSUME MutInv, AttachEnd
  PROVE  Uniform' /\ LinkSafe'
<1>1. Release(red, todo.child) /\ todo'.stage = "none"
  BY DEF AttachEnd, NoTodo
<1> QED BY <1>1, ReleaseMutable DEF MutInv, LinkSafe

(* The turns of respine and free leave what attach_child links alone. *)
LEMMA KeepsLinkSafe ==
  ASSUME MutInv, UNCHANGED <<todo, handle>>,
         \A n \in Reds : red[n].rc > 0 => red'[n].mutable = red[n].mutable
  PROVE  LinkSafe'
<1> SUFFICES ASSUME todo.stage = "link"
             PROVE  /\ red'[todo.node].mutable /\ red'[todo.child].mutable
                    /\ \E h \in Handles : handle[h] = todo.node
  BY DEF LinkSafe
<1>1. /\ todo.node \in Reds /\ todo.child \in Reds /\ RcExact
      /\ red[todo.node].mutable /\ red[todo.child].mutable
      /\ \E h \in Handles : handle[h] = todo.node
  BY DEF MutInv, CountInv, Accounted, LinkSafe
<1>2. Held(todo.child) > 0
  BY DEF Held, One
<1>3. red[todo.node].rc > 0 /\ red[todo.child].rc > 0
  BY <1>1, <1>2, Referenced
<1> QED BY <1>1, <1>3

LEMMA RespineMutable ==
  ASSUME MutInv, RespineStep
  PROVE  Uniform' /\ LinkSafe'
<1> DEFINE n == spine.node
           new == [red EXCEPT ![n].green = spine.green]
<1>1. /\ DOMAIN new = Reds /\ (\A m \in Reds : DOMAIN new[m] = DOMAIN FreeRed)
      /\ \A m \in Reds : new[m].parent = red[m].parent /\ new[m].mutable = red[m].mutable
  BY DEF MutInv, CountInv, RefType, FreeRed
<1>2. UNCHANGED <<todo, handle>> /\ (red' = new \/ Release(new, spine.release))
  BY DEF RespineStep
<1> HIDE DEF new
<1>3. \A m \in Reds : red'[m].parent = red[m].parent /\ red'[m].mutable = red[m].mutable
  BY <1>1, <1>2 DEF Release, FreeRed
<1> QED BY <1>2, <1>3, NothingChanges, KeepsLinkSafe DEF MutInv, CountInv

LEMMA FreeMutable ==
  ASSUME MutInv, FreeStep
  PROVE  Uniform' /\ LinkSafe'
<1> DEFINE n == dying
           p == red[n].parent
<1>1. n \in Reds /\ red[n].rc = 0 /\ UNCHANGED <<todo, handle>>
  BY DEF FreeStep, MutInv, CountInv, Accounted, RefType, RedOrNull
<1>2. Childless(n)
  BY <1>1, UnreferencedChildless DEF MutInv, CountInv
<1>3. SameBut(red', n) /\ red'[n].parent = NULL
  <2>1. CASE Release([Unlink(red, p, n) EXCEPT ![n] = FreeRed], p)
    <3> DEFINE rest == Unlink(red, p, n)
    <3>1. /\ DOMAIN rest = Reds
          /\ \A m \in Reds : /\ DOMAIN rest[m] = DOMAIN FreeRed
                             /\ rest[m].parent = red[m].parent
                             /\ rest[m].mutable = red[m].mutable
      BY DEF Unlink, MutInv, CountInv, RefType, FreeRed
    <3> HIDE DEF rest
    <3>2. red' = [[rest EXCEPT ![n] = FreeRed] EXCEPT ![p].rc = @ - 1]
      BY <2>1 DEF Release, rest
    <3> QED BY <1>1, <3>1, <3>2 DEF SameBut, FreeRed
  <2>2. CASE red' = [red EXCEPT ![n] = FreeRed]
    BY <1>1, <2>2 DEF SameBut, MutInv, CountInv, RefType, FreeRed
  <2> QED BY <2>1, <2>2 DEF FreeStep
<1>4. Uniform'
  BY <1>1, <1>2, <1>3, OneChanges DEF MutInv, CountInv
<1>5. \A m \in Reds : red[m].rc > 0 => red'[m].mutable = red[m].mutable
  BY <1>1, <1>3 DEF SameBut
<1> QED BY <1>1, <1>4, <1>5, KeepsLinkSafe

LEMMA CloneStepMutable ==
  ASSUME MutInv, CloneStep
  PROVE  Uniform' /\ LinkSafe'
<1> DEFINE c == todo.child
<1>1. c \in Reds /\ todo.stage = "clone" /\ RcExact /\ RefType /\ Uniform
  BY DEF CloneStep, MutInv, CountInv, Accounted
<1>2. PICK a \in Up[todo.node], r \in NextRed :
        /\ red' = [red EXCEPT ![r] = [ChildData(c, red[a].index) EXCEPT !.green = red[a].green],
                              ![c].first = @ \cup {r}]
        /\ todo' = [todo EXCEPT !.child = r]
  BY DEF CloneStep
<1> DEFINE data == [ChildData(c, red[a].index) EXCEPT !.green = red[a].green]
<1>3. data.parent = c /\ data.mutable = red[c].mutable /\ DOMAIN data = DOMAIN FreeRed
  BY DEF ChildData, FreeRed
<1>4. r \in Reds /\ red[r] = FreeRed /\ Childless(r)
  BY <1>1, <1>2, FreshChildless
<1>5. Held(c) > 0
  BY DEF Held, One
<1>6. r # c
  BY <1>1, <1>4, <1>5, Referenced DEF FreeRed
<1> HIDE DEF data
<1>7. red' = [red EXCEPT ![r] = data, ![c].first = @ \cup {r}]
  BY <1>2 DEF data
<1> HIDE DEF c
<1>8. SameBut(red', r) /\ red'[r].parent = c /\ red'[r].mutable = red[c].mutable
  BY <1>1, <1>3, <1>4, <1>6, <1>7 DEF SameBut, RefType, FreeRed
<1>9. red'[c].mutable = red[c].mutable
  BY <1>1, <1>6, <1>8 DEF SameBut
<1>10. Uniform'
  BY <1>1, <1>4, <1>8, <1>9, OneChanges
<1>11. todo'.stage = "clone"
  BY <1>1, <1>2 DEF RefType, NoTodo
<1> QED BY <1>10, <1>11 DEF LinkSafe

LEMMA LoopMutable ==
  ASSUME MutInv, Loop
  PROVE  Uniform' /\ LinkSafe'
<1>1. CASE DropGreenStep
  BY <1>1, NothingChanges, KeepsLinkSafe DEF DropGreenStep, MutInv, CountInv
<1>2. CASE CloneEnd \/ ReplaceEnd
  BY <1>2, NothingChanges DEF CloneEnd, ReplaceEnd, NoTodo, LinkSafe, MutInv, CountInv
<1>3. CASE ReplaceStep
  <2>1. UNCHANGED red /\ todo'.stage = "replace"
    BY <1>3 DEF ReplaceStep, MutInv, CountInv, RefType, NoTodo
  <2> QED BY <2>1, NothingChanges DEF LinkSafe, MutInv, CountInv
<1> QED
  BY <1>1, <1>2, <1>3, AttachLinkMutable, AttachEndMutable, RespineMutable, FreeMutable,
     CloneStepMutable
  DEF Loop

-----------------------------------------------------------------------------
LEMMA InitMutable == Init => MutInv
<1> SUFFICES ASSUME Init PROVE MutInv
  OBVIOUS
<1>1. CountInv
  BY InitCounts
<1>2. Uniform /\ LinkSafe
  BY DEF Init, Uniform, FreeRed, LinkSafe, NoTodo
<1> QED BY <1>1, <1>2 DEF MutInv

LEMMA StepMutable ==
  ASSUME MutInv, [Next]_vars
  PROVE  MutInv'
<1>1. CountInv'
  BY StepCounts DEF MutInv
<1>2. Uniform' /\ LinkSafe'
  <2>1. CASE UNCHANGED vars
    BY <2>1, NothingChanges, KeepsLinkSafe DEF vars, MutInv, CountInv
  <2> QED BY <2>1, OperationMutable, LoopMutable DEF Next
<1> QED BY <1>1, <1>2 DEF MutInv

(***************************************************************************)
(* Whatever is detached, attached, cloned for update or freed, and also    *)
(* within each of these, a NodeData is mutable exactly if its parent is    *)
(* (Invariants, cursor.rs).                                                *)
(***************************************************************************)
THEOREM TreesAreOneMutability == Spec => []OneMutability
<1>1. MutInv => OneMutability
  BY DEF MutInv, Uniform, OneMutability, Occupied
<1> QED BY <1>1, InitMutable, StepMutable, PTL DEF Spec

-----------------------------------------------------------------------------

(***************************************************************************)
(* The ancestors of a red, as the least set that is closed under parents.  *)
(***************************************************************************)
Closed(r, S) == \A k \in S : r[k].parent # NULL => r[k].parent \in S

Above(r, n) == {m \in Reds : \A S \in SUBSET Reds : Closed(r, S) /\ n \in S => m \in S}

(* From every set of reds some parent leads out. *)
Acyclic(r) == \A S \in SUBSET Reds : S # {} => \E k \in S : r[k].parent \notin S

Parents(r) == \A k \in Reds : r[k].parent \in RedOrNull

LEMMA AboveClosed ==
  ASSUME NEW r, Parents(r), NEW n \in Reds
  PROVE  /\ n \in Above(r, n) /\ Above(r, n) \subseteq Reds
         /\ Closed(r, Above(r, n))
         /\ \A S \in SUBSET Reds : Closed(r, S) /\ n \in S => Above(r, n) \subseteq S
         /\ \A m \in Above(r, n) : Above(r, m) \subseteq Above(r, n)
<1>1. /\ n \in Above(r, n) /\ Above(r, n) \subseteq Reds
      /\ \A S \in SUBSET Reds : Closed(r, S) /\ n \in S => Above(r, n) \subseteq S
  BY DEF Above
<1>2. Closed(r, Above(r, n))
  <2> SUFFICES ASSUME NEW k \in Above(r, n), r[k].parent # NULL
               PROVE  r[k].parent \in Above(r, n)
    BY DEF Closed
  <2>1. k \in Reds /\ r[k].parent \in Reds
    BY <1>1 DEF Parents, RedOrNull
  <2>2. ASSUME NEW S \in SUBSET Reds, Closed(r, S), n \in S
        PROVE  r[k].parent \in S
    BY <2>2 DEF Above, Closed
  <2> QED BY <2>1, <2>2 DEF Above
<1>3. \A m \in Above(r, n) : Above(r, m) \subseteq Above(r, n)
  BY <1>1, <1>2 DEF Above
<1> QED BY <1>1, <1>2, <1>3

LEMMA AboveParent ==
  ASSUME NEW r, Parents(r), NEW n \in Reds
  PROVE  Above(r, n) = IF r[n].parent = NULL THEN {n} ELSE {n} \cup Above(r, r[n].parent)
<1> DEFINE p == r[n].parent
<1>1. /\ n \in Above(r, n) /\ Above(r, n) \subseteq Reds
      /\ Closed(r, Above(r, n))
      /\ \A S \in SUBSET Reds : Closed(r, S) /\ n \in S => Above(r, n) \subseteq S
      /\ \A m \in Above(r, n) : Above(r, m) \subseteq Above(r, n)
  BY AboveClosed
<1>2. CASE p = NULL
  <2>1. Closed(r, {n})
    BY <1>2 DEF Closed
  <2> QED BY <1>1, <1>2, <2>1
<1>3. CASE p # NULL
  <2>1. p \in Reds /\ p \in Above(r, n)
    BY <1>1, <1>3 DEF Parents, RedOrNull, Closed
  <2>2. p \in Above(r, p) /\ Above(r, p) \subseteq Reds /\ Closed(r, Above(r, p))
    BY <2>1, AboveClosed
  <2>3. Closed(r, {n} \cup Above(r, p))
    BY <2>2 DEF Closed
  <2>4. Above(r, n) \subseteq {n} \cup Above(r, p)
    BY <1>1, <2>2, <2>3
  <2> QED BY <1>1, <1>3, <2>1, <2>4
<1> QED BY <1>2, <1>3

LEMMA UpIsAbove ==
  ASSUME Parents(red), Acyclic(red)
  PROVE  \A n \in Reds : Up[n] = Above(red, n)
<1> DEFINE Climb1(f) == [k \in Reds |-> IF red[k].parent = NULL THEN {k} ELSE {k} \cup f[red[k].parent]]
<1>1. Up = CHOOSE f : f = Climb1(f)
  BY DEF Up
<1>2. PICK above : above = [k \in Reds |-> Above(red, k)]
  OBVIOUS
<1>3. above = Climb1(above)
  <2>1. ASSUME NEW k \in Reds PROVE above[k] = Climb1(above)[k]
    <3>1. Above(red, k) = IF red[k].parent = NULL THEN {k} ELSE {k} \cup Above(red, red[k].parent)
      BY AboveParent
    <3>2. red[k].parent # NULL => red[k].parent \in Reds
      BY DEF Parents, RedOrNull
    <3> QED BY <1>2, <3>1, <3>2
  <2> QED BY <1>2, <2>1
<1> HIDE DEF Climb1
<1>4. Up = Climb1(Up)
  BY <1>1, <1>3
<1>5. \A n \in Reds : Up[n] = IF red[n].parent = NULL THEN {n} ELSE {n} \cup Up[red[n].parent]
  BY <1>4 DEF Climb1
<1> DEFINE Bad == {n \in Reds : Up[n] # Above(red, n)}
<1>6. Bad = {}
  <2> SUFFICES ASSUME Bad # {} PROVE FALSE
    OBVIOUS
  <2>1. PICK n \in Bad : red[n].parent \notin Bad
    BY DEF Acyclic
  <2>2. n \in Reds /\ (red[n].parent # NULL => red[n].parent \in Reds)
    BY DEF Parents, RedOrNull
  <2>3. red[n].parent # NULL => Up[red[n].parent] = Above(red, red[n].parent)
    BY <2>1, <2>2
  <2>4. Above(red, n) = IF red[n].parent = NULL THEN {n} ELSE {n} \cup Above(red, red[n].parent)
    BY <2>2, AboveParent
  <2>5. Up[n] # Above(red, n)
    BY <2>1
  <2> QED BY <1>5, <2>2, <2>3, <2>4, <2>5
<1> QED BY <1>6

(***************************************************************************)
(* In an acyclic forest the ancestors of a red differ in their depths.     *)
(***************************************************************************)
LEMMA NoCycle ==
  ASSUME NEW r, Parents(r), Acyclic(r), NEW n \in Reds, r[n].parent # NULL
  PROVE  n \notin Above(r, r[n].parent)
<1> DEFINE p == r[n].parent
           Back == {k \in Above(r, p) : n \in Above(r, k)}
<1>1. p \in Reds
  BY DEF Parents, RedOrNull
<1>2. p \in Above(r, p) /\ Above(r, p) \subseteq Reds /\ Closed(r, Above(r, p))
  BY <1>1, AboveClosed
<1> SUFFICES ASSUME n \in Above(r, p) PROVE FALSE
  OBVIOUS
<1>3. Back \in SUBSET Reds /\ Back # {}
  BY <1>2
<1>4. PICK k \in Back : r[k].parent \notin Back
  BY <1>3 DEF Acyclic
<1>5. k \in Reds /\ k \in Above(r, p) /\ n \in Above(r, k)
  BY <1>2, <1>4
<1>6. Above(r, k) = IF r[k].parent = NULL THEN {k} ELSE {k} \cup Above(r, r[k].parent)
  BY <1>5, AboveParent
<1>7. CASE n = k
  <2>1. n \in Above(r, p)
    OBVIOUS
  <2> QED BY <1>2, <1>4, <1>7, <2>1
<1>8. CASE n # k
  <2>1. r[k].parent # NULL /\ n \in Above(r, r[k].parent)
    BY <1>5, <1>6, <1>8
  <2>2. r[k].parent \in Above(r, p)
    BY <1>2, <1>5, <2>1 DEF Closed
  <2> QED BY <1>4, <2>1, <2>2
<1> QED BY <1>7, <1>8

Height(r, n) == Cardinality(Above(r, n))

LEMMA HeightParent ==
  ASSUME NEW r, Parents(r), Acyclic(r), NEW n \in Reds
  PROVE  /\ Height(r, n) \in Nat /\ Height(r, n) >= 1
         /\ r[n].parent = NULL => Height(r, n) = 1
         /\ r[n].parent # NULL => Height(r, n) = Height(r, r[n].parent) + 1
<1>1. /\ n \in Above(r, n) /\ Above(r, n) \subseteq Reds
      /\ Above(r, n) = IF r[n].parent = NULL THEN {n} ELSE {n} \cup Above(r, r[n].parent)
  BY AboveClosed, AboveParent
<1>2. IsFiniteSet(Above(r, n))
  BY <1>1, RedsAssumption, FS_Subset
<1>3. Cardinality(Above(r, n)) \in Nat /\ Cardinality(Above(r, n)) # 0
  BY <1>1, <1>2, FS_CardinalityType, FS_EmptySet
<1>4. ASSUME r[n].parent = NULL PROVE Height(r, n) = 1
  BY <1>1, <1>4, FS_Singleton DEF Height
<1>5. ASSUME r[n].parent # NULL PROVE Height(r, n) = Height(r, r[n].parent) + 1
  <2>1. r[n].parent \in Reds
    BY <1>5 DEF Parents, RedOrNull
  <2>2. n \notin Above(r, r[n].parent) /\ Above(r, r[n].parent) \subseteq Reds
    BY <1>5, <2>1, NoCycle, AboveClosed
  <2>3. IsFiniteSet(Above(r, r[n].parent))
    BY <2>2, RedsAssumption, FS_Subset
  <2>4. Above(r, n) = Above(r, r[n].parent) \cup {n}
    BY <1>1, <1>5
  <2> QED BY <2>2, <2>3, <2>4, FS_AddElement DEF Height
<1> QED BY <1>3, <1>4, <1>5 DEF Height

(* Of two ancestors of a red, one is an ancestor of the other. *)
LEMMA AboveChain ==
  ASSUME NEW r, Parents(r), NEW n \in Reds, NEW x \in Above(r, n)
  PROVE  \A y \in Above(r, n) : x \in Above(r, y) \/ y \in Above(r, x)
<1> DEFINE S == {y \in Above(r, n) : x \in Above(r, y) \/ y \in Above(r, x)}
<1>1. /\ n \in Above(r, n) /\ Above(r, n) \subseteq Reds /\ Closed(r, Above(r, n))
      /\ \A T \in SUBSET Reds : Closed(r, T) /\ n \in T => Above(r, n) \subseteq T
  BY AboveClosed
<1>2. S \in SUBSET Reds /\ n \in S /\ x \in Reds
  BY <1>1
<1>3. x \in Above(r, x) /\ Closed(r, Above(r, x))
  BY <1>2, AboveClosed
<1>4. Closed(r, S)
  <2> SUFFICES ASSUME NEW y \in S, r[y].parent # NULL PROVE r[y].parent \in S
    BY DEF Closed
  <2>1. y \in Reds /\ y \in Above(r, n) /\ r[y].parent \in Above(r, n)
    BY <1>1 DEF Closed
  <2>2. CASE y \in Above(r, x)
    BY <1>3, <2>1, <2>2 DEF Closed
  <2>3. CASE x \in Above(r, y) /\ y \notin Above(r, x)
    <3>1. Above(r, y) = {y} \cup Above(r, r[y].parent)
      BY <2>1, AboveParent
    <3>2. x # y
      BY <1>3, <2>3
    <3> QED BY <2>1, <2>3, <3>1, <3>2
  <2> QED BY <2>2, <2>3
<1> QED BY <1>1, <1>2, <1>4

LEMMA HeightTells ==
  ASSUME NEW r, Parents(r), Acyclic(r), NEW n \in Reds,
         NEW x \in Above(r, n), NEW y \in Above(r, n), Height(r, x) = Height(r, y)
  PROVE  x = y
<1>1. x \in Reds /\ y \in Reds
  BY AboveClosed
<1>2. x \in Above(r, y) \/ y \in Above(r, x)
  BY AboveChain
<1>3. ASSUME NEW u \in Reds, NEW v \in Reds, u \in Above(r, v), u # v
      PROVE  Height(r, u) < Height(r, v)
  <2>1. r[v].parent # NULL /\ u \in Above(r, r[v].parent)
    BY <1>3, AboveParent
  <2>2. r[v].parent \in Reds
    BY <2>1 DEF Parents, RedOrNull
  <2>3. Above(r, u) \subseteq Above(r, r[v].parent) /\ Above(r, r[v].parent) \subseteq Reds
    BY <2>1, <2>2, AboveClosed
  <2>4. IsFiniteSet(Above(r, r[v].parent))
    BY <2>3, RedsAssumption, FS_Subset
  <2>5. Height(r, u) <= Height(r, r[v].parent)
    BY <2>3, <2>4, FS_Subset DEF Height
  <2>6. /\ Height(r, v) = Height(r, r[v].parent) + 1
        /\ Height(r, u) \in Nat /\ Height(r, r[v].parent) \in Nat
    BY <2>1, <2>2, HeightParent
  <2> QED BY <2>5, <2>6
<1>4. Height(r, x) \in Nat /\ Height(r, y) \in Nat
  BY <1>1, HeightParent
<1> QED BY <1>1, <1>2, <1>3, <1>4

(***************************************************************************)
(* What keeps a forest acyclic, and sets of reds closed.                   *)
(***************************************************************************)
LEMMA StaysAcyclic ==
  ASSUME NEW r, NEW q, Acyclic(r), \A k \in Reds : q[k].parent \in {r[k].parent, NULL}
  PROVE  Acyclic(q)
BY RedsAssumption DEF Acyclic

LEMMA StaysClosed ==
  ASSUME NEW r, NEW q, NEW S \in SUBSET Reds, Closed(r, S),
         \A k \in Reds : q[k].parent \in {r[k].parent, NULL}
  PROVE  Closed(q, S)
BY DEF Closed

LEMMA LeafAcyclic ==
  ASSUME NEW r, NEW q, Acyclic(r), NEW c \in Reds, q[c].parent # c,
         \A k \in Reds : r[k].parent # c,
         \A k \in Reds \ {c} : q[k].parent = r[k].parent
  PROVE  Acyclic(q)
<1> SUFFICES ASSUME NEW S \in SUBSET Reds, S # {}
             PROVE  \E k \in S : q[k].parent \notin S
  BY DEF Acyclic
<1>1. CASE S = {c}
  BY <1>1
<1>2. CASE S # {c}
  <2>1. S \ {c} \in SUBSET Reds /\ S \ {c} # {}
    BY <1>2
  <2>2. PICK k \in S \ {c} : r[k].parent \notin S \ {c}
    BY <2>1 DEF Acyclic
  <2> QED BY <2>2
<1> QED BY <1>1, <1>2

LEMMA GraftAcyclic ==
  ASSUME NEW r, NEW q, Acyclic(r), NEW c \in Reds, NEW T \in SUBSET Reds,
         Closed(r, T), c \notin T, q[c].parent \in T,
         \A k \in Reds \ {c} : q[k].parent = r[k].parent
  PROVE  Acyclic(q)
<1> SUFFICES ASSUME NEW S \in SUBSET Reds, S # {}
             PROVE  \E k \in S : q[k].parent \notin S
  BY DEF Acyclic
<1>1. CASE S \cap T = {}
  <2>1. CASE c \in S
    BY <1>1, <2>1
  <2>2. CASE c \notin S
    <3>1. PICK k \in S : r[k].parent \notin S
      BY DEF Acyclic
    <3> QED BY <2>2, <3>1
  <2> QED BY <2>1, <2>2
<1>2. CASE S \cap T # {}
  <2>1. PICK k \in S \cap T : r[k].parent \notin S \cap T
    BY <1>2 DEF Acyclic
  <2>2. q[k].parent = r[k].parent
    BY <2>1
  <2>3. r[k].parent = NULL \/ r[k].parent \notin S
    BY <2>1 DEF Closed
  <2> QED BY <2>1, <2>2, <2>3, RedsAssumption
<1> QED BY <1>1, <1>2

(* A red without children is nobody's ancestor but its own. *)
LEMMA LeafAbove ==
  ASSUME NEW r, NEW q, Parents(r), Parents(q), NEW c \in Reds,
         \A k \in Reds : r[k].parent # c /\ q[k].parent # c,
         \A k \in Reds \ {c} : q[k].parent = r[k].parent
  PROVE  \A n \in Reds \ {c} : Above(q, n) = Above(r, n)
<1>1. ASSUME NEW u, NEW v, NEW n \in Reds \ {c}, Parents(u), Parents(v),
             \A k \in Reds : u[k].parent # c /\ v[k].parent # c,
             \A k \in Reds \ {c} : v[k].parent = u[k].parent
      PROVE  Above(v, n) \subseteq Above(u, n)
  <2>1. /\ n \in Above(u, n) /\ Above(u, n) \subseteq Reds /\ Closed(u, Above(u, n))
        /\ \A S \in SUBSET Reds : Closed(v, S) /\ n \in S => Above(v, n) \subseteq S
    BY <1>1, AboveClosed
  <2>2. Closed(v, Above(u, n) \ {c})
    BY <1>1, <2>1 DEF Closed
  <2> QED BY <2>1, <2>2
<1>2. \A n \in Reds \ {c} : Above(q, n) \subseteq Above(r, n)
  BY <1>1
<1>3. \A n \in Reds \ {c} : Above(r, n) \subseteq Above(q, n)
  BY <1>1
<1> QED BY <1>2, <1>3

-----------------------------------------------------------------------------
(***************************************************************************)
(* What a step does to the forest, the counts and offsets left aside: q    *)
(* are the reds after it.                                                  *)
(***************************************************************************)
Keeps(q, n) ==
  /\ q[n].parent = red[n].parent /\ q[n].index = red[n].index
  /\ q[n].green = red[n].green /\ q[n].mutable = red[n].mutable
  /\ q[n].first = red[n].first
  /\ red[n] = FreeRed => q[n] = FreeRed

Quiet(q) == \A n \in Reds : Keeps(q, n)

MakesRoot(q, c, g, mut) ==
  /\ c \in Reds /\ red[c] = FreeRed
  /\ q[c].parent = NULL /\ q[c].index = 0 /\ q[c].green = g
  /\ q[c].mutable = mut /\ q[c].first = {}
  /\ \A n \in Reds \ {c} : Keeps(q, n)

MakesChild(q, c, p, i, g) ==
  /\ c \in Reds /\ red[c] = FreeRed
  /\ p \in Reds /\ p # c /\ red[p] # FreeRed
  /\ \A d \in red[p].first : red[d].index # i
  /\ q[c].parent = p /\ q[c].index = i /\ q[c].green = g
  /\ q[c].mutable = red[p].mutable /\ q[c].first = {}
  /\ q[p].parent = red[p].parent /\ q[p].index = red[p].index
  /\ q[p].green = red[p].green /\ q[p].mutable = red[p].mutable
  /\ q[p].first = IF red[p].mutable THEN red[p].first \cup {c} ELSE red[p].first
  /\ \A n \in Reds \ {c, p} : Keeps(q, n)

(* An immutable red takes the place of a sibling. *)
Moves(q, n, i, g) ==
  /\ n \in Reds /\ ~ red[n].mutable /\ red[n] # FreeRed
  /\ q[n].parent = red[n].parent /\ q[n].mutable = red[n].mutable /\ q[n].first = red[n].first
  /\ q[n].index = i /\ q[n].green = g
  /\ \A m \in Reds \ {n} : Keeps(q, m)

Regreens(q, n, g) ==
  /\ n \in Reds
  /\ q[n].parent = red[n].parent /\ q[n].index = red[n].index
  /\ q[n].mutable = red[n].mutable /\ q[n].first = red[n].first
  /\ q[n].green = g
  /\ \A m \in Reds \ {n} : Keeps(q, m)

Detaches(q, n) ==
  LET p == red[n].parent
  IN  /\ n \in Reds /\ p \in Reds /\ red[n].mutable
      /\ \A m \in Reds :
           /\ q[m].parent = IF m = n THEN NULL ELSE red[m].parent
           /\ q[m].index = IF m \in red[p].first /\ red[m].index > red[n].index
                           THEN red[m].index - 1 ELSE red[m].index
           /\ q[m].green = red[m].green /\ q[m].mutable = red[m].mutable
           /\ q[m].first = IF m = p THEN red[m].first \ {n} ELSE red[m].first
           /\ red[m] = FreeRed => q[m] = FreeRed

Links(q, n, c, i) ==
  /\ n \in Reds /\ c \in Reds /\ n # c
  /\ red[n].mutable /\ red[c].mutable /\ red[c].parent = NULL
  /\ \A m \in Reds :
       /\ q[m].parent = IF m = c THEN n ELSE red[m].parent
       /\ q[m].index = IF m = c THEN i
                       ELSE IF m \in red[n].first /\ red[m].index >= i
                            THEN red[m].index + 1 ELSE red[m].index
       /\ q[m].green = red[m].green /\ q[m].mutable = red[m].mutable
       /\ q[m].first = IF m = n THEN red[m].first \cup {c} ELSE red[m].first
       /\ red[m] = FreeRed => q[m] = FreeRed

Frees(q, n) ==
  /\ n \in Reds /\ Childless(n) /\ q[n] = FreeRed
  /\ \A m \in Reds \ {n} :
       /\ q[m].parent = red[m].parent /\ q[m].index = red[m].index
       /\ q[m].green = red[m].green /\ q[m].mutable = red[m].mutable
       /\ q[m].first = IF m = red[n].parent THEN red[m].first \ {n} ELSE red[m].first
       /\ red[m] = FreeRed => q[m] = FreeRed

(***************************************************************************)
(* The forest: acyclic, and every list of children is exact.               *)
(***************************************************************************)
Indexed == \A n \in Reds : red[n].index \in Nat

Forested == RefType /\ RcExact /\ Uniform /\ Acyclic(red) /\ Indexed /\ LinksExact

LEMMA FreeIsChildless ==
  ASSUME RefType, RcExact, NEW c \in Reds, red[c] = FreeRed
  PROVE  Childless(c) /\ red[c].parent = NULL /\ red[c].first = {} /\ red[c].index = 0
BY UnreferencedChildless DEF FreeRed

(* The lists after a step, element by element. *)
LEMMA ListsExact ==
  ASSUME \A p, c \in Reds : c \in red'[p].first <=> red'[p].mutable /\ red'[c].parent = p,
         \A p \in Reds : red'[p].first \subseteq Reds,
         \A p, c, d \in Reds : /\ red'[p].mutable /\ red'[c].parent = p /\ red'[d].parent = p
                               /\ red'[c].index = red'[d].index
                               => c = d
  PROVE  LinksExact'
<1> SUFFICES ASSUME NEW p \in Reds
             PROVE  /\ red'[p].first = IF red'[p].mutable THEN {c \in Reds : red'[c].parent = p} ELSE {}
                    /\ \A c, d \in red'[p].first : red'[c].index = red'[d].index => c = d
  BY DEF LinksExact, ChildrenOf
<1>1. red'[p].first \subseteq Reds
  OBVIOUS
<1>2. \A c \in Reds : c \in red'[p].first <=> red'[p].mutable /\ red'[c].parent = p
  OBVIOUS
<1>3. red'[p].first = IF red'[p].mutable THEN {c \in Reds : red'[c].parent = p} ELSE {}
  BY <1>1, <1>2
<1>4. ASSUME NEW c \in red'[p].first, NEW d \in red'[p].first, red'[c].index = red'[d].index
      PROVE  c = d
  <2>1. c \in Reds /\ d \in Reds
    BY <1>1
  <2>2. red'[p].mutable /\ red'[c].parent = p /\ red'[d].parent = p
    BY <1>2, <2>1
  <2> QED BY <1>4, <2>1, <2>2
<1> QED BY <1>3, <1>4

LEMMA ListsAre ==
  ASSUME RefType, LinksExact
  PROVE  /\ \A p, c \in Reds : c \in red[p].first <=> red[p].mutable /\ red[c].parent = p
         /\ \A p, c, d \in Reds : /\ red[p].mutable /\ red[c].parent = p /\ red[d].parent = p
                                  /\ red[c].index = red[d].index
                                  => c = d
<1>1. ASSUME NEW p \in Reds
      PROVE  /\ red[p].first = IF red[p].mutable THEN {c \in Reds : red[c].parent = p} ELSE {}
             /\ \A c, d \in red[p].first : red[c].index = red[d].index => c = d
  BY DEF LinksExact, ChildrenOf
<1>2. ASSUME NEW p \in Reds, NEW c \in Reds
      PROVE  c \in red[p].first <=> red[p].mutable /\ red[c].parent = p
  BY <1>1
<1>3. ASSUME NEW p \in Reds, NEW c \in Reds, NEW d \in Reds,
             red[p].mutable, red[c].parent = p, red[d].parent = p,
             red[c].index = red[d].index
      PROVE  c = d
  <2>1. c \in red[p].first /\ d \in red[p].first
    BY <1>2, <1>3
  <2> QED BY <1>1, <1>3, <2>1
<1> QED BY <1>2, <1>3

LEMMA QuietForest ==
  ASSUME Forested, RefType', Quiet(red')
  PROVE  Acyclic(red') /\ Indexed' /\ LinksExact'
<1>1. Acyclic(red') /\ Indexed'
  BY StaysAcyclic DEF Forested, Quiet, Keeps, Indexed
<1>2. LinksExact'
  BY ListsAre, ListsExact DEF Forested, Quiet, Keeps, RefType
<1> QED BY <1>1, <1>2

LEMMA RootForest ==
  ASSUME Forested, RefType', NEW c, NEW g, NEW mut, MakesRoot(red', c, g, mut)
  PROVE  Acyclic(red') /\ Indexed' /\ LinksExact'
<1>1. c \in Reds /\ Childless(c) /\ red[c].parent = NULL /\ red[c].first = {}
  BY FreeIsChildless DEF Forested, MakesRoot
<1>2. Acyclic(red') /\ Indexed'
  BY <1>1, StaysAcyclic DEF Forested, MakesRoot, Keeps, Indexed
<1>3. \A n \in Reds : red'[n].parent = red[n].parent /\ red'[n].first = red[n].first
  BY <1>1 DEF MakesRoot, Keeps
<1>4. \A n \in Reds : n # c => red'[n].index = red[n].index /\ red'[n].mutable = red[n].mutable
  BY DEF MakesRoot, Keeps
<1>5. c \notin RedOrNull \ Reds
  BY <1>1
<1>6. \A p, d \in Reds : d \in red'[p].first <=> red'[p].mutable /\ red'[d].parent = p
  BY <1>1, <1>3, <1>4, ListsAre DEF Forested, Childless
<1>7. \A p, d, e \in Reds : /\ red'[p].mutable /\ red'[d].parent = p /\ red'[e].parent = p
                            /\ red'[d].index = red'[e].index
                            => d = e
  BY <1>1, <1>3, <1>4, ListsAre, RedsAssumption DEF Forested, Childless
<1> QED BY <1>2, <1>6, <1>7, ListsExact DEF RefType

LEMMA ChildForest ==
  ASSUME Forested, RefType', NEW c, NEW p, NEW i \in Nat, NEW g, MakesChild(red', c, p, i, g)
  PROVE  Acyclic(red') /\ Indexed' /\ LinksExact'
<1>1. /\ c \in Reds /\ Childless(c) /\ red[c].parent = NULL /\ red[c].first = {}
      /\ p \in Reds /\ p # c
  BY FreeIsChildless DEF Forested, MakesChild
<1>2. \A n \in Reds \ {c} : /\ red'[n].parent = red[n].parent
                            /\ red'[n].index = red[n].index
                            /\ red'[n].mutable = red[n].mutable
  BY DEF MakesChild, Keeps
<1>3. /\ red'[c].parent = p /\ red'[c].index = i /\ red'[c].mutable = red[p].mutable
      /\ red'[c].first = {}
      /\ red'[p].first = IF red[p].mutable THEN red[p].first \cup {c} ELSE red[p].first
      /\ \A n \in Reds \ {c, p} : red'[n].first = red[n].first
      /\ \A d \in red[p].first : red[d].index # i
  BY DEF MakesChild, Keeps
<1>4. Acyclic(red') /\ Indexed'
  BY <1>1, <1>2, <1>3, LeafAcyclic DEF Forested, Indexed, Childless
<1>5. ASSUME NEW q \in Reds, NEW d \in Reds
      PROVE  d \in red'[q].first <=> red'[q].mutable /\ red'[d].parent = q
  <2>1. d \in red[q].first <=> red[q].mutable /\ red[d].parent = q
    BY ListsAre DEF Forested
  <2>2. CASE q = c
    BY <1>1, <1>2, <1>3, <2>2 DEF Childless
  <2>3. CASE q # c
    BY <1>1, <1>2, <1>3, <2>1, <2>3, RedsAssumption
  <2> QED BY <2>2, <2>3
<1>6. ASSUME NEW q \in Reds, NEW d \in Reds, NEW e \in Reds,
             red'[q].mutable, red'[d].parent = q, red'[e].parent = q,
             red'[d].index = red'[e].index
      PROVE  d = e
  <2>1. q # c
    BY <1>1, <1>2, <1>3, <1>6 DEF Childless
  <2>2. CASE d # c /\ e # c
    BY <1>2, <1>6, <2>1, <2>2, ListsAre DEF Forested
  <2>3. ASSUME NEW x \in Reds, x # c, red'[x].parent = p, red'[p].mutable, red'[x].index = i
        PROVE  FALSE
    <3>1. x \in red[p].first
      BY <1>1, <1>2, <2>3, ListsAre DEF Forested
    <3> QED BY <1>2, <1>3, <2>3, <3>1
  <2> QED BY <1>3, <1>6, <2>2, <2>3
<1> QED BY <1>4, <1>5, <1>6, ListsExact DEF RefType

LEMMA MoveForest ==
  ASSUME Forested, RefType', NEW n, NEW i \in Nat, NEW g, Moves(red', n, i, g)
  PROVE  Acyclic(red') /\ Indexed' /\ LinksExact'
<1>1. \A m \in Reds : /\ red'[m].parent = red[m].parent /\ red'[m].mutable = red[m].mutable
                      /\ red'[m].first = red[m].first
                      /\ m # n => red'[m].index = red[m].index
  BY DEF Moves, Keeps
<1>2. n \in Reds /\ ~ red[n].mutable /\ red'[n].index = i
  BY DEF Moves
<1>3. Acyclic(red') /\ Indexed'
  BY <1>1, <1>2, StaysAcyclic DEF Forested, Indexed
<1>4. \A p \in Reds : red[n].parent = p => ~ red[p].mutable
  BY <1>2, RedsAssumption DEF Forested, Uniform
<1>5. \A p, c \in Reds : c \in red'[p].first <=> red'[p].mutable /\ red'[c].parent = p
  BY <1>1, ListsAre DEF Forested
<1>6. \A p, c, d \in Reds : /\ red'[p].mutable /\ red'[c].parent = p /\ red'[d].parent = p
                            /\ red'[c].index = red'[d].index
                            => c = d
  BY <1>1, <1>2, <1>4, ListsAre DEF Forested
<1> QED BY <1>3, <1>5, <1>6, ListsExact DEF RefType

LEMMA RegreenForest ==
  ASSUME Forested, RefType', NEW n, NEW g, Regreens(red', n, g)
  PROVE  Acyclic(red') /\ Indexed' /\ LinksExact'
<1>1. \A m \in Reds : /\ red'[m].parent = red[m].parent /\ red'[m].mutable = red[m].mutable
                      /\ red'[m].first = red[m].first /\ red'[m].index = red[m].index
  BY DEF Regreens, Keeps
<1>2. Acyclic(red') /\ Indexed'
  BY <1>1, StaysAcyclic DEF Forested, Indexed
<1> QED BY <1>1, <1>2, ListsAre, ListsExact DEF Forested, RefType

LEMMA DetachForest ==
  ASSUME Forested, RefType', NEW n, Detaches(red', n)
  PROVE  Acyclic(red') /\ Indexed' /\ LinksExact'
<1> DEFINE p == red[n].parent
<1>1. n \in Reds /\ p \in Reds /\ red[p].mutable
  BY RedsAssumption DEF Detaches, Forested, Uniform
<1>2. \A m \in Reds :
        /\ red'[m].parent = IF m = n THEN NULL ELSE red[m].parent
        /\ red'[m].index = IF m \in red[p].first /\ red[m].index > red[n].index
                           THEN red[m].index - 1 ELSE red[m].index
        /\ red'[m].mutable = red[m].mutable
        /\ red'[m].first = IF m = p THEN red[m].first \ {n} ELSE red[m].first
  BY DEF Detaches
<1>3. \A m \in Reds : red[m].index \in Nat
  BY DEF Forested, Indexed
<1>4. Acyclic(red')
  BY <1>2, StaysAcyclic DEF Forested
<1>5. Indexed'
  <2> SUFFICES ASSUME NEW m \in Reds PROVE red'[m].index \in Nat
    BY DEF Indexed
  <2>1. red[m].index \in Nat /\ red[n].index \in Nat
    BY <1>1, <1>3
  <2>2. \/ red'[m].index = red[m].index
        \/ red[m].index > red[n].index /\ red'[m].index = red[m].index - 1
    BY <1>2
  <2> QED BY <2>1, <2>2
<1>6. /\ \A q, c \in Reds : c \in red[q].first <=> red[q].mutable /\ red[c].parent = q
      /\ \A q, c, d \in Reds : /\ red[q].mutable /\ red[c].parent = q /\ red[d].parent = q
                               /\ red[c].index = red[d].index
                               => c = d
  BY ListsAre DEF Forested
<1> HIDE DEF p
<1>7. ASSUME NEW q \in Reds, NEW c \in Reds
      PROVE  c \in red'[q].first <=> red'[q].mutable /\ red'[c].parent = q
  <2>1. c \in red[q].first <=> red[q].mutable /\ red[c].parent = q
    BY <1>6
  <2>2. red'[q].mutable = red[q].mutable
    BY <1>2
  <2>3. CASE c = n
    <3>1. red'[c].parent = NULL /\ q # NULL
      BY <1>2, <2>3, RedsAssumption
    <3>2. c \notin red'[q].first
      BY <1>2, <2>1, <2>3 DEF p
    <3> QED BY <3>1, <3>2
  <2>4. CASE c # n
    <3>1. red'[c].parent = red[c].parent
      BY <1>2, <2>4
    <3>2. c \in red'[q].first <=> c \in red[q].first
      BY <1>2, <2>4
    <3> QED BY <2>1, <2>2, <3>1, <3>2
  <2> QED BY <2>3, <2>4
<1>8. ASSUME NEW q \in Reds, NEW c \in Reds, NEW d \in Reds,
             red'[q].mutable, red'[c].parent = q, red'[d].parent = q,
             red'[c].index = red'[d].index
      PROVE  c = d
  <2>1. /\ c # n /\ d # n /\ red[c].parent = q /\ red[d].parent = q /\ red[q].mutable
    BY <1>2, <1>8, RedsAssumption
  <2>2. red[c].index = red[d].index => c = d
    BY <1>6, <2>1
  <2>3. red[c].index \in Nat /\ red[d].index \in Nat /\ red[n].index \in Nat
    BY <1>1, <1>3
  <2>4. CASE q = p
    <3>1. red[c].index # red[n].index /\ red[d].index # red[n].index
      BY <1>1, <1>6, <2>1, <2>4 DEF p
    <3>2. c \in red[p].first /\ d \in red[p].first
      BY <1>1, <1>6, <2>1, <2>4
    <3>3. /\ red'[c].index = IF red[c].index > red[n].index THEN red[c].index - 1 ELSE red[c].index
          /\ red'[d].index = IF red[d].index > red[n].index THEN red[d].index - 1 ELSE red[d].index
      BY <1>2, <3>2
    <3>4. PICK x \in Nat, y \in Nat, z \in Nat :
            x = red[c].index /\ y = red[d].index /\ z = red[n].index
      BY <2>3
    <3>5. x # z /\ y # z
      BY <3>1, <3>4
    <3>6. (IF x > z THEN x - 1 ELSE x) = (IF y > z THEN y - 1 ELSE y)
      BY <1>8, <3>3, <3>4
    <3>7. x = y
      BY <3>5, <3>6
    <3> QED BY <2>2, <3>4, <3>7
  <2>5. CASE q # p
    <3>1. c \notin red[p].first /\ d \notin red[p].first
      BY <1>1, <1>6, <2>1, <2>5
    <3>2. red'[c].index = red[c].index /\ red'[d].index = red[d].index
      BY <1>2, <3>1
    <3> QED BY <1>8, <2>2, <3>2
  <2> QED BY <2>4, <2>5
<1> QED BY <1>4, <1>5, <1>7, <1>8, ListsExact DEF RefType

LEMMA LinkForest ==
  ASSUME Forested, RefType', NEW n, NEW c, NEW i \in Nat, Links(red', n, c, i),
         NEW T \in SUBSET Reds, Closed(red, T), n \in T, c \notin T
  PROVE  Acyclic(red') /\ Indexed' /\ LinksExact'
<1>1. /\ n \in Reds /\ c \in Reds /\ n # c
      /\ red[n].mutable /\ red[c].mutable /\ red[c].parent = NULL
  BY DEF Links
<1>2. \A m \in Reds :
        /\ red'[m].parent = IF m = c THEN n ELSE red[m].parent
        /\ red'[m].index = IF m = c THEN i
                           ELSE IF m \in red[n].first /\ red[m].index >= i
                                THEN red[m].index + 1 ELSE red[m].index
        /\ red'[m].mutable = red[m].mutable
        /\ red'[m].first = IF m = n THEN red[m].first \cup {c} ELSE red[m].first
  BY DEF Links
<1>3. \A m \in Reds : red[m].index \in Nat
  BY DEF Forested, Indexed
<1>4. Acyclic(red')
  BY <1>1, <1>2, GraftAcyclic DEF Forested
<1>5. Indexed'
  <2> SUFFICES ASSUME NEW m \in Reds PROVE red'[m].index \in Nat
    BY DEF Indexed
  <2>1. red'[m].index \in {i, red[m].index, red[m].index + 1}
    BY <1>2
  <2> QED BY <1>3, <2>1
<1>6. /\ \A q, d \in Reds : d \in red[q].first <=> red[q].mutable /\ red[d].parent = q
      /\ \A q, d, e \in Reds : /\ red[q].mutable /\ red[d].parent = q /\ red[e].parent = q
                               /\ red[d].index = red[e].index
                               => d = e
  BY ListsAre DEF Forested
<1>7. ASSUME NEW q \in Reds, NEW d \in Reds
      PROVE  d \in red'[q].first <=> red'[q].mutable /\ red'[d].parent = q
  <2>1. d \in red[q].first <=> red[q].mutable /\ red[d].parent = q
    BY <1>6
  <2>2. red'[q].mutable = red[q].mutable
    BY <1>2
  <2>3. CASE d = c
    <3>1. red'[d].parent = n /\ d \notin red[q].first
      BY <1>1, <1>2, <2>1, <2>3, RedsAssumption
    <3>2. d \in red'[q].first <=> q = n
      BY <1>2, <2>3, <3>1
    <3> QED BY <1>1, <2>2, <3>1, <3>2
  <2>4. CASE d # c
    <3>1. red'[d].parent = red[d].parent
      BY <1>2, <2>4
    <3>2. d \in red'[q].first <=> d \in red[q].first
      BY <1>2, <2>4
    <3> QED BY <2>1, <2>2, <3>1, <3>2
  <2> QED BY <2>3, <2>4
<1>8. ASSUME NEW q \in Reds, NEW d \in Reds, NEW e \in Reds,
             red'[q].mutable, red'[d].parent = q, red'[e].parent = q,
             red'[d].index = red'[e].index
      PROVE  d = e
  <2>1. CASE d # c /\ e # c
    <3>1. red[d].parent = q /\ red[e].parent = q /\ red[q].mutable
      BY <1>2, <1>8, <2>1
    <3>2. red[d].index = red[e].index => d = e
      BY <1>6, <3>1
    <3>3. d \in red[n].first <=> e \in red[n].first
      BY <1>1, <1>6, <3>1
    <3>4. red[d].index \in Nat /\ red[e].index \in Nat
      BY <1>3
    <3>5. CASE d \in red[n].first
      <4>1. /\ red'[d].index = IF red[d].index >= i THEN red[d].index + 1 ELSE red[d].index
            /\ red'[e].index = IF red[e].index >= i THEN red[e].index + 1 ELSE red[e].index
        BY <1>2, <2>1, <3>3, <3>5
      <4>2. PICK x \in Nat, y \in Nat : x = red[d].index /\ y = red[e].index
        BY <3>4
      <4>3. (IF x >= i THEN x + 1 ELSE x) = (IF y >= i THEN y + 1 ELSE y)
        BY <1>8, <4>1, <4>2
      <4>4. x = y
        BY <4>3
      <4> QED BY <3>2, <4>2, <4>4
    <3>6. CASE d \notin red[n].first
      <4>1. red'[d].index = red[d].index /\ red'[e].index = red[e].index
        BY <1>2, <2>1, <3>3, <3>6
      <4> QED BY <1>8, <3>2, <4>1
    <3> QED BY <3>5, <3>6
  <2>2. ASSUME NEW x \in Reds, x # c, red'[x].parent = n, red'[x].index = i
        PROVE  FALSE
    <3>1. red[x].parent = n /\ red[x].index \in Nat
      BY <1>2, <1>3, <2>2
    <3>2. x \in red[n].first
      BY <1>1, <1>6, <3>1
    <3>3. red'[x].index = IF red[x].index >= i THEN red[x].index + 1 ELSE red[x].index
      BY <1>2, <2>2, <3>2
    <3> QED BY <2>2, <3>1, <3>3
  <2> QED BY <1>1, <1>2, <1>8, <2>1, <2>2
<1> QED BY <1>4, <1>5, <1>7, <1>8, ListsExact DEF RefType

LEMMA FreeForest ==
  ASSUME Forested, RefType', NEW n, Frees(red', n)
  PROVE  Acyclic(red') /\ Indexed' /\ LinksExact'
<1>1. n \in Reds /\ Childless(n) /\ red'[n] = FreeRed
  BY DEF Frees
<1>2. red'[n].parent = NULL /\ red'[n].first = {} /\ red'[n].mutable = FALSE /\ red'[n].index = 0
  BY <1>1 DEF FreeRed
<1>3. \A m \in Reds \ {n} :
        /\ red'[m].parent = red[m].parent /\ red'[m].index = red[m].index
        /\ red'[m].mutable = red[m].mutable
        /\ red'[m].first = IF m = red[n].parent THEN red[m].first \ {n} ELSE red[m].first
  BY DEF Frees
<1>4. Acyclic(red') /\ Indexed'
  <2>1. \A m \in Reds : red'[m].parent \in {red[m].parent, NULL}
    BY <1>2, <1>3
  <2>2. \A m \in Reds : red'[m].index \in {red[m].index, 0}
    BY <1>2, <1>3
  <2> QED BY <2>1, <2>2, StaysAcyclic DEF Forested, Indexed
<1>5. ASSUME NEW q \in Reds, NEW d \in Reds
      PROVE  d \in red'[q].first <=> red'[q].mutable /\ red'[d].parent = q
  <2>1. d \in red[q].first <=> red[q].mutable /\ red[d].parent = q
    BY ListsAre DEF Forested
  <2>2. CASE q = n
    <3>1. red'[d].parent # q
      <4>1. red[d].parent # n /\ NULL # n
        BY <1>1, RedsAssumption DEF Childless
      <4> QED BY <1>2, <1>3, <2>2, <4>1
    <3> QED BY <1>2, <2>2, <3>1
  <2>3. CASE q # n /\ d = n
    <3>1. red'[d].parent # q
      BY <1>2, <2>3, RedsAssumption
    <3>2. d \notin red'[q].first
      BY <1>3, <2>1, <2>3
    <3> QED BY <3>1, <3>2
  <2>4. CASE q # n /\ d # n
    <3>1. red'[d].parent = red[d].parent /\ red'[q].mutable = red[q].mutable
      BY <1>3, <2>4
    <3>2. d \in red'[q].first <=> d \in red[q].first
      BY <1>3, <2>4
    <3> QED BY <2>1, <3>1, <3>2
  <2> QED BY <2>2, <2>3, <2>4
<1>6. ASSUME NEW q \in Reds, NEW d \in Reds, NEW e \in Reds,
             red'[q].mutable, red'[d].parent = q, red'[e].parent = q,
             red'[d].index = red'[e].index
      PROVE  d = e
  <2>1. q # n /\ d # n /\ e # n
    <3>1. q # n
      BY <1>2, <1>6
    <3>2. NULL # q
      BY RedsAssumption
    <3> QED BY <1>2, <1>6, <3>1, <3>2
  <2>2. /\ red[q].mutable /\ red[d].parent = q /\ red[e].parent = q
        /\ red[d].index = red[e].index
    BY <1>3, <1>6, <2>1
  <2> QED BY <2>2, ListsAre DEF Forested
<1> QED BY <1>4, <1>5, <1>6, ListsExact DEF RefType

-----------------------------------------------------------------------------
(***************************************************************************)
(* What each operation does to the forest.                                 *)
(***************************************************************************)
LEMMA LiveIsTaken ==
  ASSUME NEW n, red[n].rc > 0
  PROVE  red[n] # FreeRed
BY DEF FreeRed

(* A count changes: that of a red in use. *)
LEMMA CountedQuiet ==
  ASSUME RefType, NEW n \in Reds, red[n] # FreeRed, NEW k
  PROVE  Quiet([red EXCEPT ![n].rc = k])
<1> DEFINE q == [red EXCEPT ![n].rc = k]
<1>1. /\ q[n].parent = red[n].parent /\ q[n].index = red[n].index
      /\ q[n].green = red[n].green /\ q[n].mutable = red[n].mutable /\ q[n].first = red[n].first
      /\ \A m \in Reds \ {n} : q[m] = red[m]
  BY DEF RefType, FreeRed
<1> HIDE DEF q
<1>2. \A m \in Reds : Keeps(q, m)
  BY <1>1 DEF Keeps
<1> QED BY <1>2 DEF Quiet, q

(* q differs from r in the counts of reds in use. *)
Alike(q, r) ==
  \A n \in Reds :
    /\ q[n].parent = r[n].parent /\ q[n].index = r[n].index
    /\ q[n].green = r[n].green /\ q[n].mutable = r[n].mutable /\ q[n].first = r[n].first
    /\ red[n] = FreeRed => q[n] = r[n]

LEMMA ReleaseAlike ==
  ASSUME NEW r, NEW n \in Reds, Release(r, n), red[n] # FreeRed,
         DOMAIN r = Reds, \A m \in Reds : DOMAIN r[m] = DOMAIN FreeRed
  PROVE  Alike(red', r)
BY DEF Release, Alike, FreeRed

LEMMA ReleaseQuiet ==
  ASSUME RefType, NEW n \in Reds, red[n].rc > 0, Release(red, n)
  PROVE  Quiet(red')
<1>1. red[n] # FreeRed /\ red' = [red EXCEPT ![n].rc = red[n].rc - 1]
  BY LiveIsTaken DEF Release
<1> QED BY <1>1, CountedQuiet

LEMMA ReferQuiet ==
  ASSUME RefType, NEW n \in Reds, red[n].rc > 0, NEW h, Refer(n, h)
  PROVE  Quiet(red')
<1>1. red[n] # FreeRed /\ red' = [red EXCEPT ![n].rc = red[n].rc + 1]
  BY LiveIsTaken DEF Refer
<1> QED BY <1>1, CountedQuiet

LEMMA RootMade ==
  ASSUME RefType, NEW c \in NextRed, NEW g, NEW mut,
         red' = [red EXCEPT ![c] = [FreeRed EXCEPT !.rc = 1, !.green = g, !.mutable = mut]]
  PROVE  MakesRoot(red', c, g, mut)
<1> DEFINE data == [FreeRed EXCEPT !.rc = 1, !.green = g, !.mutable = mut]
<1>1. c \in Reds /\ red[c] = FreeRed
  BY DEF NextRed, Lowest, FreshReds
<1>2. /\ data.parent = NULL /\ data.index = 0 /\ data.green = g
      /\ data.mutable = mut /\ data.first = {}
  BY DEF FreeRed
<1>3. red'[c] = data /\ \A n \in Reds \ {c} : red'[n] = red[n]
  BY <1>1 DEF RefType
<1> HIDE DEF data
<1> QED BY <1>1, <1>2, <1>3 DEF MakesRoot, Keeps

LEMMA ChildMade ==
  ASSUME Forested, NEW p \in Reds, red[p].rc > 0, NEW i, NEW c \in Reds, IsChild(p, i, c),
         NEW q, Alike(q, WithChild(p, i, c))
  PROVE  Quiet(q) \/ MakesChild(q, c, p, i, Kid(heap, red[p].green, i))
<1>1. red[p] # FreeRed
  BY LiveIsTaken
<1>2. CASE c \in Linked(p, i)
  <2>1. c \in red[p].first
    BY <1>2 DEF Linked
  <2>2. red[c].parent = p
    BY <2>1, ListsAre DEF Forested
  <2>3. red[c] # FreeRed
    BY <2>2, RedsAssumption DEF FreeRed
  <2>4. WithChild(p, i, c) = [red EXCEPT ![c].rc = red[c].rc + 1]
    BY <1>2 DEF WithChild
  <2>5. Quiet(WithChild(p, i, c))
    BY <2>3, <2>4, CountedQuiet DEF Forested
  <2>6. Quiet(q)
    BY <2>5 DEF Quiet, Keeps, Alike
  <2> QED BY <2>6
<1>3. CASE c \notin Linked(p, i)
  <2> DEFINE first == IF red[p].mutable THEN red[p].first \cup {c} ELSE red[p].first
             data == ChildData(p, i)
             g == Kid(heap, red[p].green, i)
  <2>1. red[c] = FreeRed /\ c # p /\ Linked(p, i) = {}
    <3>1. red[c] = FreeRed /\ Linked(p, i) = {}
      BY <1>3 DEF IsChild, NextRed, Lowest, FreshReds
    <3> QED BY <1>1, <3>1
  <2>2. \A d \in red[p].first : red[d].index # i
    BY <2>1 DEF Linked
  <2>3. /\ data.parent = p /\ data.index = i /\ data.green = g
        /\ data.mutable = red[p].mutable /\ data.first = {}
    BY DEF ChildData, FreeRed
  <2>4. WithChild(p, i, c) = [red EXCEPT ![c] = data, ![p].rc = @ + 1, ![p].first = first]
    BY <1>3, <2>1 DEF WithChild, Forested, RefType, FreeRed
  <2> HIDE DEF first, data, g
  <2>5. /\ WithChild(p, i, c)[c] = data
        /\ \A n \in Reds \ {c, p} : WithChild(p, i, c)[n] = red[n]
    BY <2>1, <2>4 DEF Forested, RefType
  <2>6. /\ WithChild(p, i, c)[p].parent = red[p].parent
        /\ WithChild(p, i, c)[p].index = red[p].index
        /\ WithChild(p, i, c)[p].green = red[p].green
        /\ WithChild(p, i, c)[p].mutable = red[p].mutable
        /\ WithChild(p, i, c)[p].first = first
    BY <2>1, <2>4 DEF Forested, RefType, FreeRed
  <2>7. /\ q[c].parent = p /\ q[c].index = i /\ q[c].green = g
        /\ q[c].mutable = red[p].mutable /\ q[c].first = {}
    BY <2>3, <2>5 DEF Alike
  <2>8. /\ q[p].parent = red[p].parent /\ q[p].index = red[p].index
        /\ q[p].green = red[p].green /\ q[p].mutable = red[p].mutable
        /\ q[p].first = first
    BY <2>6 DEF Alike
  <2>9. \A n \in Reds \ {c, p} : Keeps(q, n)
    BY <2>5 DEF Alike, Keeps
  <2>10. MakesChild(q, c, p, i, g)
    BY <1>1, <2>1, <2>2, <2>7, <2>8, <2>9 DEF MakesChild, first
  <2> QED BY <2>10 DEF g
<1> QED BY <1>2, <1>3

LEMMA WithChildFields ==
  ASSUME Forested, NEW p \in Reds, red[p].rc > 0, NEW i, NEW c \in Reds, IsChild(p, i, c)
  PROVE  /\ DOMAIN WithChild(p, i, c) = Reds
         /\ \A m \in Reds : DOMAIN WithChild(p, i, c)[m] = DOMAIN FreeRed
<1>1. CASE c \in Linked(p, i)
  BY <1>1 DEF WithChild, Forested, RefType, FreeRed
<1>2. CASE c \notin Linked(p, i)
  BY <1>2, FreshChild DEF Forested
<1> QED BY <1>1, <1>2

LEMMA NewChildMade ==
  ASSUME Forested, NEW p \in Reds, red[p].rc > 0, NEW i, NEW h, NewChild(p, i, h)
  PROVE  Quiet(red') \/ \E c : MakesChild(red', c, p, i, Kid(heap, red[p].green, i))
<1>1. PICK c \in Reds : IsChild(p, i, c) /\ red' = WithChild(p, i, c)
  BY DEF NewChild
<1>2. Alike(red', WithChild(p, i, c))
  BY <1>1 DEF Alike
<1> QED BY <1>1, <1>2, ChildMade

LEMMA HopMade ==
  ASSUME Forested, NEW h \in Handles, NEW K, Hops(h, K)
  PROVE  LET p == red[handle[h]].parent
         IN  /\ p \in Reds /\ red[p].rc > 0
             /\ \E i \in After(handle[h], K) :
                  Quiet(red') \/ \E c : MakesChild(red', c, p, i, Kid(heap, red[p].green, i))
<1> DEFINE n == handle[h]
           p == red[n].parent
<1>1. n \in Reds /\ n # NULL
  BY DEF Hops, Forested, RefType, RedOrNull
<1>2. PICK i \in After(n, K), c \in Reds : IsChild(p, i, c) /\ Release(WithChild(p, i, c), n)
  BY DEF Hops
<1>3. p # NULL
  BY <1>2 DEF After
<1>4. p \in Reds /\ red[p].rc > 0 /\ red[n].rc > 0
  BY <1>1, <1>3, Referenced DEF Forested, RefType, RedOrNull
<1>5. red[n] # FreeRed
  BY <1>4, LiveIsTaken
<1> HIDE DEF n, p
<1>6. Alike(red', WithChild(p, i, c))
  BY <1>1, <1>2, <1>4, <1>5, WithChildFields, ReleaseAlike
<1>7. Quiet(red') \/ MakesChild(red', c, p, i, Kid(heap, red[p].green, i))
  BY <1>2, <1>4, <1>6, ChildMade
<1> QED BY <1>2, <1>4, <1>7 DEF n, p

LEMMA StepInPlaceMoves ==
  ASSUME CountInv, Idle, NEW h \in Handles, NEW K, StepInPlace(h, K)
  PROVE  LET n == handle[h]
         IN  /\ n \in Reds /\ Childless(n)
             /\ \E i \in After(n, K) : Moves(red', n, i, Kid(heap, red[red[n].parent].green, i))
<1> DEFINE n == handle[h]
           g(i) == Kid(heap, red[red[n].parent].green, i)
<1>1. n \in Reds /\ red[n].rc = 1 /\ ~ red[n].mutable
  BY DEF StepInPlace, Steps, CanTakePtr, CountInv, RefType, RedOrNull
<1>2. PICK i \in After(n, K) :
        red' = [red EXCEPT ![n].index = i, ![n].offset = ChildOffset(red[n].parent, i), ![n].green = g(i)]
  BY DEF StepInPlace, Lowest
<1>3. Childless(n)
  BY <1>1, SoleHandle DEF Childless, ChildrenOf
<1>4. red[n] # FreeRed
  BY <1>1 DEF FreeRed
<1> HIDE DEF g, n
<1>5. /\ red'[n].parent = red[n].parent /\ red'[n].mutable = red[n].mutable
      /\ red'[n].first = red[n].first /\ red'[n].index = i /\ red'[n].green = g(i)
      /\ \A m \in Reds \ {n} : red'[m] = red[m]
  BY <1>1, <1>2 DEF CountInv, RefType, FreeRed
<1>6. Moves(red', n, i, g(i))
  BY <1>1, <1>4, <1>5 DEF Moves, Keeps
<1> QED BY <1>1, <1>3, <1>6 DEF g, n

LEMMA DetachDetaches ==
  ASSUME Forested, NEW n \in Reds, red[n].parent # NULL, red[n].mutable, DetachData(n)
  PROVE  Detaches(red', n)
<1> DEFINE p == red[n].parent
           s == Adjust(red, red[p].first, red[n].index + 1, -1)
<1>1. p \in Reds /\ n # p
  <2>1. p \in Reds
    BY DEF Forested, RefType, RedOrNull
  <2>2. Parents(red)
    BY DEF Forested, RefType, Parents
  <2>3. n \notin Above(red, p) /\ p \in Above(red, p)
    BY <2>1, <2>2, NoCycle, AboveClosed DEF Forested
  <2> QED BY <2>1, <2>3
<1>2. red' = [Unlink(s, p, n) EXCEPT ![n].parent = NULL]
  BY DEF DetachData
<1>3. \A m \in Reds : red[m].index \in Nat
  BY DEF Forested, Indexed
<1>4. ASSUME NEW m \in Reds
      PROVE  /\ DOMAIN s[m] = DOMAIN FreeRed
             /\ s[m].parent = red[m].parent /\ s[m].green = red[m].green
             /\ s[m].mutable = red[m].mutable /\ s[m].first = red[m].first
             /\ s[m].index = IF m \in red[p].first /\ red[m].index > red[n].index
                             THEN red[m].index - 1 ELSE red[m].index
             /\ m \notin red[p].first => s[m] = red[m]
  <2>1. DOMAIN red[m] = DOMAIN FreeRed
    BY DEF Forested, RefType
  <2>2. s[m] = IF m \in red[p].first /\ red[m].index >= red[n].index + 1
               THEN [red[m] EXCEPT !.index = red[m].index + (-1)] ELSE red[m]
    BY DEF Adjust
  <2>3. red[m].index \in Nat /\ red[n].index \in Nat
    BY <1>3
  <2>4. /\ red[m].index >= red[n].index + 1 <=> red[m].index > red[n].index
        /\ red[m].index + (-1) = red[m].index - 1
    BY <2>3
  <2>5. s[m] = IF m \in red[p].first /\ red[m].index > red[n].index
               THEN [red[m] EXCEPT !.index = red[m].index - 1] ELSE red[m]
    BY <2>2, <2>4
  <2> HIDE DEF s, p
  <2>6. CASE m \in red[p].first /\ red[m].index > red[n].index
    BY <2>1, <2>5, <2>6 DEF FreeRed
  <2>7. CASE ~ (m \in red[p].first /\ red[m].index > red[n].index)
    BY <2>1, <2>5, <2>7
  <2> QED BY <2>6, <2>7
<1>5. DOMAIN s = Reds
  BY DEF Adjust
<1>6. ASSUME NEW m \in Reds, m \in red[p].first \/ m = n \/ m = p PROVE red[m] # FreeRed
  <2>1. red[n] # FreeRed
    BY DEF FreeRed
  <2>2. red[p] # FreeRed
    BY <1>1, LiveIsTaken, Referenced DEF Forested
  <2>3. m \in red[p].first => red[m].parent = p /\ p # NULL
    BY <1>1, ListsAre, RedsAssumption DEF Forested
  <2>4. m \in red[p].first => red[m] # FreeRed
    BY <2>3 DEF FreeRed
  <2> QED BY <1>6, <2>1, <2>2, <2>4
<1> HIDE DEF s, p
<1>7. ASSUME NEW m \in Reds
      PROVE  /\ red'[m].parent = IF m = n THEN NULL ELSE s[m].parent
             /\ red'[m].index = s[m].index /\ red'[m].green = s[m].green
             /\ red'[m].mutable = s[m].mutable
             /\ red'[m].first = IF m = p THEN s[m].first \ {n} ELSE s[m].first
             /\ m # n /\ m # p => red'[m] = s[m]
  <2> DEFINE u == [s EXCEPT ![p].first = s[p].first \ {n}]
  <2>1. red' = [u EXCEPT ![n].parent = NULL]
    BY <1>2 DEF Unlink
  <2>2. /\ DOMAIN u = Reds /\ DOMAIN u[m] = DOMAIN FreeRed
        /\ u[m].parent = s[m].parent /\ u[m].index = s[m].index
        /\ u[m].green = s[m].green /\ u[m].mutable = s[m].mutable
        /\ u[m].first = IF m = p THEN s[m].first \ {n} ELSE s[m].first
        /\ m # p => u[m] = s[m]
    <3>1. CASE m = p
      BY <1>1, <1>4, <1>5, <3>1 DEF FreeRed
    <3>2. CASE m # p
      BY <1>1, <1>4, <1>5, <3>2
    <3> QED BY <3>1, <3>2
  <2> HIDE DEF u
  <2>3. CASE m = n
    BY <2>1, <2>2, <2>3 DEF FreeRed
  <2>4. CASE m # n
    <3>1. red'[m] = u[m]
      BY <2>1, <2>2, <2>4
    <3> QED BY <2>2, <2>4, <3>1
  <2> QED BY <2>3, <2>4
<1>8. ASSUME NEW m \in Reds, red[m] = FreeRed PROVE red'[m] = FreeRed
  BY <1>4, <1>6, <1>7, <1>8
<1>9. ASSUME NEW m \in Reds
      PROVE  /\ red'[m].parent = IF m = n THEN NULL ELSE red[m].parent
             /\ red'[m].index = IF m \in red[p].first /\ red[m].index > red[n].index
                                THEN red[m].index - 1 ELSE red[m].index
             /\ red'[m].green = red[m].green /\ red'[m].mutable = red[m].mutable
             /\ red'[m].first = IF m = p THEN red[m].first \ {n} ELSE red[m].first
  BY <1>4, <1>7
<1> QED BY <1>1, <1>8, <1>9 DEF Detaches, p

LEMMA LinkLinks ==
  ASSUME Forested, Accounted, LinkSafe, todo.stage = "link", todo.node # todo.child, LinkData
  PROVE  Links(red', todo.node, todo.child, todo.index)
<1> DEFINE n == todo.node
           c == todo.child
           i == todo.index
           s == Adjust(red, red[n].first, i, 1)
<1>1. /\ n \in Reds /\ c \in Reds /\ n # c /\ red[c].parent = NULL
      /\ red[n].mutable /\ red[c].mutable
  BY DEF Accounted, LinkSafe
<1>2. red' = [s EXCEPT ![c].index = i, ![c].parent = n, ![n].rc = @ + 1, ![n].first = @ \cup {c}]
  BY DEF LinkData
<1>3. DOMAIN s = Reds
  BY DEF Adjust
<1>4. ASSUME NEW m \in Reds
      PROVE  /\ DOMAIN s[m] = DOMAIN FreeRed
             /\ s[m].parent = red[m].parent /\ s[m].green = red[m].green
             /\ s[m].mutable = red[m].mutable /\ s[m].first = red[m].first
             /\ s[m].index = IF m \in red[n].first /\ red[m].index >= i
                             THEN red[m].index + 1 ELSE red[m].index
             /\ m \notin red[n].first => s[m] = red[m]
  <2>1. DOMAIN red[m] = DOMAIN FreeRed
    BY DEF Forested, RefType
  <2>2. s[m] = IF m \in red[n].first /\ red[m].index >= i
               THEN [red[m] EXCEPT !.index = red[m].index + 1] ELSE red[m]
    BY DEF Adjust
  <2> HIDE DEF s, n, i
  <2>3. CASE m \in red[n].first /\ red[m].index >= i
    BY <2>1, <2>2, <2>3 DEF FreeRed
  <2>4. CASE ~ (m \in red[n].first /\ red[m].index >= i)
    BY <2>1, <2>2, <2>4
  <2> QED BY <2>3, <2>4
<1>5. ASSUME NEW m \in Reds, m \in red[n].first \/ m = n \/ m = c PROVE red[m] # FreeRed
  <2>1. red[n] # FreeRed /\ red[c] # FreeRed
    BY <1>1 DEF FreeRed
  <2>2. m \in red[n].first => red[m].parent = n /\ n # NULL
    BY <1>1, ListsAre, RedsAssumption DEF Forested
  <2>3. m \in red[n].first => red[m] # FreeRed
    BY <2>2 DEF FreeRed
  <2> QED BY <1>5, <2>1, <2>3
<1> HIDE DEF s, n, c, i
<1>6. ASSUME NEW m \in Reds
      PROVE  /\ red'[m].parent = IF m = c THEN n ELSE s[m].parent
             /\ red'[m].index = IF m = c THEN i ELSE s[m].index
             /\ red'[m].green = s[m].green /\ red'[m].mutable = s[m].mutable
             /\ red'[m].first = IF m = n THEN s[m].first \cup {c} ELSE s[m].first
             /\ m # n /\ m # c => red'[m] = s[m]
  <2>1. DOMAIN s[m] = {"rc", "parent", "index", "green", "mutable", "offset", "first"}
    BY <1>4 DEF FreeRed
  <2>2. CASE m = c
    BY <1>1, <1>2, <1>3, <2>1, <2>2
  <2>3. CASE m = n
    BY <1>1, <1>2, <1>3, <2>1, <2>3
  <2>4. CASE m # n /\ m # c
    BY <1>1, <1>2, <1>3, <2>1, <2>4
  <2> QED BY <1>1, <2>2, <2>3, <2>4
<1>7. ASSUME NEW m \in Reds, red[m] = FreeRed PROVE red'[m] = FreeRed
  BY <1>4, <1>5, <1>6, <1>7
<1>8. ASSUME NEW m \in Reds
      PROVE  /\ red'[m].parent = IF m = c THEN n ELSE red[m].parent
             /\ red'[m].index = IF m = c THEN i
                                ELSE IF m \in red[n].first /\ red[m].index >= i
                                     THEN red[m].index + 1 ELSE red[m].index
             /\ red'[m].green = red[m].green /\ red'[m].mutable = red[m].mutable
             /\ red'[m].first = IF m = n THEN red[m].first \cup {c} ELSE red[m].first
  BY <1>4, <1>6
<1>9. Links(red', n, c, i)
  BY <1>1, <1>7, <1>8 DEF Links
<1> QED BY <1>9 DEF n, c, i

(* One turn of respine changes one green. *)
LEMMA RespineRegreens ==
  ASSUME RefType, RcExact, RespineStep
  PROVE  Regreens(red', spine.node, spine.green)
<1> DEFINE n == spine.node
           g == spine.green
           r == [red EXCEPT ![n].green = g]
<1>1. n \in Reds
  BY DEF RespineStep, RefType, RedOrNull
<1>2. /\ DOMAIN r = Reds /\ \A m \in Reds : DOMAIN r[m] = DOMAIN FreeRed
      /\ r[n].parent = red[n].parent /\ r[n].index = red[n].index
      /\ r[n].mutable = red[n].mutable /\ r[n].first = red[n].first /\ r[n].green = g
      /\ \A m \in Reds \ {n} : r[m] = red[m]
  BY <1>1 DEF RefType, FreeRed
<1>3. red' = r \/ (spine.release # NULL /\ Release(r, spine.release))
  BY DEF RespineStep
<1> HIDE DEF n, g, r
<1>4. Alike(red', r)
  <2>1. CASE red' = r
    BY <2>1 DEF Alike
  <2>2. CASE spine.release # NULL /\ Release(r, spine.release)
    <3>1. spine.release \in Reds /\ Held(spine.release) > 0
      BY <2>2 DEF RefType, RedOrNull, Held, One
    <3>2. red[spine.release] # FreeRed
      BY <3>1, Referenced, LiveIsTaken
    <3> QED BY <1>2, <2>2, <3>1, <3>2, ReleaseAlike
  <2> QED BY <1>3, <2>1, <2>2
<1>5. /\ red'[n].parent = red[n].parent /\ red'[n].index = red[n].index
      /\ red'[n].mutable = red[n].mutable /\ red'[n].first = red[n].first /\ red'[n].green = g
  BY <1>1, <1>2, <1>4 DEF Alike
<1>6. ASSUME NEW m \in Reds \ {n} PROVE Keeps(red', m)
  BY <1>2, <1>4 DEF Alike, Keeps
<1>7. Regreens(red', n, g)
  BY <1>1, <1>5, <1>6 DEF Regreens
<1> QED BY <1>7 DEF n, g

LEMMA FreeFrees ==
  ASSUME Forested, Accounted, FreeStep
  PROVE  Frees(red', dying)
<1> DEFINE n == dying
           p == red[n].parent
           r == [Unlink(red, p, n) EXCEPT ![n] = FreeRed]
<1>1. n \in Reds /\ red[n].rc = 0
  BY DEF FreeStep, Accounted, Forested, RefType, RedOrNull
<1>2. Childless(n)
  BY <1>1, UnreferencedChildless DEF Forested
<1>3. CASE p # NULL /\ Release(r, p)
  <2>1. p \in Reds /\ red[p].rc > 0
    BY <1>1, <1>3, Referenced DEF Forested, RefType, RedOrNull
  <2>2. p # n /\ red[p] # FreeRed
    BY <1>1, <2>1, LiveIsTaken
  <2> HIDE DEF n, p
  <2>3. /\ DOMAIN r = Reds /\ \A m \in Reds : DOMAIN r[m] = DOMAIN FreeRed
        /\ r[n] = FreeRed
        /\ \A m \in Reds \ {n, p} : r[m] = red[m]
        /\ r[p].parent = red[p].parent /\ r[p].index = red[p].index
        /\ r[p].green = red[p].green /\ r[p].mutable = red[p].mutable
        /\ r[p].first = red[p].first \ {n}
    BY <1>1, <2>1, <2>2 DEF Unlink, Forested, RefType, FreeRed
  <2> HIDE DEF r
  <2>4. Alike(red', r)
    BY <1>3, <2>1, <2>2, <2>3, ReleaseAlike
  <2>5. red'[n] = FreeRed
    <3>1. red'[n] = r[n]
      BY <1>1, <1>3, <2>1, <2>2, <2>3 DEF Release
    <3> QED BY <2>3, <3>1
  <2>6. ASSUME NEW m \in Reds \ {n}
        PROVE  /\ red'[m].parent = red[m].parent /\ red'[m].index = red[m].index
               /\ red'[m].green = red[m].green /\ red'[m].mutable = red[m].mutable
               /\ red'[m].first = IF m = p THEN red[m].first \ {n} ELSE red[m].first
               /\ red[m] = FreeRed => red'[m] = FreeRed
    <3>1. CASE m = p
      BY <2>1, <2>2, <2>3, <2>4, <3>1 DEF Alike
    <3>2. CASE m # p
      BY <2>3, <2>4, <3>2 DEF Alike
    <3> QED BY <3>1, <3>2
  <2> QED BY <1>1, <1>2, <2>5, <2>6 DEF Frees, n, p
<1>4. CASE p = NULL /\ red' = [red EXCEPT ![n] = FreeRed]
  <2>1. \A m \in Reds \ {n} : red'[m] = red[m] /\ m # p
    BY <1>4, RedsAssumption
  <2>2. red'[n] = FreeRed
    BY <1>1, <1>4 DEF Forested, RefType
  <2> QED BY <1>1, <1>2, <2>1, <2>2 DEF Frees
<1> QED BY <1>3, <1>4 DEF FreeStep

LEMMA CloneMade ==
  ASSUME Forested, Accounted, todo.stage = "clone",
         red[todo.child].mutable, Childless(todo.child),
         NEW i, NEW g, NEW c \in NextRed,
         red' = [red EXCEPT ![c] = [ChildData(todo.child, i) EXCEPT !.green = g],
                            ![todo.child].first = @ \cup {c}]
  PROVE  MakesChild(red', c, todo.child, i, g)
<1> DEFINE p == todo.child
           data == [ChildData(p, i) EXCEPT !.green = g]
<1>1. p \in Reds /\ Held(p) > 0
  BY DEF Accounted, Held, One
<1>2. c \in Reds /\ red[c] = FreeRed
  BY DEF NextRed, Lowest, FreshReds
<1>3. red[p] # FreeRed /\ p # c
  <2>1. red[p].rc > 0
    BY <1>1, Referenced DEF Forested
  <2> QED BY <1>2, <2>1, LiveIsTaken
<1>4. red[p].first = {}
  BY <1>1, ListsAre DEF Forested, Childless, RefType
<1>5. /\ data.parent = p /\ data.index = i /\ data.green = g
      /\ data.mutable = red[p].mutable /\ data.first = {}
  BY DEF ChildData, FreeRed
<1> HIDE DEF data
<1>6. red' = [red EXCEPT ![c] = data, ![p].first = @ \cup {c}]
  BY DEF data
<1> HIDE DEF p
<1>7. /\ red'[c] = data
      /\ red'[p].parent = red[p].parent /\ red'[p].index = red[p].index
      /\ red'[p].green = red[p].green /\ red'[p].mutable = red[p].mutable
      /\ red'[p].first = red[p].first \cup {c}
      /\ \A m \in Reds \ {c, p} : red'[m] = red[m]
  BY <1>1, <1>2, <1>3, <1>6 DEF Forested, RefType, FreeRed
<1>8. red[p].mutable
  BY DEF p
<1>9. MakesChild(red', c, p, i, g)
  BY <1>1, <1>2, <1>3, <1>4, <1>5, <1>7, <1>8 DEF MakesChild, Keeps
<1> QED BY <1>9 DEF p

-----------------------------------------------------------------------------
(***************************************************************************)
(* The inductive invariant of the forest.  What attach_child is about to   *)
(* link does not lie above the node, and nothing but clone_for_update has  *)
(* seen the red it added last.                                             *)
(***************************************************************************)
WellLinked == Acyclic(red) /\ Indexed /\ LinksExact

LinkFree ==
  /\ todo.index \in Nat
  /\ todo.stage = "link" =>
       \E S \in SUBSET Reds : Closed(red, S) /\ todo.node \in S /\ todo.child \notin S

CloneSafe == todo.stage = "clone" => red[todo.child].mutable /\ Childless(todo.child)

TreeInv == MutInv /\ WellLinked /\ LinkFree /\ CloneSafe

LEMMA TreeIsForested ==
  ASSUME TreeInv
  PROVE  Forested /\ CountInv /\ Accounted /\ Parents(red) /\ Acyclic(red)
BY DEF TreeInv, MutInv, CountInv, WellLinked, Forested, Parents, RefType

LEMMA IdleStages ==
  ASSUME Idle, UNCHANGED todo
  PROVE  LinkFree' /\ CloneSafe'
BY DEF Idle, NoTodo, LinkFree, CloneSafe

(* Looking at a child. *)
LEMMA LookLinked ==
  ASSUME Forested, RefType', NEW p \in Reds, NEW i \in Nat,
         Quiet(red') \/ \E c : MakesChild(red', c, p, i, Kid(heap, red[p].green, i))
  PROVE  WellLinked'
BY QuietForest, ChildForest DEF WellLinked

LEMMA NewRootLinked ==
  ASSUME Forested, RefType', NEW g, NEW mut, NEW h, NewRootData(g, mut, h)
  PROVE  WellLinked'
<1>1. PICK c \in NextRed :
        red' = [red EXCEPT ![c] = [FreeRed EXCEPT !.rc = 1, !.green = g, !.mutable = mut]]
  BY DEF NewRootData
<1>2. MakesRoot(red', c, g, mut)
  BY <1>1, RootMade DEF Forested
<1> QED BY <1>2, RootForest DEF WellLinked

LEMMA NavigateLooks ==
  ASSUME Forested, NEW h \in Handles, NEW K, NEW new \in Handles,
         \/ FirstChild(h, K, new) \/ LastChild(h, K, new)
         \/ NextSibling(h, K, new) \/ PrevSibling(h, K, new)
  PROVE  \E p \in Reds, i \in Nat :
           /\ red[p].rc > 0 /\ i \in Slots(heap, red[p].green) /\ NewChild(p, i, new)
<1>1. handle[h] \in Reds
  BY DEF FirstChild, LastChild, NextSibling, PrevSibling, Forested, RefType, RedOrNull
<1>2. red[handle[h]].rc > 0
  BY <1>1, Referenced DEF Forested
<1>3. CASE FirstChild(h, K, new) \/ LastChild(h, K, new)
  <2>1. PICK i \in Slots(heap, red[handle[h]].green) : NewChild(handle[h], i, new)
    BY <1>3 DEF FirstChild, LastChild, Lowest, Highest, Wanted
  <2>2. i \in Nat
    BY DEF Slots
  <2> QED BY <1>1, <1>2, <2>1, <2>2
<1>4. CASE NextSibling(h, K, new) \/ PrevSibling(h, K, new)
  <2> DEFINE p == red[handle[h]].parent
  <2>1. PICK i : i \in Slots(heap, red[p].green) /\ NewChild(p, i, new) /\ p # NULL
    BY <1>4 DEF NextSibling, PrevSibling, After, Before, Lowest, Highest, Wanted
  <2>2. p \in Reds /\ red[p].rc > 0
    BY <1>1, <2>1, Referenced DEF Forested, RefType, RedOrNull
  <2>3. i \in Nat
    BY <2>1 DEF Slots
  <2> QED BY <2>1, <2>2, <2>3
<1> QED BY <1>3, <1>4

LEMMA AfterIsSlot ==
  ASSUME NEW n, NEW K, NEW i \in After(n, K)
  PROVE  red[n].parent # NULL /\ i \in Nat /\ i \in Slots(heap, red[red[n].parent].green)
BY DEF After, Wanted, Slots

LEMMA ToNextSiblingLinked ==
  ASSUME TreeInv, RefType', NEW h \in Handles, NEW K, ToNextSibling(h, K)
  PROVE  WellLinked' /\ LinkFree' /\ CloneSafe'
<1>1. Idle /\ UNCHANGED todo /\ handle[h] \in Reds /\ Forested
  BY TreeIsForested
  DEF ToNextSibling, StepShared, StepInPlace, StepOffEnd, StepOffRoot, Steps, User,
      Forested, RefType, RedOrNull
<1>2. LinkFree' /\ CloneSafe'
  BY <1>1, IdleStages
<1>3. CASE StepShared(h, K)
  <2>1. PICK p \in Reds, i \in After(handle[h], K) :
          Quiet(red') \/ \E c : MakesChild(red', c, p, i, Kid(heap, red[p].green, i))
    BY <1>1, <1>3, SharedHops, HopMade
  <2>2. i \in Nat
    BY AfterIsSlot
  <2> QED BY <1>1, <1>2, <2>1, <2>2, LookLinked
<1>4. CASE StepInPlace(h, K)
  <2>1. PICK i \in After(handle[h], K) : \E g : Moves(red', handle[h], i, g)
    BY <1>1, <1>4, StepInPlaceMoves, TreeIsForested
  <2>2. PICK g : Moves(red', handle[h], i, g)
    BY <2>1
  <2>3. i \in Nat
    BY AfterIsSlot
  <2> QED BY <1>1, <1>2, <2>2, <2>3, MoveForest DEF WellLinked
<1>5. CASE StepOffEnd(h, K)
  <2>1. red[handle[h]].rc > 0 /\ Release(red, handle[h])
    BY <1>1, <1>5, Referenced DEF StepOffEnd, Forested
  <2> QED BY <1>1, <1>2, <2>1, ReleaseQuiet, QuietForest DEF WellLinked, Forested
<1>6. CASE StepOffRoot(h, K)
  <2>1. Quiet(red')
    BY <1>6 DEF StepOffRoot, Quiet, Keeps
  <2> QED BY <1>1, <1>2, <2>1, QuietForest DEF WellLinked
<1> QED BY <1>3, <1>4, <1>5, <1>6 DEF ToNextSibling

LEMMA DetachKeepsClosed ==
  ASSUME NEW n, Detaches(red', n), NEW S \in SUBSET Reds, Closed(red, S)
  PROVE  Closed(red', S)
<1>1. \A k \in Reds : red'[k].parent \in {red[k].parent, NULL}
  BY DEF Detaches
<1> QED BY <1>1, StaysClosed

LEMMA DetachLinked ==
  ASSUME TreeInv, RefType', NEW h \in Handles, Detach(h)
  PROVE  WellLinked' /\ LinkFree' /\ CloneSafe'
<1>1. /\ Idle /\ UNCHANGED todo /\ Forested
      /\ handle[h] \in Reds /\ red[handle[h]].parent # NULL /\ red[handle[h]].mutable
      /\ DetachData(handle[h])
  BY TreeIsForested DEF Detach, User, Forested, RefType, RedOrNull
<1>2. Detaches(red', handle[h])
  BY <1>1, DetachDetaches
<1> QED BY <1>1, <1>2, DetachForest, IdleStages DEF WellLinked

LEMMA AttachChildLinked ==
  ASSUME TreeInv, RefType', NEW h \in Handles, NEW i \in Nat, NEW c \in Handles, AttachChild(h, i, c)
  PROVE  WellLinked' /\ LinkFree' /\ CloneSafe'
<1> DEFINE n == handle[h]
           m == handle[c]
           S == Above(red, n)
<1>1. /\ n \in Reds /\ m \in Reds /\ m \notin Up[n] /\ red[m].mutable
      /\ todo' = [stage |-> "link", node |-> n, index |-> i, child |-> m]
      /\ Forested /\ Parents(red) /\ Acyclic(red)
  BY TreeIsForested DEF AttachChild, Forested, RefType, RedOrNull
<1>2. S \in SUBSET Reds /\ Closed(red, S) /\ n \in S /\ m \notin S
  BY <1>1, UpIsAbove, AboveClosed
<1>3. WellLinked' /\ Closed(red', S)
  <2>1. CASE red[m].parent # NULL /\ DetachData(m)
    <3>1. Detaches(red', m)
      BY <1>1, <2>1, DetachDetaches
    <3> QED BY <1>1, <1>2, <3>1, DetachForest, DetachKeepsClosed DEF WellLinked
  <2>2. CASE UNCHANGED red
    <3>1. Quiet(red')
      BY <2>2 DEF Quiet, Keeps
    <3> QED BY <1>1, <1>2, <2>2, <3>1, QuietForest DEF WellLinked
  <2> QED BY <2>1, <2>2 DEF AttachChild
<1>4. PICK T \in SUBSET Reds : Closed(red', T) /\ n \in T /\ m \notin T
  BY <1>2, <1>3
<1> HIDE DEF S, n, m
<1>5. LinkFree'
  BY <1>1, <1>4 DEF LinkFree
<1> QED BY <1>1, <1>3, <1>5 DEF CloneSafe

LEMMA CloneForUpdateLinked ==
  ASSUME TreeInv, RefType', NEW h \in Handles, CloneForUpdate(h)
  PROVE  WellLinked' /\ LinkFree' /\ CloneSafe'
<1>1. PICK root \in Up[handle[h]], r \in NextRed :
        /\ red' = [red EXCEPT ![r] = [FreeRed EXCEPT !.rc = 1, !.green = red[root].green,
                                                     !.mutable = TRUE]]
        /\ todo' = [stage |-> "clone", node |-> handle[h], index |-> 0, child |-> r]
  BY DEF CloneForUpdate
<1>2. Forested
  BY TreeIsForested
<1>3. MakesRoot(red', r, red[root].green, TRUE)
  BY <1>1, <1>2, RootMade DEF Forested
<1>4. WellLinked'
  BY <1>2, <1>3, RootForest DEF WellLinked
<1>5. red'[r].mutable /\ \A m \in Reds : red'[m].parent # r
  <2>1. r \in Reds /\ Childless(r) /\ r # NULL
    BY <1>2, <1>3, FreeIsChildless, RedsAssumption DEF Forested, MakesRoot
  <2> QED BY <1>3, <2>1 DEF MakesRoot, Keeps, Childless
<1> QED BY <1>1, <1>4, <1>5 DEF LinkFree, CloneSafe, Childless

LEMMA OperationLinked ==
  ASSUME TreeInv, RefType', Operation
  PROVE  WellLinked' /\ LinkFree' /\ CloneSafe'
<1>1. Forested
  BY TreeIsForested
<1>2. ASSUME NEW h \in Handles, NEW mut \in BOOLEAN, NewRoot(h, mut)
      PROVE  WellLinked' /\ LinkFree' /\ CloneSafe'
  <2>1. Idle /\ NewRootData(kept, mut, h)
    BY <1>2 DEF NewRoot, User
  <2>2. UNCHANGED todo
    BY <2>1 DEF NewRootData
  <2>3. WellLinked'
    BY <1>1, <2>1, NewRootLinked
  <2> QED BY <2>1, <2>2, <2>3, IdleStages
<1>3. ASSUME NEW h \in Handles, NEW new \in Handles, CloneSubtree(h, new)
      PROVE  WellLinked' /\ LinkFree' /\ CloneSafe'
  <2>1. Idle /\ NewRootData(red[handle[h]].green, FALSE, new)
    BY <1>3 DEF CloneSubtree, User
  <2>2. UNCHANGED todo
    BY <2>1 DEF NewRootData
  <2>3. WellLinked'
    <3>1. PICK g : g = red[handle[h]].green
      OBVIOUS
    <3>2. PICK mut : mut = FALSE
      OBVIOUS
    <3>3. NewRootData(g, mut, new)
      BY <2>1, <3>1, <3>2
    <3> QED BY <1>1, <3>3, NewRootLinked
  <2> QED BY <2>1, <2>2, <2>3, IdleStages
<1>4. CASE DropKept
  <2>1. Quiet(red')
    BY <1>4 DEF DropKept, Quiet, Keeps
  <2> QED BY <1>1, <1>4, <2>1, QuietForest, IdleStages DEF DropKept, WellLinked
<1>5. ASSUME NEW h \in Handles, Drop(h)
      PROVE  WellLinked' /\ LinkFree' /\ CloneSafe'
  <2>1. handle[h] \in Reds /\ Release(red, handle[h]) /\ Idle /\ UNCHANGED todo
    BY <1>1, <1>5 DEF Drop, Forested, RefType, RedOrNull
  <2>2. red[handle[h]].rc > 0
    BY <1>1, <2>1, Referenced DEF Forested
  <2> QED BY <1>1, <2>1, <2>2, ReleaseQuiet, QuietForest, IdleStages DEF WellLinked, Forested
<1>6. ASSUME NEW h \in Handles, NEW new \in Handles, Clone(h, new) \/ Parent(h, new)
      PROVE  WellLinked' /\ LinkFree' /\ CloneSafe'
  <2>1. PICK n \in Reds : Refer(n, new) /\ Idle /\ red[n].rc > 0
    <3>1. handle[h] \in Reds /\ red[handle[h]].rc > 0
      BY <1>1, <1>6, Referenced DEF Clone, Parent, Forested, RefType, RedOrNull
    <3>2. red[handle[h]].parent # NULL => /\ red[handle[h]].parent \in Reds
                                          /\ red[red[handle[h]].parent].rc > 0
      BY <1>1, <3>1, Referenced DEF Forested, RefType, RedOrNull
    <3> QED BY <1>6, <3>1, <3>2 DEF Clone, Parent, User
  <2>2. Quiet(red') /\ UNCHANGED todo
    BY <1>1, <2>1, ReferQuiet DEF Forested, Refer
  <2> QED BY <1>1, <2>1, <2>2, QuietForest, IdleStages DEF WellLinked
<1>7. ASSUME NEW h \in Handles, NEW K, NEW new \in Handles,
             \/ FirstChild(h, K, new) \/ LastChild(h, K, new)
             \/ NextSibling(h, K, new) \/ PrevSibling(h, K, new)
      PROVE  WellLinked' /\ LinkFree' /\ CloneSafe'
  <2>1. PICK p \in Reds, i \in Nat : red[p].rc > 0 /\ NewChild(p, i, new)
    BY <1>1, <1>7, NavigateLooks
  <2>2. Quiet(red') \/ \E c : MakesChild(red', c, p, i, Kid(heap, red[p].green, i))
    BY <1>1, <2>1, NewChildMade
  <2>3. Idle /\ UNCHANGED todo
    BY <1>7, <2>1 DEF FirstChild, LastChild, NextSibling, PrevSibling, User, NewChild
  <2> QED BY <1>1, <2>2, <2>3, LookLinked, IdleStages
<1>8. ASSUME NEW h \in Handles, NEW c \in Handles, ReplaceWith(h, c)
      PROVE  WellLinked' /\ LinkFree' /\ CloneSafe'
  <2>1. Quiet(red')
    BY <1>8 DEF ReplaceWith, Quiet, Keeps
  <2>2. todo'.stage = "replace" /\ todo'.index = 0
    BY <1>8 DEF ReplaceWith, NoTodo
  <2> QED BY <1>1, <2>1, <2>2, QuietForest DEF WellLinked, LinkFree, CloneSafe
<1>9. ASSUME NEW h \in Handles, NEW c \in Handles, NEW i \in Indices(h), AttachChild(h, i, c)
      PROVE  WellLinked' /\ LinkFree' /\ CloneSafe'
  <2>1. i \in Nat
    BY DEF Indices
  <2> QED BY <1>9, <2>1, AttachChildLinked
<1> QED
  BY <1>2, <1>3, <1>4, <1>5, <1>6, <1>7, <1>8, <1>9, ToNextSiblingLinked, DetachLinked,
     CloneForUpdateLinked
  DEF Operation

-----------------------------------------------------------------------------
LEMMA AttachLinked ==
  ASSUME TreeInv, RefType', AttachLink \/ AttachPanic
  PROVE  WellLinked' /\ LinkFree' /\ CloneSafe'
<1>1. todo.stage = "link" /\ LinkData /\ todo' = [todo EXCEPT !.stage = "drop"]
  BY DEF AttachLink, AttachPanic
<1>2. PICK S \in SUBSET Reds : Closed(red, S) /\ todo.node \in S /\ todo.child \notin S
  BY <1>1 DEF TreeInv, LinkFree
<1>3. Forested /\ Accounted /\ LinkSafe /\ todo.index \in Nat
  BY TreeIsForested DEF TreeInv, MutInv, LinkFree
<1>4. Links(red', todo.node, todo.child, todo.index)
  BY <1>1, <1>2, <1>3, LinkLinks
<1>5. WellLinked'
  BY <1>2, <1>3, <1>4, LinkForest DEF WellLinked
<1>6. todo'.stage = "drop" /\ todo'.index = todo.index
  BY <1>1, <1>3 DEF Forested, RefType, NoTodo
<1> QED BY <1>3, <1>5, <1>6 DEF LinkFree, CloneSafe

LEMMA FreeLinked ==
  ASSUME TreeInv, RefType', FreeStep
  PROVE  WellLinked' /\ LinkFree' /\ CloneSafe'
<1>1. Forested /\ Accounted
  BY TreeIsForested
<1>2. Frees(red', dying) /\ dying # NULL /\ UNCHANGED todo
  BY <1>1, FreeFrees DEF FreeStep
<1>3. WellLinked'
  BY <1>1, <1>2, FreeForest DEF WellLinked
<1>4. \A k \in Reds : red'[k].parent \in {red[k].parent, NULL}
  <2>1. red'[dying] = FreeRed /\ \A k \in Reds \ {dying} : red'[k].parent = red[k].parent
    BY <1>2 DEF Frees
  <2>2. red'[dying].parent = NULL
    BY <2>1 DEF FreeRed
  <2> QED BY <2>1, <2>2
<1>5. \A S \in SUBSET Reds : Closed(red, S) => Closed(red', S)
  BY <1>4, StaysClosed
<1>6. LinkFree'
  BY <1>2, <1>5 DEF TreeInv, LinkFree
<1>7. CloneSafe'
  BY <1>1, <1>2 DEF Accounted, CloneSafe
<1> QED BY <1>3, <1>6, <1>7

LEMMA RespineLinked ==
  ASSUME TreeInv, RefType', RespineStep
  PROVE  WellLinked' /\ LinkFree' /\ CloneSafe'
<1>1. Forested /\ Accounted
  BY TreeIsForested
<1>2. Regreens(red', spine.node, spine.green) /\ spine.node # NULL /\ UNCHANGED todo
  BY <1>1, RespineRegreens DEF RespineStep, Forested
<1>3. WellLinked'
  BY <1>1, <1>2, RegreenForest DEF WellLinked
<1>4. \A k \in Reds : red'[k].parent \in {red[k].parent, NULL}
  BY <1>2 DEF Regreens, Keeps
<1>5. \A S \in SUBSET Reds : Closed(red, S) => Closed(red', S)
  BY <1>4, StaysClosed
<1>6. LinkFree'
  BY <1>2, <1>5 DEF TreeInv, LinkFree
<1>7. CloneSafe'
  BY <1>1, <1>2 DEF Accounted, CloneSafe
<1> QED BY <1>3, <1>6, <1>7

LEMMA CloneStepLinked ==
  ASSUME TreeInv, RefType', CloneStep
  PROVE  WellLinked' /\ LinkFree' /\ CloneSafe'
<1>1. PICK a \in Up[todo.node], c \in NextRed :
        /\ red' = [red EXCEPT ![c] = [ChildData(todo.child, red[a].index) EXCEPT !.green = red[a].green],
                              ![todo.child].first = @ \cup {c}]
        /\ todo' = [todo EXCEPT !.child = c]
  BY DEF CloneStep
<1>2. /\ todo.stage = "clone" /\ red[todo.child].mutable /\ Childless(todo.child)
      /\ Forested /\ Accounted /\ Parents(red) /\ Acyclic(red)
  BY TreeIsForested DEF CloneStep, TreeInv, CloneSafe
<1>3. a \in Reds
  <2>1. todo.node \in Reds
    BY <1>2 DEF Accounted
  <2> QED BY <1>1, <1>2, <2>1, UpIsAbove, AboveClosed
<1>4. red[a].index \in Nat
  BY <1>2, <1>3 DEF Forested, Indexed
<1>5. MakesChild(red', c, todo.child, red[a].index, red[a].green)
  BY <1>1, <1>2, CloneMade
<1>6. WellLinked'
  <2>1. PICK i \in Nat : i = red[a].index
    BY <1>4
  <2>2. MakesChild(red', c, todo.child, i, red[a].green)
    BY <1>5, <2>1
  <2> QED BY <1>2, <2>2, ChildForest DEF WellLinked
<1>7. c \in Reds /\ red'[c].mutable /\ \A m \in Reds : red'[m].parent # c
  <2>1. c \in Reds /\ Childless(c) /\ todo.child # c
    BY <1>2, <1>5, FreeIsChildless DEF Forested, MakesChild
  <2>2. red'[c].mutable /\ red'[c].parent = todo.child
    BY <1>2, <1>5 DEF MakesChild
  <2>3. ASSUME NEW m \in Reds PROVE red'[m].parent # c
    <3>1. m # c => red'[m].parent = red[m].parent
      BY <1>5 DEF MakesChild, Keeps
    <3> QED BY <2>1, <2>2, <3>1 DEF Childless
  <2> QED BY <2>1, <2>2, <2>3
<1>8. todo'.stage = "clone" /\ todo'.child = c /\ todo'.index = todo.index
  BY <1>1, <1>2 DEF Forested, RefType, NoTodo
<1>9. todo.index \in Nat
  BY DEF TreeInv, LinkFree
<1> QED BY <1>6, <1>7, <1>8, <1>9 DEF LinkFree, CloneSafe, Childless

LEMMA LoopLinked ==
  ASSUME TreeInv, RefType', Loop
  PROVE  WellLinked' /\ LinkFree' /\ CloneSafe'
<1>1. Forested /\ Accounted
  BY TreeIsForested
<1>2. CASE DropGreenStep
  <2>1. UNCHANGED <<red, todo>> /\ Quiet(red')
    BY <1>2 DEF DropGreenStep, Quiet, Keeps
  <2> QED BY <1>1, <2>1, QuietForest DEF TreeInv, WellLinked, LinkFree, CloneSafe, Childless
<1>3. CASE CloneEnd \/ ReplaceEnd
  <2>1. UNCHANGED red /\ Quiet(red') /\ todo' = NoTodo
    BY <1>3 DEF CloneEnd, ReplaceEnd, Quiet, Keeps
  <2> QED BY <1>1, <2>1, QuietForest DEF WellLinked, LinkFree, CloneSafe, NoTodo
<1>4. CASE ReplaceStep
  <2>1. UNCHANGED red /\ Quiet(red') /\ todo'.stage = "replace" /\ todo'.index = todo.index
    BY <1>1, <1>4 DEF ReplaceStep, Quiet, Keeps, Forested, RefType, NoTodo
  <2> QED BY <1>1, <2>1, QuietForest DEF TreeInv, WellLinked, LinkFree, CloneSafe
<1>5. CASE AttachEnd
  <2>1. Release(red, todo.child) /\ todo' = NoTodo /\ todo.child \in Reds
    BY <1>1, <1>5 DEF AttachEnd, Accounted
  <2>2. red[todo.child].rc > 0
    <3>1. Held(todo.child) > 0
      BY DEF Held, One
    <3> QED BY <1>1, <2>1, <3>1, Referenced DEF Forested
  <2>3. Quiet(red')
    BY <1>1, <2>1, <2>2, ReleaseQuiet DEF Forested
  <2> QED BY <1>1, <2>1, <2>3, QuietForest DEF WellLinked, LinkFree, CloneSafe, NoTodo
<1> QED
  BY <1>2, <1>3, <1>4, <1>5, AttachLinked, RespineLinked, FreeLinked, CloneStepLinked
  DEF Loop

-----------------------------------------------------------------------------
LEMMA InitTree == Init => TreeInv
<1> SUFFICES ASSUME Init PROVE TreeInv
  OBVIOUS
<1>1. MutInv
  BY InitMutable
<1>2. \A n \in Reds : red[n] = FreeRed
  BY DEF Init
<1>3. \A n \in Reds : red[n].parent = NULL /\ red[n].index = 0 /\ red[n].first = {} /\ ~ red[n].mutable
  BY <1>2 DEF FreeRed
<1>4. Acyclic(red) /\ Indexed /\ LinksExact
  <2>1. Acyclic(red)
    <3> SUFFICES ASSUME NEW S \in SUBSET Reds, S # {}
                 PROVE  \E k \in S : red[k].parent \notin S
      BY DEF Acyclic
    <3>1. PICK k \in S : TRUE
      OBVIOUS
    <3>2. red[k].parent = NULL /\ NULL \notin S
      BY <1>3, RedsAssumption
    <3> QED BY <3>2
  <2>2. Indexed
    BY <1>3 DEF Indexed
  <2>3. LinksExact
    BY <1>3 DEF LinksExact, ChildrenOf
  <2> QED BY <2>1, <2>2, <2>3
<1>5. LinkFree /\ CloneSafe
  BY DEF Init, NoTodo, LinkFree, CloneSafe
<1> QED BY <1>1, <1>4, <1>5 DEF TreeInv, WellLinked

LEMMA StepTree ==
  ASSUME TreeInv, [Next]_vars
  PROVE  TreeInv'
<1>1. MutInv'
  BY StepMutable DEF TreeInv
<1>2. RefType'
  BY <1>1 DEF MutInv, CountInv
<1>3. CASE UNCHANGED vars
  <2>1. UNCHANGED <<red, todo>> /\ Quiet(red')
    BY <1>3 DEF vars, Quiet, Keeps
  <2>2. WellLinked' /\ LinkFree' /\ CloneSafe'
    BY <1>2, <2>1, TreeIsForested, QuietForest DEF TreeInv, WellLinked, LinkFree, CloneSafe, Childless
  <2> QED BY <1>1, <2>2 DEF TreeInv
<1> QED BY <1>1, <1>2, <1>3, OperationLinked, LoopLinked DEF Next, TreeInv

(***************************************************************************)
(* Whatever is detached, attached, cloned for update or freed, the list a  *)
(* mutable NodeData keeps holds exactly its live children, no two of them  *)
(* for one slot: NodeData::new finds the child that exists, and unlinking  *)
(* never misses the one it frees (sll.rs, cursor.rs).                      *)
(***************************************************************************)
THEOREM ListsAreExact == Spec => []LinksExact
<1>1. TreeInv => LinksExact
  BY DEF TreeInv, WellLinked
<1> QED BY <1>1, InitTree, StepTree, PTL DEF Spec

-----------------------------------------------------------------------------
(***************************************************************************)
(* The green tree, as the cursors own and change it.                       *)
(***************************************************************************)

-----------------------------------------------------------------------------
(***************************************************************************)
(* The inductive invariant.                                                *)
(***************************************************************************)
(* The reds the panic of an attach_child left intact. *)
Safe(n) == red[n] # FreeRed /\ stolen \notin Above(red, n)

Fits(n) ==
  LET g == CurrentGreen(red[n].parent)
  IN  red[n].index \in Slots(heap, g) /\ Kid(heap, g, red[n].index) = red[n].green

Matches == \A n \in Reds : Safe(n) /\ red[n].parent # NULL => Fits(n)

Roots(q, x) == {n \in Reds : q[n].parent = NULL /\ q[n].green = x}

(* The owners of an element that are not slots of green nodes. *)
Outside(x) ==
  Cardinality(Roots(red, x)) + One(kept = x) + One(spine.green = x) + Times(x, drops)

Owned == \A x \in Greens : Excess(heap, x) = Outside(x)

GreenSet == \A n \in Reds : red[n].green \in Greens \/ red[n] = FreeRed

Stored ==
  /\ HeapType(heap) /\ Blank(heap)
  /\ kept \in GreenOrNull /\ spine.green \in GreenOrNull
  /\ drops \in Seq(Greens) /\ edits \in Nat

(***************************************************************************)
(* While respine or replace_with runs nothing is dropped or freed; the     *)
(* node respine works at is mutable; clone_for_update has copied an        *)
(* ancestor of the node at the same depth.                                 *)
(***************************************************************************)
RespineSafe ==
  spine.node # NULL => /\ spine.green \in Greens
                       /\ red[spine.node].mutable /\ red[spine.node].green \in Greens
                       /\ dying = NULL /\ drops = <<>> /\ stolen = NULL

ReplaceSafe ==
  IF todo.stage = "replace" THEN spine.green \in Greens /\ drops = <<>> /\ stolen = NULL
                            ELSE spine.node = NULL => spine.green = NULL

PanicSafe ==
  /\ todo.stage = "link" => stolen = NULL
  /\ stolen # NULL => stolen \in Reds /\ todo.stage \in {"none", "drop"}

FreeSafe == dying # NULL => red[dying].green \in Greens

CopySafe ==
  todo.stage = "clone" =>
    /\ drops = <<>> /\ stolen = NULL
    /\ \E b \in Above(red, todo.node) :
         Height(red, b) = Height(red, todo.child) /\ red[b].green = red[todo.child].green

Stages == RespineSafe /\ ReplaceSafe /\ PanicSafe /\ FreeSafe /\ CopySafe

GreenInv == Stored /\ Owned /\ GreenSet /\ Matches /\ Stages

-----------------------------------------------------------------------------
(***************************************************************************)
(* Counting roots.                                                         *)
(***************************************************************************)
LEMMA RootsType ==
  ASSUME NEW q, NEW x
  PROVE  /\ IsFiniteSet(Roots(q, x)) /\ Cardinality(Roots(q, x)) \in Nat
         /\ \A n \in Roots(q, x) : Cardinality(Roots(q, x)) > 0
<1>1. IsFiniteSet(Roots(q, x))
  BY RedsAssumption, FS_Subset DEF Roots
<1>2. Cardinality(Roots(q, x)) \in Nat
  BY <1>1, FS_CardinalityType
<1>3. Cardinality(Roots(q, x)) = 0 <=> Roots(q, x) = {}
  BY <1>1, FS_EmptySet
<1> QED BY <1>1, <1>2, <1>3

(* Reds that agree on parents and greens, but for one. *)
LEMMA RootsDiffer ==
  ASSUME NEW r, NEW q, NEW c \in Reds,
         \A n \in Reds \ {c} : q[n].parent = r[n].parent /\ q[n].green = r[n].green
  PROVE  \A x : Cardinality(Roots(q, x)) =
                  Cardinality(Roots(r, x)) - One(r[c].parent = NULL /\ r[c].green = x)
                                           + One(q[c].parent = NULL /\ q[c].green = x)
<1> SUFFICES ASSUME NEW x
             PROVE  Cardinality(Roots(q, x)) =
                      Cardinality(Roots(r, x)) - One(r[c].parent = NULL /\ r[c].green = x)
                                               + One(q[c].parent = NULL /\ q[c].green = x)
  OBVIOUS
<1>1. IsFiniteSet(Roots(q, x)) /\ IsFiniteSet(Roots(r, x))
  BY RootsType
<1>2. Roots(r, x) \ {c} = Roots(q, x) \ {c}
  BY DEF Roots
<1>3. /\ One(c \in Roots(r, x)) = One(r[c].parent = NULL /\ r[c].green = x)
      /\ One(c \in Roots(q, x)) = One(q[c].parent = NULL /\ q[c].green = x)
  BY DEF Roots, One
<1> HIDE DEF Roots
<1> QED BY <1>1, <1>2, <1>3, DifferInOne

LEMMA RootsChange ==
  ASSUME NEW c \in Reds, NEW x,
         \A n \in Reds \ {c} : red'[n].parent = red[n].parent /\ red'[n].green = red[n].green
  PROVE  Cardinality(Roots(red', x)) =
           Cardinality(Roots(red, x)) - One(red[c].parent = NULL /\ red[c].green = x)
                                      + One(red'[c].parent = NULL /\ red'[c].green = x)
BY RootsDiffer

LEMMA RootsSame ==
  ASSUME NEW r, NEW q,
         \A n \in Reds : q[n].parent = r[n].parent /\ q[n].green = r[n].green
  PROVE  \A x : Roots(q, x) = Roots(r, x)
BY DEF Roots

(* What is outside the heap is counted by natural numbers. *)
LEMMA OutsideType ==
  ASSUME Stored, NEW x \in Greens
  PROVE  /\ Cardinality(Roots(red, x)) \in Nat /\ One(kept = x) \in Nat
         /\ One(spine.green = x) \in Nat /\ Times(x, drops) \in Nat
         /\ Outside(x) \in Nat
         /\ Outside(x) = Cardinality(Roots(red, x)) + One(kept = x)
                         + One(spine.green = x) + Times(x, drops)
<1>1. Cardinality(Roots(red, x)) \in Nat
  BY RootsType
<1>2. Times(x, drops) \in Nat
  BY TimesType DEF Stored
<1>3. One(kept = x) \in Nat /\ One(spine.green = x) \in Nat
  BY OneType
<1> QED BY <1>1, <1>2, <1>3 DEF Outside

LEMMA OwnedIsNat ==
  ASSUME Stored, Owned, NEW x \in Greens
  PROVE  /\ Excess(heap, x) \in Nat /\ Excess(heap, x) = Outside(x)
         /\ Excess(heap, x) >= 0
BY OutsideType DEF Owned

-----------------------------------------------------------------------------
(***************************************************************************)
(* Whatever an intact red points at is owned by more than the references   *)
(* still to be dropped.                                                    *)
(***************************************************************************)
HasOwner(g) == g \in Greens /\ heap[g].cnt > Times(g, drops)

LEMMA RootIsOwned ==
  ASSUME Stored, Owned, NEW g \in Greens,
         \/ \E n \in Reds : red[n].parent = NULL /\ red[n].green = g
         \/ spine.green = g
         \/ kept = g
  PROVE  HasOwner(g)
<1>1. Cardinality(Roots(red, g)) > 0 \/ One(spine.green = g) > 0 \/ One(kept = g) > 0
  <2>1. CASE \E n \in Reds : red[n].parent = NULL /\ red[n].green = g
    <3>1. PICK n \in Reds : n \in Roots(red, g)
      BY <2>1 DEF Roots
    <3> QED BY <3>1, RootsType
  <2>2. spine.green = g => One(spine.green = g) > 0
    BY DEF One
  <2>3. kept = g => One(kept = g) > 0
    BY DEF One
  <2> QED BY <2>1, <2>2, <2>3
<1>2. Excess(heap, g) > Times(g, drops) /\ Times(g, drops) \in Nat
  BY <1>1, OutsideType, OwnedIsNat
<1>3. /\ heap[g].cnt = Excess(heap, g) + Cardinality(SlotsOf(heap, g))
      /\ Cardinality(SlotsOf(heap, g)) \in Nat /\ Excess(heap, g) \in Nat
  BY ExcessType, OwnedIsNat DEF Stored
<1> QED BY <1>2, <1>3 DEF HasOwner

LEMMA SlotIsOwned ==
  ASSUME Stored, Owned, NEW k \in Greens, NEW i \in Slots(heap, k)
  PROVE  HasOwner(Kid(heap, k, i))
<1>1. /\ heap[k].kids \in Seq(Greens) /\ i + 1 \in 1 .. Len(heap[k].kids)
      /\ Kid(heap, k, i) = heap[k].kids[i + 1] /\ Kid(heap, k, i) \in Greens
  BY SlotPlace DEF Stored
<1>2. PICK g \in Greens, j \in DOMAIN heap[k].kids : g = Kid(heap, k, i) /\ g = heap[k].kids[j]
  BY <1>1
<1>3. Cardinality(SlotsOf(heap, g)) > 0
  BY <1>2, SlotsPositive DEF Stored
<1>4. /\ heap[g].cnt = Excess(heap, g) + Cardinality(SlotsOf(heap, g))
      /\ Cardinality(SlotsOf(heap, g)) \in Nat /\ Excess(heap, g) \in Nat
  BY ExcessType, OwnedIsNat DEF Stored
<1>5. Excess(heap, g) >= Times(g, drops) /\ Times(g, drops) \in Nat
  BY OutsideType, OwnedIsNat
<1>6. heap[g].cnt > Times(g, drops)
  BY <1>3, <1>4, <1>5
<1> QED BY <1>2, <1>6 DEF HasOwner

LEMMA OwnedIsTaken ==
  ASSUME Stored, NEW g, HasOwner(g), NEW a \in FreeGreens(heap)
  PROVE  g # a /\ heap[g].cnt > 0
<1>1. Times(g, drops) \in Nat /\ heap[g].cnt \in Nat
  BY TimesType DEF Stored, HeapType, HasOwner
<1> QED BY <1>1 DEF HasOwner, FreeGreens

(* A live red has a green, and so have its ancestors. *)
LEMMA LiveHasGreen ==
  ASSUME GreenSet, NEW n \in Reds, red[n].rc > 0
  PROVE  red[n].green \in Greens /\ red[n] # FreeRed
BY LiveIsTaken DEF GreenSet

LEMMA ParentHasGreen ==
  ASSUME TreeInv, GreenSet, NEW n \in Reds, red[n].parent # NULL
  PROVE  /\ red[n].parent \in Reds /\ red[red[n].parent].rc > 0
         /\ red[red[n].parent].green \in Greens /\ red[red[n].parent] # FreeRed
         /\ red[n] # FreeRed
<1>1. red[n].parent \in Reds
  BY TreeIsForested DEF Parents, RedOrNull
<1>2. red[red[n].parent].rc > 0
  BY <1>1, TreeIsForested, Referenced DEF Forested
<1>3. red[n] # FreeRed
  BY DEF FreeRed
<1> QED BY <1>1, <1>2, <1>3, LiveHasGreen

LEMMA CurrentIsGreen ==
  ASSUME TreeInv, GreenInv, NEW n \in Reds, red[n].parent # NULL
  PROVE  CurrentGreen(red[n].parent) \in Greens
BY ParentHasGreen DEF GreenInv, Stages, RespineSafe, CurrentGreen

LEMMA ParentIsSafe ==
  ASSUME TreeInv, NEW n \in Reds, Safe(n), red[n].parent # NULL
  PROVE  red[n].parent \in Reds /\ Safe(red[n].parent)
<1>1. red[n].parent \in Reds /\ Parents(red)
  BY TreeIsForested DEF Parents, RedOrNull
<1>2. Above(red, red[n].parent) \subseteq Above(red, n)
  BY <1>1, AboveParent
<1>3. red[red[n].parent] # FreeRed
  BY <1>1, TreeIsForested, Referenced, LiveIsTaken DEF Forested
<1> QED BY <1>1, <1>2, <1>3 DEF Safe

LEMMA SafeIsOwned ==
  ASSUME TreeInv, GreenInv, NEW n \in Reds, Safe(n)
  PROVE  HasOwner(red[n].green) /\ HasOwner(CurrentGreen(n))
<1>1. red[n].green \in Greens
  BY DEF GreenInv, GreenSet, Safe
<1>2. HasOwner(red[n].green)
  <2>1. CASE red[n].parent = NULL
    BY <1>1, <2>1, RootIsOwned DEF GreenInv
  <2>2. CASE red[n].parent # NULL
    <3>1. PICK g \in Greens : g = CurrentGreen(red[n].parent)
      BY <2>2, CurrentIsGreen
    <3>2. PICK i \in Slots(heap, g) : red[n].green = Kid(heap, g, i)
      BY <2>2, <3>1 DEF GreenInv, Matches, Fits
    <3> QED BY <3>2, SlotIsOwned DEF GreenInv
  <2> QED BY <2>1, <2>2
<1>3. CASE spine.node # n
  BY <1>2, <1>3 DEF CurrentGreen
<1>4. CASE spine.node = n
  <2>1. spine.green \in Greens
    BY <1>4, RedsAssumption DEF GreenInv, Stages, RespineSafe
  <2> QED BY <1>2, <1>4, <2>1, RootIsOwned DEF GreenInv, CurrentGreen
<1> QED BY <1>2, <1>3, <1>4

-----------------------------------------------------------------------------
(***************************************************************************)
(* Where the slots of owned nodes stay what they are, a red fits as long   *)
(* as it and the current green of its parent stay.                         *)
(***************************************************************************)
Spares(h) == \A k \in Greens : heap[k].cnt > Times(k, drops) => h[k].kids = heap[k].kids

Stays(n) ==
  /\ Safe(n)
  /\ red'[n].parent = red[n].parent /\ red'[n].index = red[n].index
  /\ red'[n].green = red[n].green
  /\ CurrentGreen(red[n].parent)' = CurrentGreen(red[n].parent)

LEMMA FitsStill ==
  ASSUME TreeInv, GreenInv, Spares(heap'), NEW n \in Reds, red[n].parent # NULL, Stays(n)
  PROVE  Fits(n)'
<1> DEFINE p == red[n].parent
<1>1. p \in Reds /\ Safe(p)
  BY ParentIsSafe DEF Stays
<1>2. PICK g \in Greens : g = CurrentGreen(p) /\ heap'[g].kids = heap[g].kids
  BY <1>1, SafeIsOwned DEF HasOwner, Spares
<1>3. red[n].index \in Slots(heap, g) /\ Kid(heap, g, red[n].index) = red[n].green
  BY <1>2 DEF GreenInv, Matches, Fits, Stays
<1>4. CurrentGreen(p)' = g
  BY <1>2 DEF Stays
<1>5. red'[n].parent = p /\ red'[n].index = red[n].index /\ red'[n].green = red[n].green
  BY DEF Stays
<1> QED BY <1>2, <1>3, <1>4, <1>5 DEF Fits, Slots, Kid

LEMMA MatchesStill ==
  ASSUME TreeInv, GreenInv, Spares(heap'),
         \A n \in Reds : Safe(n)' /\ red'[n].parent # NULL => Fits(n)' \/ Stays(n)
  PROVE  Matches'
<1> SUFFICES ASSUME NEW n \in Reds, Safe(n)', red'[n].parent # NULL
             PROVE  Fits(n)'
  BY DEF Matches
<1>1. CASE Stays(n)
  <2>1. red[n].parent # NULL
    BY <1>1 DEF Stays
  <2> QED BY <1>1, <2>1, FitsStill
<1> QED BY <1>1

LEMMA SafeWithoutPanic ==
  ASSUME stolen = NULL
  PROVE  \A n \in Reds : Safe(n) <=> red[n] # FreeRed
BY RedsAssumption DEF Safe, Above

LEMMA SafeWithoutPanicNext ==
  ASSUME stolen' = NULL, NEW n \in Reds, Safe(n)'
  PROVE  red'[n] # FreeRed
BY DEF Safe

(* A step that moves no parent. *)
LEMMA QuietSafe ==
  ASSUME Quiet(red'), stolen' = stolen, NEW n \in Reds, Safe(n)'
  PROVE  Safe(n)
<1>1. \A S \in SUBSET Reds : Closed(red', S) <=> Closed(red, S)
  BY DEF Quiet, Keeps, Closed
<1>2. Above(red', n) = Above(red, n)
  BY <1>1 DEF Above
<1>3. red'[n] # FreeRed /\ stolen' \notin Above(red', n)
  BY DEF Safe
<1>4. red[n] # FreeRed
  BY <1>3 DEF Quiet, Keeps
<1> QED BY <1>2, <1>3, <1>4 DEF Safe

LEMMA QuietMatches ==
  ASSUME TreeInv, GreenInv, Quiet(red'), Spares(heap'), stolen' = stolen,
         spine'.node = spine.node, spine.node = NULL
  PROVE  Matches' /\ GreenSet'
<1>1. ASSUME NEW n \in Reds, Safe(n)', red'[n].parent # NULL
      PROVE  Stays(n)
  <2>1. Safe(n)
    BY <1>1, QuietSafe
  <2>2. /\ red'[n].parent = red[n].parent /\ red'[n].index = red[n].index
        /\ red'[n].green = red[n].green
    BY DEF Quiet, Keeps
  <2>3. red[n].parent \in Reds /\ red[n].parent # NULL
    BY <1>1, <2>2, ParentHasGreen DEF GreenInv
  <2>4. red'[red[n].parent].green = red[red[n].parent].green
    BY <2>3 DEF Quiet, Keeps
  <2>5. CurrentGreen(red[n].parent)' = CurrentGreen(red[n].parent)
    BY <2>2, <2>3, <2>4 DEF CurrentGreen
  <2> QED BY <2>1, <2>2, <2>5 DEF Stays
<1>2. Matches'
  BY <1>1, MatchesStill
<1>3. GreenSet'
  BY DEF GreenInv, GreenSet, Quiet, Keeps
<1> QED BY <1>2, <1>3

-----------------------------------------------------------------------------
(***************************************************************************)
(* Operations that leave the green tree alone.                             *)
(***************************************************************************)
LEMMA CalmStages ==
  ASSUME Idle, UNCHANGED <<spine, todo, stolen>>, stolen \in RedOrNull,
         dying' # NULL => red'[dying'].green \in Greens
  PROVE  Stages'
<1>1. spine'.node = NULL /\ spine'.green = NULL /\ todo'.stage = "none"
  BY DEF Idle, NoSpine, NoTodo
<1> QED
  BY <1>1 DEF Stages, RespineSafe, ReplaceSafe, PanicSafe, FreeSafe, CopySafe, RedOrNull

LEMMA QuietGreen ==
  ASSUME TreeInv, GreenInv, Quiet(red'), Idle, UNCHANGED <<heap, spine, todo, stolen>>,
         edits' \in Nat, kept' \in GreenOrNull, drops' \in Seq(Greens),
         \A x \in Greens : One(kept' = x) + Times(x, drops') = One(kept = x) + Times(x, drops),
         dying' # NULL => dying' \in Reds /\ red[dying'].rc > 0
  PROVE  GreenInv'
<1>1. Spares(heap')
  BY DEF Spares
<1>2. Matches' /\ GreenSet'
  BY <1>1, IdleHolds, QuietMatches
<1>3. dying' # NULL => red'[dying'].green \in Greens
  BY LiveHasGreen DEF GreenInv, Quiet, Keeps
<1>4. Stages'
  BY <1>3, CalmStages, TreeIsForested DEF Forested, RefType
<1>5. Stored'
  BY DEF GreenInv, Stored, GreenOrNull
<1>6. ASSUME NEW x \in Greens PROVE Excess(heap', x) = Outside(x)'
  <2>1. Roots(red', x) = Roots(red, x)
    BY RootsSame DEF Quiet, Keeps
  <2>2. /\ Cardinality(Roots(red, x)) \in Nat /\ One(kept = x) \in Nat
        /\ One(spine.green = x) \in Nat /\ Times(x, drops) \in Nat
        /\ Excess(heap, x) = Cardinality(Roots(red, x)) + One(kept = x)
                             + One(spine.green = x) + Times(x, drops)
    BY OutsideType DEF GreenInv, Owned
  <2>3. One(kept' = x) \in Nat /\ Times(x, drops') \in Nat
    BY OneType, TimesType
  <2>4. One(kept' = x) + Times(x, drops') = One(kept = x) + Times(x, drops)
    OBVIOUS
  <2>5. Outside(x)' = Cardinality(Roots(red, x)) + One(kept' = x)
                      + One(spine.green = x) + Times(x, drops')
    BY <2>1 DEF Outside
  <2>6. PICK r \in Nat, k \in Nat, g \in Nat, t \in Nat :
          /\ r = Cardinality(Roots(red, x)) /\ k = One(kept = x)
          /\ g = One(spine.green = x) /\ t = Times(x, drops)
    BY <2>2
  <2>7. PICK l \in Nat, u \in Nat : l = One(kept' = x) /\ u = Times(x, drops')
    BY <2>3
  <2>8. Excess(heap, x) = r + k + g + t /\ Outside(x)' = r + l + g + u /\ l + u = k + t
    BY <2>2, <2>4, <2>5, <2>6, <2>7
  <2> QED BY <2>8
<1>7. Owned'
  BY <1>6 DEF Owned
<1> QED BY <1>2, <1>4, <1>5, <1>7 DEF GreenInv

LEMMA ChildPlaced ==
  ASSUME TreeInv, GreenInv, spine.node = NULL, stolen = NULL,
         UNCHANGED <<heap, kept, spine, drops, stolen, edits>>,
         NEW c, NEW p \in Reds, red[p].rc > 0, NEW i \in Slots(heap, red[p].green),
         MakesChild(red', c, p, i, Kid(heap, red[p].green, i))
  PROVE  Stored' /\ Owned' /\ GreenSet' /\ Matches'
<1>1. Spares(heap')
  BY DEF Spares
<1>2. /\ c \in Reds /\ red[c] = FreeRed /\ p # c
      /\ red'[c].parent = p /\ red'[c].index = i /\ red'[c].green = Kid(heap, red[p].green, i)
      /\ red'[p].parent = red[p].parent /\ red'[p].index = red[p].index
      /\ red'[p].green = red[p].green
      /\ \A n \in Reds \ {c, p} : Keeps(red', n)
  BY DEF MakesChild
<1>3. \A n \in Reds \ {c} : /\ red'[n].parent = red[n].parent /\ red'[n].index = red[n].index
                            /\ red'[n].green = red[n].green
  BY <1>2 DEF Keeps
<1>4. Childless(c) /\ red[c].parent = NULL
  BY <1>2, FreeIsChildless, TreeIsForested DEF Forested
<1>5. red[p].green \in Greens /\ red[p] # FreeRed /\ red'[c].green \in Greens
  <2>1. red[p].green \in Greens /\ red[p] # FreeRed
    BY LiveHasGreen DEF GreenInv
  <2> QED BY <1>2, <2>1, SlotPlace DEF GreenInv, Stored
<1>6. spine.node = NULL /\ spine' = spine /\ stolen = NULL /\ stolen' = NULL
  OBVIOUS
<1>7. Fits(c)'
  <2>1. CurrentGreen(p)' = red[p].green
    BY <1>2, <1>6, RedsAssumption DEF CurrentGreen
  <2> QED BY <1>2, <2>1 DEF Fits
<1>8. ASSUME NEW n \in Reds, Safe(n)', red'[n].parent # NULL, n # c
      PROVE  Stays(n)
  <2>1. Safe(n)
    <3>1. red'[n] # FreeRed
      BY <1>6, <1>8, SafeWithoutPanicNext
    <3>2. red[n] # FreeRed
      BY <1>2, <1>5, <1>8, <3>1 DEF Keeps
    <3> QED BY <1>6, <3>2, SafeWithoutPanic
  <2>2. red[n].parent \in Reds /\ red[n].parent # c
    BY <1>3, <1>4, <1>8, ParentHasGreen DEF GreenInv, Childless
  <2>3. CurrentGreen(red[n].parent)' = CurrentGreen(red[n].parent)
    BY <1>3, <1>6, <1>8, <2>2 DEF CurrentGreen
  <2> QED BY <1>3, <1>8, <2>1, <2>3 DEF Stays
<1>9. Matches'
  BY <1>1, <1>7, <1>8, MatchesStill
<1>10. GreenSet'
  BY <1>2, <1>5 DEF GreenInv, GreenSet, Keeps
<1>11. Stored'
  BY DEF GreenInv, Stored, GreenOrNull
<1>12. ASSUME NEW x \in Greens PROVE Excess(heap', x) = Outside(x)'
  <2>1. Cardinality(Roots(red', x)) = Cardinality(Roots(red, x)) - One(red[c].parent = NULL /\ red[c].green = x)
                                        + One(red'[c].parent = NULL /\ red'[c].green = x)
    <3>1. c \in Reds
      BY <1>2
    <3>2. \A n \in Reds \ {c} : red'[n].parent = red[n].parent /\ red'[n].green = red[n].green
      BY <1>3
    <3> QED BY <3>1, <3>2, RootsDiffer
  <2>2. ~ (red[c].parent = NULL /\ red[c].green = x) /\ red'[c].parent # NULL
    BY <1>2, GreensAssumption, RedsAssumption DEF FreeRed
  <2>3. Cardinality(Roots(red', x)) = Cardinality(Roots(red, x))
    BY <2>1, <2>2, RootsType DEF One
  <2> QED BY <2>3 DEF GreenInv, Owned, Outside
<1>13. Owned'
  BY <1>12 DEF Owned
<1> QED BY <1>9, <1>10, <1>11, <1>13

LEMMA ChildGreen ==
  ASSUME TreeInv, GreenInv, User, UNCHANGED <<heap, kept, spine, drops, todo, stolen, edits>>,
         NEW c, NEW p \in Reds, red[p].rc > 0, NEW i \in Slots(heap, red[p].green),
         MakesChild(red', c, p, i, Kid(heap, red[p].green, i)),
         dying' # NULL => dying' \in Reds /\ red[dying'].rc > 0
  PROVE  GreenInv'
<1>1. spine.node = NULL /\ stolen = NULL /\ Idle
  BY IdleHolds DEF User
<1>2. Stored' /\ Owned' /\ GreenSet' /\ Matches'
  BY <1>1, ChildPlaced
<1>3. c \in Reds /\ red[c] = FreeRed /\ \A n \in Reds \ {c} : red'[n].green = red[n].green
  <2>1. /\ c \in Reds /\ red[c] = FreeRed /\ red'[p].green = red[p].green
        /\ \A n \in Reds \ {c, p} : Keeps(red', n)
    BY DEF MakesChild
  <2> QED BY <2>1 DEF Keeps
<1>4. dying' # NULL => red'[dying'].green \in Greens
  <2>1. ASSUME dying' # NULL PROVE dying' # c
    BY <1>3, <2>1, LiveIsTaken
  <2> QED BY <1>3, <2>1, LiveHasGreen DEF GreenInv
<1>5. Stages'
  BY <1>1, <1>4, CalmStages DEF RedOrNull
<1> QED BY <1>2, <1>5 DEF GreenInv

LEMMA StoredStays ==
  ASSUME Stored, UNCHANGED <<heap, kept, spine, drops, edits>>
  PROVE  Stored'
BY DEF Stored, GreenOrNull

LEMMA LooksGreen ==
  ASSUME TreeInv, GreenInv, User, UNCHANGED <<heap, kept, spine, drops, todo, stolen, edits>>,
         NEW p \in Reds, red[p].rc > 0, NEW i \in Slots(heap, red[p].green),
         Quiet(red') \/ \E c : MakesChild(red', c, p, i, Kid(heap, red[p].green, i)),
         dying' # NULL => dying' \in Reds /\ red[dying'].rc > 0
  PROVE  GreenInv'
<1>1. CASE Quiet(red')
  <2>1. edits' \in Nat /\ kept' \in GreenOrNull /\ drops' \in Seq(Greens)
    BY DEF GreenInv, Stored
  <2> QED BY <1>1, <2>1, QuietGreen DEF User
<1>2. ASSUME NEW c, MakesChild(red', c, p, i, Kid(heap, red[p].green, i))
      PROVE  GreenInv'
  BY <1>2, ChildGreen
<1> QED BY <1>1, <1>2

LEMMA DropGreens ==
  ASSUME TreeInv, GreenInv, NEW n \in Reds, red[n].rc > 0, Idle, Release(red, n),
         UNCHANGED <<heap, kept, spine, drops, todo, stolen, edits>>
  PROVE  GreenInv'
<1>1. Quiet(red')
  BY ReleaseQuiet, TreeIsForested DEF Forested
<1>2. dying' # NULL => dying' \in Reds /\ red[dying'].rc > 0
  BY DEF Release
<1>3. edits' \in Nat /\ kept' \in GreenOrNull /\ drops' \in Seq(Greens)
  BY DEF GreenInv, Stored
<1> QED BY <1>1, <1>2, <1>3, QuietGreen

LEMMA DropKeptGreen ==
  ASSUME TreeInv, GreenInv, DropKept
  PROVE  GreenInv'
<1>1. /\ Idle /\ kept # NULL /\ kept' = NULL /\ drops' = <<kept>> /\ drops = <<>>
      /\ UNCHANGED <<heap, red, spine, dying, todo, stolen, edits>>
  BY DEF DropKept, Idle
<1>2. Quiet(red')
  BY <1>1 DEF Quiet, Keeps
<1>3. kept \in Greens /\ edits' \in Nat /\ kept' \in GreenOrNull /\ drops' \in Seq(Greens)
  BY <1>1 DEF GreenInv, Stored, GreenOrNull
<1>4. ASSUME NEW x \in Greens
      PROVE  One(kept' = x) + Times(x, drops') = One(kept = x) + Times(x, drops)
  <2>1. One(kept' = x) = 0
    BY <1>1, GreensAssumption DEF One
  <2>2. Times(x, drops') = One(kept = x) /\ Times(x, drops) = 0
    BY <1>1, TimesOne, TimesEmpty
  <2>3. PICK k \in Nat : k = One(kept = x)
    BY OneType
  <2> QED BY <2>1, <2>2, <2>3
<1>5. dying' = NULL
  BY <1>1 DEF Idle
<1> QED BY <1>1, <1>2, <1>3, <1>4, <1>5, QuietGreen

LEMMA ReferGreen ==
  ASSUME TreeInv, GreenInv, NEW h \in Handles, NEW new \in Handles,
         Clone(h, new) \/ Parent(h, new)
  PROVE  GreenInv'
<1>1. PICK n \in Reds : Refer(n, new) /\ Idle /\ red[n].rc > 0
  <2>1. handle[h] \in Reds /\ red[handle[h]].rc > 0
    BY TreeIsForested, Referenced DEF Clone, Parent, Forested, RefType, RedOrNull
  <2> QED BY <2>1, ParentHasGreen DEF Clone, Parent, User, GreenInv
<1>2. Quiet(red') /\ UNCHANGED <<heap, kept, spine, dying, drops, todo, stolen, edits>>
  BY <1>1, ReferQuiet, TreeIsForested DEF Forested, Refer
<1>3. edits' \in Nat /\ kept' \in GreenOrNull /\ drops' \in Seq(Greens) /\ dying' = NULL
  BY <1>1, <1>2 DEF GreenInv, Stored, Idle
<1> QED BY <1>1, <1>2, <1>3, QuietGreen

LEMMA NavigateGreen ==
  ASSUME TreeInv, GreenInv, NEW h \in Handles, NEW K, NEW new \in Handles,
         \/ FirstChild(h, K, new) \/ LastChild(h, K, new)
         \/ NextSibling(h, K, new) \/ PrevSibling(h, K, new)
  PROVE  GreenInv'
<1>1. PICK p \in Reds, i \in Nat :
        red[p].rc > 0 /\ i \in Slots(heap, red[p].green) /\ NewChild(p, i, new)
  BY NavigateLooks, TreeIsForested
<1>2. Quiet(red') \/ \E c : MakesChild(red', c, p, i, Kid(heap, red[p].green, i))
  BY <1>1, NewChildMade, TreeIsForested
<1>3. User
  BY DEF FirstChild, LastChild, NextSibling, PrevSibling
<1>4. UNCHANGED <<heap, kept, spine, dying, drops, todo, stolen, edits>>
  BY <1>1 DEF NewChild
<1>5. dying' = NULL
  BY <1>3, <1>4 DEF User, Idle
<1> QED BY <1>1, <1>2, <1>3, <1>4, <1>5, LooksGreen

(* The red that moves to its sibling in place is in no list and has no children. *)
LEMMA StepInPlaceGreen ==
  ASSUME TreeInv, GreenInv, NEW h \in Handles, NEW K, StepInPlace(h, K)
  PROVE  GreenInv'
<1>1. /\ User /\ UNCHANGED <<heap, kept, spine, dying, drops, todo, stolen, edits>>
      /\ red[handle[h]].rc = 1
  BY DEF StepInPlace, CanTakePtr
<1>2. PICK n \in Reds : n = handle[h] /\ Childless(n)
  BY <1>1, StepInPlaceMoves, TreeIsForested DEF User
<1>3. PICK i \in After(n, K) : Moves(red', n, i, Kid(heap, red[red[n].parent].green, i))
  BY <1>1, <1>2, StepInPlaceMoves, TreeIsForested DEF User
<1>4. red[n].parent # NULL /\ i \in Slots(heap, red[red[n].parent].green)
  BY AfterIsSlot
<1>5. /\ red[n].parent \in Reds /\ red[n].parent # n
      /\ red[red[n].parent].green \in Greens
  BY <1>2, <1>4, ParentHasGreen DEF GreenInv, Childless
<1>6. /\ red'[n].parent = red[n].parent /\ red'[n].index = i
      /\ red'[n].green = Kid(heap, red[red[n].parent].green, i)
      /\ \A m \in Reds \ {n} : Keeps(red', m)
  BY <1>3 DEF Moves
<1>7. \A m \in Reds \ {n} : /\ red'[m].parent = red[m].parent /\ red'[m].index = red[m].index
                            /\ red'[m].green = red[m].green
  BY <1>6 DEF Keeps
<1>8. red'[n].green \in Greens
  BY <1>4, <1>5, <1>6, SlotPlace DEF GreenInv, Stored
<1>9. spine.node = NULL /\ spine' = spine /\ stolen = NULL /\ stolen' = NULL
  BY <1>1, IdleHolds DEF User
<1>10. Spares(heap')
  BY <1>1 DEF Spares
<1>11. Fits(n)'
  <2>1. PICK p \in Reds : p = red[n].parent /\ p # n
    BY <1>5
  <2>2. CurrentGreen(p)' = red[p].green
    BY <1>7, <1>9, <2>1, RedsAssumption DEF CurrentGreen
  <2>3. red'[n].parent = p /\ red'[n].index = i /\ red'[n].green = Kid(heap, red[p].green, i)
    BY <1>6, <2>1
  <2>4. i \in Slots(heap, red[p].green) /\ heap' = heap
    BY <1>1, <1>4, <2>1
  <2> QED BY <2>2, <2>3, <2>4 DEF Fits
<1>12. ASSUME NEW m \in Reds, Safe(m)', red'[m].parent # NULL, m # n
       PROVE  Stays(m)
  <2>1. Safe(m)
    BY <1>6, <1>9, <1>12, SafeWithoutPanicNext, SafeWithoutPanic DEF Keeps
  <2>2. red[m].parent \in Reds /\ red[m].parent # n
    BY <1>2, <1>7, <1>12, ParentHasGreen DEF GreenInv, Childless
  <2>3. CurrentGreen(red[m].parent)' = CurrentGreen(red[m].parent)
    BY <1>7, <1>9, <1>12, <2>2 DEF CurrentGreen
  <2> QED BY <1>7, <1>12, <2>1, <2>3 DEF Stays
<1>13. Matches'
  BY <1>10, <1>11, <1>12, MatchesStill
<1>14. GreenSet'
  BY <1>6, <1>8 DEF GreenInv, GreenSet, Keeps
<1>15. Stages'
  <2>1. dying' = NULL
    BY <1>1 DEF User, Idle
  <2> QED BY <1>1, <1>9, <2>1, CalmStages DEF User, RedOrNull
<1>16. Stored'
  BY <1>1, StoredStays DEF GreenInv
<1>17. ASSUME NEW x \in Greens PROVE Excess(heap', x) = Outside(x)'
  <2>1. Roots(red', x) = Roots(red, x)
    BY <1>4, <1>6, <1>7 DEF Roots
  <2> QED BY <1>1, <2>1 DEF GreenInv, Owned, Outside
<1>18. Owned'
  BY <1>17 DEF Owned
<1> QED BY <1>13, <1>14, <1>15, <1>16, <1>18 DEF GreenInv

LEMMA ToNextSiblingGreen ==
  ASSUME TreeInv, GreenInv, NEW h \in Handles, NEW K, ToNextSibling(h, K)
  PROVE  GreenInv'
<1>1. handle[h] \in Reds /\ User
  BY TreeIsForested
  DEF ToNextSibling, StepShared, StepInPlace, StepOffEnd, StepOffRoot, Steps, Forested, RefType, RedOrNull
<1>2. red[handle[h]].rc > 0
  BY <1>1, TreeIsForested, Referenced DEF Forested
<1>3. CASE StepShared(h, K)
  <2>1. PICK p \in Reds, i \in After(handle[h], K) :
          /\ p = red[handle[h]].parent /\ red[p].rc > 0
          /\ Quiet(red') \/ \E c : MakesChild(red', c, p, i, Kid(heap, red[p].green, i))
    BY <1>3, SharedHops, HopMade, TreeIsForested
  <2>2. i \in Slots(heap, red[p].green)
    BY <2>1, AfterIsSlot
  <2>3. UNCHANGED <<heap, kept, spine, drops, todo, stolen, edits>>
    BY <1>3 DEF StepShared
  <2>4. dying' = NULL \/ dying' = handle[h]
    BY <1>3 DEF StepShared, Release
  <2> QED BY <1>1, <1>2, <2>1, <2>2, <2>3, <2>4, LooksGreen
<1>4. CASE StepOffEnd(h, K)
  <2>1. Release(red, handle[h]) /\ UNCHANGED <<heap, kept, spine, drops, todo, stolen, edits>>
    BY <1>4 DEF StepOffEnd
  <2> QED BY <1>1, <1>2, <2>1, DropGreens DEF User
<1>5. CASE StepOffRoot(h, K)
  <2>1. UNCHANGED <<heap, kept, red, spine, dying, drops, todo, stolen, edits>>
    BY <1>5 DEF StepOffRoot
  <2>2. Quiet(red')
    BY <2>1 DEF Quiet, Keeps
  <2>3. edits' \in Nat /\ kept' \in GreenOrNull /\ drops' \in Seq(Greens) /\ dying' = NULL
    BY <1>1, <2>1 DEF GreenInv, Stored, User, Idle
  <2> QED BY <1>1, <2>1, <2>2, <2>3, QuietGreen DEF User
<1> QED BY <1>3, <1>4, <1>5, StepInPlaceGreen DEF ToNextSibling

-----------------------------------------------------------------------------
(***************************************************************************)
(* New roots: each owns the green node it is made for.                     *)
(***************************************************************************)
LEMMA RootGreen ==
  ASSUME TreeInv, GreenInv, User, NEW g \in Greens, heap' = ShareOne(heap, g),
         NEW c, NEW mut, MakesRoot(red', c, g, mut),
         UNCHANGED <<kept, spine, drops, stolen, edits>>
  PROVE  Stored' /\ Owned' /\ GreenSet' /\ Matches'
<1>1. /\ c \in Reds /\ red[c] = FreeRed /\ red'[c].parent = NULL /\ red'[c].green = g
      /\ \A n \in Reds \ {c} : Keeps(red', n)
  BY DEF MakesRoot
<1>2. \A n \in Reds \ {c} : /\ red'[n].parent = red[n].parent /\ red'[n].index = red[n].index
                            /\ red'[n].green = red[n].green
  BY <1>1 DEF Keeps
<1>3. Childless(c)
  BY <1>1, FreeIsChildless, TreeIsForested DEF Forested
<1>4. spine.node = NULL /\ spine' = spine /\ stolen = NULL /\ stolen' = NULL
  BY IdleHolds DEF User
<1>5. /\ HeapType(heap') /\ Blank(heap')
      /\ \A k \in Greens : heap'[k].kids = heap[k].kids
      /\ \A x \in Greens : Excess(heap', x) = Excess(heap, x) + One(g = x)
  BY ShareOneShares DEF GreenInv, Stored
<1>6. Spares(heap')
  BY <1>5 DEF Spares
<1>7. ASSUME NEW n \in Reds, Safe(n)', red'[n].parent # NULL
      PROVE  Stays(n)
  <2>1. n # c
    BY <1>1, <1>7
  <2>2. Safe(n)
    BY <1>1, <1>4, <1>7, <2>1, SafeWithoutPanicNext, SafeWithoutPanic DEF Keeps
  <2>3. red[n].parent \in Reds /\ red[n].parent # c
    BY <1>2, <1>3, <1>7, <2>1, ParentHasGreen DEF GreenInv, Childless
  <2>4. CurrentGreen(red[n].parent)' = CurrentGreen(red[n].parent)
    BY <1>2, <1>4, <2>1, <2>3 DEF CurrentGreen
  <2> QED BY <1>2, <2>1, <2>2, <2>4 DEF Stays
<1>8. Matches'
  BY <1>6, <1>7, MatchesStill
<1>9. GreenSet'
  BY <1>1 DEF GreenInv, GreenSet, Keeps
<1>10. Stored'
  BY <1>5 DEF GreenInv, Stored, GreenOrNull
<1>11. ASSUME NEW x \in Greens PROVE Excess(heap', x) = Outside(x)'
  <2>1. Cardinality(Roots(red', x)) = Cardinality(Roots(red, x)) - One(red[c].parent = NULL /\ red[c].green = x)
                                        + One(red'[c].parent = NULL /\ red'[c].green = x)
    <3>1. c \in Reds
      BY <1>1
    <3>2. \A n \in Reds \ {c} : red'[n].parent = red[n].parent /\ red'[n].green = red[n].green
      BY <1>2
    <3> QED BY <3>1, <3>2, RootsDiffer
  <2>2. ~ (red[c].parent = NULL /\ red[c].green = x)
    BY <1>1, GreensAssumption DEF FreeRed
  <2>3. Cardinality(Roots(red', x)) = Cardinality(Roots(red, x)) + One(g = x)
    BY <1>1, <2>1, <2>2, RootsType DEF One
  <2>4. Excess(heap', x) = Excess(heap, x) + One(g = x)
    BY <1>5
  <2>5. Outside(x)' = Cardinality(Roots(red', x)) + One(kept = x) + One(spine.green = x) + Times(x, drops)
    BY DEF Outside
  <2>6. PICK r \in Nat, l \in Nat, m \in Nat, t \in Nat, o \in Nat :
          /\ r = Cardinality(Roots(red, x)) /\ l = One(kept = x)
          /\ m = One(spine.green = x) /\ t = Times(x, drops) /\ o = One(g = x)
    BY OutsideType, OneType DEF GreenInv
  <2>7. Excess(heap, x) = r + l + m + t
    BY <2>6 DEF GreenInv, Owned, Outside
  <2>8. Outside(x)' = r + o + l + m + t /\ Excess(heap', x) = r + l + m + t + o
    BY <2>3, <2>4, <2>5, <2>6, <2>7
  <2> QED BY <2>8
<1>12. Owned'
  BY <1>11 DEF Owned
<1> QED BY <1>8, <1>9, <1>10, <1>12

LEMMA NewRootGreen ==
  ASSUME TreeInv, GreenInv, User, NEW g \in Greens, NEW mut, NEW h, NewRootData(g, mut, h)
  PROVE  GreenInv'
<1>1. /\ heap' = ShareOne(heap, g)
      /\ UNCHANGED <<kept, spine, dying, drops, todo, stolen, edits>>
  BY DEF NewRootData
<1>2. PICK c \in NextRed :
        red' = [red EXCEPT ![c] = [FreeRed EXCEPT !.rc = 1, !.green = g, !.mutable = mut]]
  BY DEF NewRootData
<1>3. MakesRoot(red', c, g, mut)
  BY <1>2, RootMade, TreeIsForested DEF Forested
<1>4. Stored' /\ Owned' /\ GreenSet' /\ Matches'
  BY <1>1, <1>3, RootGreen
<1>5. dying' = NULL /\ stolen \in RedOrNull
  BY <1>1 DEF User, Idle, RedOrNull
<1>6. Stages'
  BY <1>1, <1>5, CalmStages DEF User
<1> QED BY <1>4, <1>6 DEF GreenInv

(* The ancestors of a live red are live. *)
LEMMA AboveLive ==
  ASSUME TreeInv, NEW n \in Reds, red[n].rc > 0
  PROVE  \A a \in Above(red, n) : a \in Reds /\ red[a].rc > 0
<1> DEFINE S == {k \in Reds : red[k].rc > 0}
<1>1. Closed(red, S)
  BY TreeIsForested, Referenced DEF Closed, Forested, Parents, RedOrNull
<1>2. S \in SUBSET Reds /\ n \in S
  OBVIOUS
<1> HIDE DEF S
<1>3. \A a \in Above(red, n) : a \in S
  BY <1>1, <1>2 DEF Above
<1> QED BY <1>3 DEF S

LEMMA CloneForUpdateGreen ==
  ASSUME TreeInv, TreeInv', GreenInv, NEW h \in Handles, CloneForUpdate(h)
  PROVE  GreenInv'
<1>1. handle[h] \in Reds /\ red[handle[h]].rc > 0
  BY TreeIsForested, Referenced DEF CloneForUpdate, Forested, RefType, RedOrNull
<1>2. PICK n \in Reds : n = handle[h] /\ red[n].rc > 0
  BY <1>1
<1>3. PICK b \in Up[n], c \in NextRed :
        /\ red[b].parent = NULL
        /\ heap' = ShareOne(heap, red[b].green)
        /\ red' = [red EXCEPT ![c] = [FreeRed EXCEPT !.rc = 1, !.green = red[b].green,
                                                     !.mutable = TRUE]]
        /\ todo' = [stage |-> "clone", node |-> n, index |-> 0, child |-> c]
  BY <1>2 DEF CloneForUpdate
<1>4. /\ User /\ UNCHANGED <<kept, spine, dying, drops, stolen, edits>>
  BY DEF CloneForUpdate
<1>5. b \in Above(red, n) /\ b \in Reds /\ red[b].rc > 0 /\ red[b].green \in Greens
  <2>1. b \in Above(red, n)
    BY <1>3, UpIsAbove, TreeIsForested
  <2> QED BY <1>2, <2>1, AboveLive, LiveHasGreen DEF GreenInv
<1>6. PICK mut : mut = TRUE
  OBVIOUS
<1>7. MakesRoot(red', c, red[b].green, mut)
  BY <1>3, <1>6, RootMade, TreeIsForested DEF Forested
<1>8. Stored' /\ Owned' /\ GreenSet' /\ Matches'
  BY <1>3, <1>4, <1>5, <1>7, RootGreen
<1>9. /\ c \in Reds /\ red[c] = FreeRed /\ red'[c].parent = NULL /\ red'[c].green = red[b].green
      /\ \A m \in Reds \ {c} : Keeps(red', m)
  BY <1>7 DEF MakesRoot
<1>10. b # c /\ n # c
  BY <1>2, <1>5, <1>9, LiveIsTaken
<1>11. Childless(c) /\ \A m \in Reds : red'[m].parent # c
  <2>1. Childless(c)
    BY <1>9, FreeIsChildless, TreeIsForested DEF Forested
  <2>2. ASSUME NEW m \in Reds PROVE red'[m].parent # c
    <3>1. CASE m = c
      BY <1>9, <3>1, RedsAssumption
    <3>2. CASE m # c
      BY <1>9, <2>1, <3>2 DEF Keeps, Childless
    <3> QED BY <3>1, <3>2
  <2> QED BY <2>1, <2>2
<1>12. Parents(red) /\ Parents(red') /\ Acyclic(red')
  BY TreeIsForested DEF TreeInv, WellLinked, MutInv, CountInv, RefType, Parents
<1>13. b \in Above(red', n)
  <2>1. Above(red', n) = Above(red, n)
    BY <1>2, <1>9, <1>10, <1>11, <1>12, LeafAbove DEF Keeps, Childless
  <2> QED BY <1>5, <2>1
<1>14. red'[b].parent = NULL /\ red'[b].green = red[b].green
  BY <1>3, <1>5, <1>9, <1>10 DEF Keeps
<1>15. Height(red', b) = 1 /\ Height(red', c) = 1
  BY <1>5, <1>9, <1>12, <1>14, HeightParent
<1>16. CopySafe'
  <2>1. todo'.node = n /\ todo'.child = c /\ drops' = <<>> /\ stolen' = NULL
    BY <1>3, <1>4 DEF User, Idle
  <2>2. Height(red', b) = Height(red', c) /\ red'[b].green = red'[c].green
    BY <1>9, <1>14, <1>15
  <2> QED BY <1>13, <2>1, <2>2 DEF CopySafe
<1>17. RespineSafe' /\ ReplaceSafe' /\ PanicSafe' /\ FreeSafe'
  <2>1. /\ spine'.node = NULL /\ spine'.green = NULL /\ todo'.stage = "clone"
        /\ dying' = NULL /\ stolen' = NULL
    BY <1>3, <1>4 DEF User, Idle, NoSpine
  <2> QED BY <2>1 DEF RespineSafe, ReplaceSafe, PanicSafe, FreeSafe
<1> QED BY <1>8, <1>16, <1>17 DEF GreenInv, Stages

-----------------------------------------------------------------------------
(***************************************************************************)
(* Freeing a red hands the green of a root over to the references to be    *)
(* dropped.                                                                *)
(***************************************************************************)
LEMMA FreeGreen ==
  ASSUME TreeInv, TreeInv', GreenInv, FreeStep
  PROVE  GreenInv'
<1>1. PICK n \in Reds : n = dying
  BY TreeIsForested DEF FreeStep, Forested, RefType, RedOrNull
<1>2. /\ drops = <<>> /\ UNCHANGED <<heap, kept, spine, todo, stolen, edits>>
      /\ drops' = IF red[n].parent = NULL THEN <<red[n].green>> ELSE <<>>
  BY <1>1 DEF FreeStep
<1>3. Frees(red', n)
  BY <1>1, FreeFrees, TreeIsForested
<1>4. /\ Childless(n) /\ red'[n] = FreeRed
      /\ \A m \in Reds \ {n} : /\ red'[m].parent = red[m].parent /\ red'[m].index = red[m].index
                               /\ red'[m].green = red[m].green
                               /\ red[m] = FreeRed => red'[m] = FreeRed
  BY <1>3 DEF Frees
<1>5. red[n].green \in Greens /\ n # NULL
  BY <1>1, RedsAssumption DEF GreenInv, Stages, FreeSafe
<1>6. spine.node = NULL /\ todo.stage # "replace" /\ todo.stage # "clone"
  <2>1. spine.node = NULL
    BY <1>1, <1>5 DEF GreenInv, Stages, RespineSafe
  <2> QED BY <1>1, <1>5, <2>1, TreeIsForested DEF Accounted
<1>7. red'[n].parent = NULL /\ red'[n].green = NULL
  BY <1>4 DEF FreeRed
<1>8. \A m \in Reds : red'[m].parent # n
  BY <1>4, <1>7, RedsAssumption DEF Childless
<1>9. Parents(red) /\ Parents(red')
  BY TreeIsForested DEF TreeInv, MutInv, CountInv, RefType, Parents
<1>10. Spares(heap')
  BY <1>2 DEF Spares
<1>11. ASSUME NEW m \in Reds, Safe(m)', red'[m].parent # NULL
       PROVE  Stays(m)
  <2>1. m # n
    BY <1>7, <1>11
  <2>2. Above(red', m) = Above(red, m)
    BY <1>4, <1>8, <1>9, <2>1, LeafAbove DEF Childless
  <2>3. Safe(m)
    BY <1>2, <1>4, <1>11, <2>1, <2>2 DEF Safe
  <2>4. red[m].parent \in Reds /\ red[m].parent # n
    BY <1>4, <1>11, <2>1, ParentHasGreen DEF GreenInv, Childless
  <2>5. CurrentGreen(red[m].parent)' = CurrentGreen(red[m].parent)
    BY <1>2, <1>4, <1>6, <2>1, <2>4 DEF CurrentGreen
  <2> QED BY <1>4, <2>1, <2>3, <2>5 DEF Stays
<1>12. Matches'
  BY <1>10, <1>11, MatchesStill
<1>13. GreenSet'
  BY <1>4 DEF GreenInv, GreenSet
<1>14. Stored'
  <2>1. drops' \in Seq(Greens)
    BY <1>2, <1>5
  <2> QED BY <1>2, <2>1 DEF GreenInv, Stored, GreenOrNull
<1>15. Stages'
  <2>1. FreeSafe'
    <3>1. CASE dying' = NULL
      BY <3>1 DEF FreeSafe
    <3>2. CASE dying' # NULL
      <4>1. red[n].parent # NULL /\ dying' = red[n].parent
        BY <1>1, <3>2 DEF FreeStep, Release
      <4>2. dying' \in Reds /\ dying' # n /\ red[dying'].green \in Greens
        BY <1>4, <4>1, ParentHasGreen DEF GreenInv, Childless
      <4> QED BY <1>4, <4>2 DEF FreeSafe
    <3> QED BY <3>1, <3>2
  <2>2. RespineSafe' /\ ReplaceSafe' /\ PanicSafe' /\ CopySafe'
    BY <1>2, <1>6 DEF GreenInv, Stages, RespineSafe, ReplaceSafe, PanicSafe, CopySafe
  <2> QED BY <2>1, <2>2 DEF Stages
<1>16. ASSUME NEW x \in Greens PROVE Excess(heap', x) = Outside(x)'
  <2>1. Cardinality(Roots(red', x)) = Cardinality(Roots(red, x)) - One(red[n].parent = NULL /\ red[n].green = x)
                                        + One(red'[n].parent = NULL /\ red'[n].green = x)
    <3>1. \A m \in Reds \ {n} : red'[m].parent = red[m].parent /\ red'[m].green = red[m].green
      BY <1>4
    <3> QED BY <3>1, RootsDiffer
  <2>2. ~ (red'[n].parent = NULL /\ red'[n].green = x)
    BY <1>7, GreensAssumption
  <2>3. Times(x, drops') = One(red[n].parent = NULL /\ red[n].green = x)
    <3>1. CASE red[n].parent = NULL
      <4>1. drops' = <<red[n].green>>
        BY <1>2, <3>1
      <4>2. Times(x, <<red[n].green>>) = One(red[n].green = x)
        BY TimesOne
      <4> QED BY <3>1, <4>1, <4>2 DEF One
    <3>2. CASE red[n].parent # NULL
      BY <1>2, <3>2, TimesEmpty DEF One
    <3> QED BY <3>1, <3>2
  <2>4. PICK r \in Nat, l \in Nat, m \in Nat, o \in Nat :
          /\ r = Cardinality(Roots(red, x)) /\ l = One(kept = x)
          /\ m = One(spine.green = x) /\ o = One(red[n].parent = NULL /\ red[n].green = x)
    BY OutsideType, OneType DEF GreenInv
  <2>5. Excess(heap, x) = r + l + m
    <3>1. Times(x, drops) = 0
      BY <1>2, TimesEmpty
    <3>2. Excess(heap, x) = Outside(x)
      BY DEF GreenInv, Owned
    <3> QED BY <2>4, <3>1, <3>2 DEF Outside
  <2>6. Outside(x)' = Cardinality(Roots(red', x)) + l + m + o
    BY <1>2, <2>3, <2>4 DEF Outside
  <2>7. Cardinality(Roots(red', x)) = r - o
    BY <2>1, <2>2, <2>4 DEF One
  <2> QED BY <1>2, <2>4, <2>5, <2>6, <2>7
<1>17. Owned'
  BY <1>16 DEF Owned
<1> QED BY <1>12, <1>13, <1>14, <1>15, <1>17 DEF GreenInv

(* Dropping a green reference: the node goes with its last one. *)
LEMMA DropGreenStepGreen ==
  ASSUME TreeInv, GreenInv, DropGreenStep
  PROVE  GreenInv'
<1>1. /\ drops # <<>> /\ heap' = DropGreen(heap, Head(drops))
      /\ drops' = DropsOf(heap, Head(drops)) \o Tail(drops)
      /\ UNCHANGED <<kept, red, handle, spine, dying, todo, stolen, forgotten, edits>>
  BY DEF DropGreenStep
<1>2. /\ Head(drops) \in Greens /\ Tail(drops) \in Seq(Greens)
      /\ \A x : Times(x, drops) = One(Head(drops) = x) + Times(x, Tail(drops))
  BY <1>1, TimesHeadTail DEF GreenInv, Stored
<1>3. PICK g \in Greens : g = Head(drops)
  BY <1>2
<1>4. \A x : Times(x, drops) \in Nat /\ Times(x, Tail(drops)) \in Nat
  BY <1>2, TimesType DEF GreenInv, Stored
<1>5. Times(g, drops) >= 1
  <2>1. One(Head(drops) = g) = 1
    BY <1>3 DEF One
  <2> QED BY <1>2, <1>4, <2>1
<1>6. heap[g].cnt > 0
  <2>1. Excess(heap, g) >= Times(g, drops)
    BY <1>4, OutsideType, OwnedIsNat DEF GreenInv
  <2>2. /\ heap[g].cnt = Excess(heap, g) + Cardinality(SlotsOf(heap, g))
        /\ Cardinality(SlotsOf(heap, g)) \in Nat /\ Excess(heap, g) \in Int
    BY ExcessType DEF GreenInv, Stored
  <2> QED BY <1>4, <1>5, <2>1, <2>2
<1>7. /\ HeapType(heap') /\ Blank(heap') /\ DropsOf(heap, g) \in Seq(Greens)
      /\ \A k \in Greens \ {g} : heap'[k] = heap[k]
      /\ heap'[g].kids = IF heap[g].cnt = 1 THEN <<>> ELSE heap[g].kids
      /\ \A x \in Greens :
           Excess(heap', x) = Excess(heap, x) - One(g = x) + Times(x, DropsOf(heap, g))
  BY <1>1, <1>3, <1>6, DropReleases DEF GreenInv, Stored
<1>8. Spares(heap')
  <2>1. ASSUME NEW k \in Greens, heap[k].cnt > Times(k, drops)
        PROVE  heap'[k].kids = heap[k].kids
    <3>1. CASE k = g
      <4>1. heap[g].cnt # 1
        BY <1>4, <1>5, <2>1, <3>1
      <4> QED BY <1>7, <3>1, <4>1
    <3>2. CASE k # g
      BY <1>7, <3>2
    <3> QED BY <3>1, <3>2
  <2> QED BY <2>1 DEF Spares
<1>9. Quiet(red')
  BY <1>1 DEF Quiet, Keeps
<1>10. spine.node = NULL /\ todo.stage # "replace" /\ todo.stage # "clone"
  BY <1>1 DEF GreenInv, Stages, RespineSafe, ReplaceSafe, CopySafe
<1>11. Matches' /\ GreenSet'
  BY <1>1, <1>8, <1>9, <1>10, QuietMatches
<1>12. /\ drops' \in Seq(Greens)
       /\ \A x : Times(x, drops') = Times(x, DropsOf(heap, g)) + Times(x, Tail(drops))
  <2>1. PICK d \in Seq(Greens), t \in Seq(Greens) : d = DropsOf(heap, g) /\ t = Tail(drops)
    BY <1>2, <1>7
  <2>2. d \o t \in Seq(Greens) /\ \A x : Times(x, d \o t) = Times(x, d) + Times(x, t)
    BY TimesConcat
  <2>3. drops' = d \o t
    BY <1>1, <1>3, <2>1
  <2> QED BY <2>1, <2>2, <2>3
<1>13. Stored'
  BY <1>1, <1>7, <1>12 DEF GreenInv, Stored, GreenOrNull
<1>14. Stages'
  BY <1>1, <1>10
  DEF GreenInv, Stages, RespineSafe, ReplaceSafe, PanicSafe, CopySafe, FreeSafe
<1>15. ASSUME NEW x \in Greens PROVE Excess(heap', x) = Outside(x)'
  <2>1. PICK r \in Nat, l \in Nat, m \in Nat, o \in Nat, t \in Nat, d \in Nat :
          /\ r = Cardinality(Roots(red, x)) /\ l = One(kept = x) /\ m = One(spine.green = x)
          /\ o = One(g = x) /\ t = Times(x, Tail(drops)) /\ d = Times(x, DropsOf(heap, g))
    <3>1. Cardinality(Roots(red, x)) \in Nat
      BY OutsideType DEF GreenInv
    <3>2. One(kept = x) \in Nat /\ One(spine.green = x) \in Nat /\ One(g = x) \in Nat
      BY OneType
    <3>3. Times(x, DropsOf(heap, g)) \in Nat
      BY <1>7, TimesType
    <3> QED BY <1>4, <3>1, <3>2, <3>3
  <2>2. Times(x, drops) = o + t /\ Times(x, drops') = d + t
    BY <1>2, <1>3, <1>12, <2>1
  <2>3. Excess(heap, x) = r + l + m + (o + t)
    BY <2>1, <2>2 DEF GreenInv, Owned, Outside
  <2>4. Outside(x)' = r + l + m + (d + t)
    BY <1>1, <2>1, <2>2 DEF Outside
  <2>5. Excess(heap', x) = Excess(heap, x) - o + d
    BY <1>7, <2>1
  <2> QED BY <2>3, <2>4, <2>5
<1>16. Owned'
  BY <1>15 DEF Owned
<1> QED BY <1>11, <1>13, <1>14, <1>16 DEF GreenInv

-----------------------------------------------------------------------------
(***************************************************************************)
(* The ends of the operations, and clone_for_update: the copy of an        *)
(* ancestor points at the ancestor's own green, which is the child of the  *)
(* green its parent's copy points at.                                      *)
(***************************************************************************)
LEMMA OwnedStill ==
  ASSUME GreenInv, UNCHANGED <<heap, kept, spine, drops>>,
         \A n \in Reds : red'[n].parent = red[n].parent /\ red'[n].green = red[n].green
  PROVE  Owned'
<1>1. \A x \in Greens : Roots(red', x) = Roots(red, x)
  BY RootsSame
<1> QED BY <1>1 DEF GreenInv, Owned, Outside

LEMMA AttachEndGreen ==
  ASSUME TreeInv, GreenInv, AttachEnd
  PROVE  GreenInv'
<1>1. /\ todo.stage = "drop" /\ todo' = NoTodo /\ spine = NoSpine /\ drops = <<>>
      /\ Release(red, todo.child)
      /\ UNCHANGED <<heap, kept, spine, drops, stolen, edits>>
  BY DEF AttachEnd, LoopsDone
<1>2. PICK c \in Reds : c = todo.child /\ red[c].rc > 0
  <2>1. todo.child \in Reds
    BY <1>1, TreeIsForested DEF Accounted
  <2>2. Held(todo.child) > 0
    BY DEF Held, One
  <2> QED BY <2>1, <2>2, TreeIsForested, Referenced DEF Forested
<1>3. Quiet(red')
  BY <1>1, <1>2, ReleaseQuiet, TreeIsForested DEF Forested
<1>4. Spares(heap') /\ spine'.node = spine.node /\ spine.node = NULL
  BY <1>1 DEF Spares, NoSpine
<1>5. Matches' /\ GreenSet'
  BY <1>1, <1>3, <1>4, QuietMatches
<1>6. Stored' /\ Owned'
  <2>1. \A n \in Reds : red'[n].parent = red[n].parent /\ red'[n].green = red[n].green
    BY <1>3 DEF Quiet, Keeps
  <2> QED BY <1>1, <2>1, StoredStays, OwnedStill DEF GreenInv
<1>7. FreeSafe'
  <2>1. dying' # NULL => dying' = c
    BY <1>1, <1>2 DEF Release
  <2>2. red'[c].green \in Greens
    BY <1>2, <1>3, LiveHasGreen DEF GreenInv, Quiet, Keeps
  <2> QED BY <2>1, <2>2 DEF FreeSafe
<1>8. RespineSafe' /\ ReplaceSafe' /\ PanicSafe' /\ CopySafe'
  <2>1. spine'.node = NULL /\ spine'.green = NULL /\ todo'.stage = "none"
    BY <1>1 DEF NoSpine, NoTodo
  <2> QED BY <1>1, <2>1 DEF GreenInv, Stages, RespineSafe, ReplaceSafe, PanicSafe, CopySafe
<1> QED BY <1>5, <1>6, <1>7, <1>8 DEF GreenInv, Stages

LEMMA CloneEndGreen ==
  ASSUME TreeInv, GreenInv, CloneEnd
  PROVE  GreenInv'
<1>1. /\ todo.stage = "clone" /\ todo' = NoTodo
      /\ UNCHANGED <<heap, kept, red, spine, dying, drops, stolen, edits>>
  BY DEF CloneEnd
<1>2. /\ spine.node = NULL /\ spine.green = NULL /\ stolen = NULL /\ dying = NULL
  BY <1>1, TreeIsForested DEF Accounted, GreenInv, Stages, ReplaceSafe, CopySafe
<1>3. Quiet(red') /\ Spares(heap')
  BY <1>1 DEF Quiet, Keeps, Spares
<1>4. Matches' /\ GreenSet'
  BY <1>1, <1>2, <1>3, QuietMatches
<1>5. Stored' /\ Owned'
  BY <1>1, StoredStays, OwnedStill DEF GreenInv
<1>6. Stages'
  <2>1. todo'.stage = "none"
    BY <1>1 DEF NoTodo
  <2> QED
    BY <1>1, <1>2, <2>1 DEF Stages, RespineSafe, ReplaceSafe, PanicSafe, FreeSafe, CopySafe
<1> QED BY <1>4, <1>5, <1>6 DEF GreenInv

LEMMA CloneStepGreen ==
  ASSUME TreeInv, TreeInv', GreenInv, CloneStep
  PROVE  GreenInv'
<1>1. /\ todo.stage = "clone"
      /\ UNCHANGED <<heap, kept, handle, spine, dying, drops, stolen, forgotten, edits>>
  BY DEF CloneStep
<1>2. PICK n \in Reds, p \in Reds : n = todo.node /\ p = todo.child
  BY <1>1, TreeIsForested DEF Accounted
<1>3. /\ Forested /\ Accounted /\ Parents(red) /\ Acyclic(red) /\ DOMAIN todo = DOMAIN NoTodo
      /\ \A k \in Reds : Up[k] = Above(red, k)
  BY TreeIsForested, UpIsAbove DEF Forested, RefType
<1>4. PICK a \in Up[n], c \in NextRed :
        /\ Depth(a) = Depth(p) + 1
        /\ red' = [red EXCEPT ![c] = [ChildData(p, red[a].index) EXCEPT !.green = red[a].green],
                              ![p].first = @ \cup {c}]
        /\ todo' = [todo EXCEPT !.child = c]
  BY <1>2 DEF CloneStep
<1>5. a \in Above(red, n) /\ a \in Reds
  BY <1>2, <1>3, <1>4, AboveClosed
<1>6. Height(red, a) = Height(red, p) + 1
  BY <1>2, <1>3, <1>4, <1>5, RedsAssumption DEF Depth, Height
<1>7. PICK b \in Above(red, n) : Height(red, b) = Height(red, p) /\ red[b].green = red[p].green
  BY <1>1, <1>2 DEF GreenInv, Stages, CopySafe
<1>8. red[a].parent = b
  <2>1. /\ Height(red, p) \in Nat /\ Height(red, p) >= 1
        /\ red[a].parent = NULL => Height(red, a) = 1
        /\ red[a].parent # NULL => Height(red, a) = Height(red, red[a].parent) + 1
    BY <1>2, <1>3, <1>5, HeightParent
  <2>2. red[a].parent # NULL
    BY <1>6, <2>1
  <2>3. red[a].parent \in Above(red, n) /\ red[a].parent \in Reds
    BY <1>2, <1>3, <1>5, <2>2, AboveClosed DEF Closed
  <2>4. Height(red, red[a].parent) = Height(red, b)
    <3>1. Height(red, red[a].parent) \in Nat
      BY <1>3, <2>3, HeightParent
    <3> QED BY <1>6, <1>7, <2>1, <2>2, <3>1
  <2> QED BY <1>2, <1>3, <1>7, <2>3, <2>4, HeightTells
<1>9. b \in Reds /\ red[a].parent # NULL /\ red[a] # FreeRed
  <2>1. b \in Reds
    BY <1>2, <1>3, <1>7, AboveClosed
  <2>2. red[a].parent # NULL
    BY <1>8, <2>1, RedsAssumption
  <2> QED BY <2>1, <2>2 DEF FreeRed
<1>10. spine.node = NULL /\ spine.green = NULL /\ stolen = NULL /\ dying = NULL /\ drops = <<>>
  BY <1>1, <1>3 DEF Accounted, GreenInv, Stages, ReplaceSafe, CopySafe
<1>11. Fits(a)
  BY <1>5, <1>9, <1>10, SafeWithoutPanic DEF GreenInv, Matches
<1>12. CurrentGreen(b) = red[p].green
  BY <1>7, <1>9, <1>10, RedsAssumption DEF CurrentGreen
<1>13. PICK i \in Slots(heap, red[p].green), g \in Greens :
         i = red[a].index /\ g = red[a].green /\ g = Kid(heap, red[p].green, i)
  BY <1>5, <1>8, <1>9, <1>11, <1>12 DEF Fits, GreenInv, GreenSet
<1>14. red[p].rc > 0
  <2>1. Held(p) > 0
    BY <1>2 DEF Held, One
  <2> QED BY <1>2, <1>3, <2>1, Referenced DEF Forested
<1>15. MakesChild(red', c, p, i, g)
  <2>1. red[p].mutable /\ Childless(p)
    BY <1>1, <1>2 DEF TreeInv, CloneSafe
  <2>2. red[todo.child].mutable /\ Childless(todo.child)
    BY <1>2, <2>1
  <2>3. red' = [red EXCEPT ![c] = [ChildData(todo.child, i) EXCEPT !.green = g],
                           ![todo.child].first = @ \cup {c}]
    BY <1>2, <1>4, <1>13
  <2>4. MakesChild(red', c, todo.child, i, g)
    BY <1>1, <1>3, <2>2, <2>3, CloneMade
  <2> QED BY <1>2, <2>4
<1>16. Stored' /\ Owned' /\ GreenSet' /\ Matches'
  BY <1>1, <1>2, <1>10, <1>13, <1>14, <1>15, ChildPlaced
<1>17. /\ c \in Reds /\ red[c] = FreeRed /\ c # p
       /\ red'[c].parent = p /\ red'[c].green = g
       /\ \A k \in Reds \ {c} : red'[k].parent = red[k].parent /\ red'[k].green = red[k].green
  BY <1>15 DEF MakesChild, Keeps
<1>18. Childless(c) /\ \A k \in Reds : red'[k].parent # c
  <2>1. Childless(c)
    BY <1>3, <1>17, FreeIsChildless DEF Forested
  <2> QED BY <1>17, <2>1 DEF Childless
<1>19. Parents(red') /\ Acyclic(red')
  BY DEF TreeInv, WellLinked, MutInv, CountInv, RefType, Parents
<1>20. n # c
  <2>1. ASSUME n = c PROVE FALSE
    <3>1. red[n].parent = NULL
      BY <1>17, <2>1 DEF FreeRed
    <3>2. Above(red, n) = {n}
      BY <1>2, <1>3, <3>1, AboveParent
    <3> QED BY <1>5, <1>9, <3>1, <3>2
  <2> QED BY <2>1
<1>21. \A k \in Reds \ {c} : Above(red', k) = Above(red, k)
  BY <1>3, <1>17, <1>18, <1>19, LeafAbove DEF Childless
<1>22. a # c /\ a \in Above(red', n) /\ red'[a].green = g
  BY <1>2, <1>5, <1>9, <1>13, <1>17, <1>20, <1>21
<1>23. Height(red', a) = Height(red', c)
  <2>1. Height(red', a) = Height(red, a) /\ Height(red', p) = Height(red, p)
    BY <1>2, <1>5, <1>17, <1>21, <1>22 DEF Height
  <2>2. Height(red', c) = Height(red', p) + 1
    BY <1>2, <1>17, <1>19, HeightParent, RedsAssumption
  <2> QED BY <1>6, <2>1, <2>2
<1>24. todo'.stage = "clone" /\ todo'.node = n /\ todo'.child = c
  BY <1>1, <1>2, <1>3, <1>4 DEF NoTodo
<1>25. CopySafe'
  BY <1>1, <1>10, <1>17, <1>22, <1>23, <1>24 DEF CopySafe
<1>26. RespineSafe' /\ ReplaceSafe' /\ PanicSafe' /\ FreeSafe'
  BY <1>1, <1>10, <1>24 DEF RespineSafe, ReplaceSafe, PanicSafe, FreeSafe
<1> QED BY <1>16, <1>25, <1>26 DEF GreenInv, Stages

-----------------------------------------------------------------------------
(***************************************************************************)
(* replace_with rebuilds green nodes up to the root and changes no red.    *)
(***************************************************************************)
(* The green node held by the spine takes the place of the one held before. *)
LEMMA SpineOwned ==
  ASSUME GreenInv, UNCHANGED <<kept, drops>>,
         \A x \in Greens : Roots(red', x) = Roots(red, x),
         \A x \in Greens : Excess(heap', x) = Excess(heap, x) - One(spine.green = x)
                                                              + One(spine'.green = x)
  PROVE  Owned'
<1> SUFFICES ASSUME NEW x \in Greens PROVE Excess(heap', x) = Outside(x)'
  BY DEF Owned
<1>1. PICK r \in Nat, l \in Nat, m \in Nat, t \in Nat, o \in Nat :
        /\ r = Cardinality(Roots(red, x)) /\ l = One(kept = x)
        /\ m = One(spine.green = x) /\ t = Times(x, drops) /\ o = One(spine'.green = x)
  BY OutsideType, OneType DEF GreenInv
<1>2. Excess(heap, x) = r + l + m + t
  BY <1>1 DEF GreenInv, Owned, Outside
<1>3. Outside(x)' = r + l + o + t
  BY <1>1 DEF Outside
<1>4. Excess(heap', x) = Excess(heap, x) - m + o
  BY <1>1
<1> QED BY <1>2, <1>3, <1>4

LEMMA NextIsFree ==
  ASSUME GreenInv, NEW a \in NextGreen
  PROVE  a \in FreeGreens(heap) /\ a \in Greens /\ heap[a].cnt = 0 /\ Excess(heap, a) >= 0
<1>1. a \in FreeGreens(heap) /\ a \in Greens /\ heap[a].cnt = 0
  BY DEF NextGreen, Lowest, FreeGreens
<1> QED BY <1>1, OwnedIsNat DEF GreenInv

(* Writing at a free address disturbs no owned node. *)
LEMMA FreshSpares ==
  ASSUME GreenInv, NEW a \in Greens, heap[a].cnt = 0, NEW h,
         \A k \in Greens \ {a} : h[k].kids = heap[k].kids
  PROVE  Spares(h)
<1>1. Times(a, drops) \in Nat
  BY TimesType DEF GreenInv, Stored
<1> QED BY <1>1 DEF Spares

LEMMA ReplaceStepGreen ==
  ASSUME TreeInv, GreenInv, ReplaceStep
  PROVE  GreenInv'
<1>1. /\ todo.stage = "replace" /\ todo.node # NULL /\ red[todo.node].parent # NULL
      /\ todo' = [todo EXCEPT !.node = red[todo.node].parent]
      /\ UNCHANGED <<kept, red, handle, dying, drops, stolen, forgotten, edits>>
  BY DEF ReplaceStep
<1>2. PICK n \in Reds : n = todo.node
  BY <1>1, TreeIsForested DEF Forested, RefType, RedOrNull
<1>3. /\ spine.green \in Greens /\ drops = <<>> /\ stolen = NULL /\ spine.node = NULL /\ dying = NULL
  BY <1>1, TreeIsForested DEF Accounted, GreenInv, Stages, ReplaceSafe
<1>4. PICK p \in Reds : /\ p = red[n].parent /\ p # NULL /\ red[p].green \in Greens
                        /\ red[n] # FreeRed
  BY <1>1, <1>2, ParentHasGreen DEF GreenInv
<1>5. CurrentGreen(p) = red[p].green
  BY <1>3, <1>4, RedsAssumption DEF CurrentGreen
<1>6. red[n].index \in Slots(heap, red[p].green)
  <2>1. Fits(n)
    BY <1>3, <1>4, SafeWithoutPanic DEF GreenInv, Matches
  <2> QED BY <1>4, <1>5, <2>1 DEF Fits
<1>7. PICK g \in Greens, new \in Greens, i \in Nat :
        i = red[n].index /\ g = red[p].green /\ new = spine.green /\ i \in Slots(heap, g)
  BY <1>3, <1>4, <1>6, TreeIsForested DEF Forested, Indexed
<1>8. PICK a \in NextGreen : /\ heap' = ReplaceChild(heap, a, g, i, new)
                             /\ spine' = [spine EXCEPT !.green = a]
  BY <1>2, <1>4, <1>7 DEF ReplaceStep
<1>9. a \in FreeGreens(heap) /\ a \in Greens /\ heap[a].cnt = 0 /\ Excess(heap, a) >= 0
  BY NextIsFree
<1>10. /\ HeapType(heap') /\ Blank(heap')
       /\ \A k \in Greens \ {a} : heap'[k].kids = heap[k].kids
       /\ \A x \in Greens : Excess(heap', x) = Excess(heap, x) - One(new = x) + One(a = x)
  BY <1>7, <1>8, <1>9, ReplaceChildTakes DEF GreenInv, Stored
<1>11. spine'.green = a /\ spine'.node = spine.node
  BY <1>8, TreeIsForested DEF Forested, RefType
<1>12. Quiet(red')
  BY <1>1 DEF Quiet, Keeps
<1>13. Spares(heap')
  BY <1>9, <1>10, FreshSpares
<1>14. Matches' /\ GreenSet'
  BY <1>1, <1>3, <1>11, <1>12, <1>13, QuietMatches
<1>15. Owned'
  <2>1. \A x \in Greens : Roots(red', x) = Roots(red, x)
    BY <1>1
  <2> QED BY <1>1, <1>7, <1>10, <1>11, <2>1, SpineOwned
<1>16. Stored'
  BY <1>1, <1>9, <1>10, <1>11 DEF GreenInv, Stored, GreenOrNull
<1>17. Stages'
  <2>1. todo'.stage = "replace"
    BY <1>1, TreeIsForested DEF Forested, RefType, NoTodo
  <2> QED
    BY <1>1, <1>3, <1>9, <1>11, <2>1 DEF Stages, RespineSafe, ReplaceSafe, PanicSafe, FreeSafe, CopySafe
<1> QED BY <1>14, <1>15, <1>16, <1>17 DEF GreenInv

LEMMA ReplaceEndGreen ==
  ASSUME TreeInv, GreenInv, ReplaceEnd
  PROVE  GreenInv'
<1>1. /\ todo.stage = "replace" /\ kept' = spine.green /\ spine' = NoSpine /\ todo' = NoTodo
      /\ drops' = IF kept = NULL THEN <<>> ELSE <<kept>>
      /\ UNCHANGED <<heap, red, handle, dying, stolen, forgotten, edits>>
  BY DEF ReplaceEnd
<1>2. /\ spine.green \in Greens /\ drops = <<>> /\ stolen = NULL /\ spine.node = NULL /\ dying = NULL
  BY <1>1, TreeIsForested DEF Accounted, GreenInv, Stages, ReplaceSafe
<1>3. spine'.node = NULL /\ spine'.green = NULL /\ todo'.stage = "none"
  BY <1>1 DEF NoSpine, NoTodo
<1>4. Quiet(red') /\ Spares(heap')
  BY <1>1 DEF Quiet, Keeps, Spares
<1>5. Matches' /\ GreenSet'
  BY <1>1, <1>2, <1>3, <1>4, QuietMatches
<1>6. Stored'
  <2>1. drops' \in Seq(Greens)
    BY <1>1 DEF GreenInv, Stored, GreenOrNull
  <2> QED BY <1>1, <1>2, <1>3, <2>1 DEF GreenInv, Stored, GreenOrNull
<1>7. Stages'
  BY <1>1, <1>2, <1>3 DEF Stages, RespineSafe, ReplaceSafe, PanicSafe, FreeSafe, CopySafe
<1>8. ASSUME NEW x \in Greens PROVE Excess(heap', x) = Outside(x)'
  <2>1. PICK r \in Nat, l \in Nat, m \in Nat :
          r = Cardinality(Roots(red, x)) /\ l = One(kept = x) /\ m = One(spine.green = x)
    BY OutsideType DEF GreenInv
  <2>2. Excess(heap, x) = r + l + m
    BY <1>2, <2>1, TimesEmpty DEF GreenInv, Owned, Outside
  <2>3. Times(x, drops') = l
    <3>1. CASE kept = NULL
      BY <1>1, <2>1, <3>1, TimesEmpty, GreensAssumption DEF One
    <3>2. CASE kept # NULL
      BY <1>1, <2>1, <3>2, TimesOne
    <3> QED BY <3>1, <3>2
  <2>4. One(spine'.green = x) = 0
    BY <1>3, GreensAssumption DEF One
  <2>5. One(kept' = x) = m
    BY <1>1, <2>1
  <2>6. Roots(red', x) = Roots(red, x)
    BY <1>1
  <2>7. Outside(x)' = r + m + 0 + l
    BY <2>1, <2>3, <2>4, <2>5, <2>6 DEF Outside
  <2> QED BY <1>1, <2>2, <2>7
<1>9. Owned'
  BY <1>8 DEF Owned
<1> QED BY <1>5, <1>6, <1>7, <1>9 DEF GreenInv

(* A red that has a parent sits in a slot of its parent's green node. *)
LEMMA SlotOfChild ==
  ASSUME TreeInv, GreenInv, stolen = NULL, NEW n \in Reds, NEW p, p = red[n].parent, p # NULL,
         spine.node # p
  PROVE  /\ p \in Reds /\ p # n /\ red[p].green \in Greens /\ red[p].rc > 0 /\ red[n] # FreeRed
         /\ red[n].index \in Nat /\ red[n].index \in Slots(heap, red[p].green)
         /\ Kid(heap, red[p].green, red[n].index) = red[n].green
         /\ red[n].green \in Greens
<1>1. /\ p \in Reds /\ red[p].green \in Greens /\ red[p].rc > 0 /\ red[n] # FreeRed
  BY ParentHasGreen DEF GreenInv
<1>2. Fits(n)
  BY <1>1, SafeWithoutPanic DEF GreenInv, Matches
<1>3. CurrentGreen(p) = red[p].green
  BY DEF CurrentGreen
<1>4. p # n
  BY <1>1, TreeIsForested, NoCycle, AboveClosed
<1>5. red[n].index \in Nat
  BY TreeIsForested DEF Forested, Indexed
<1>6. red[n].green \in Greens
  BY <1>1 DEF GreenInv, GreenSet
<1> QED BY <1>1, <1>2, <1>3, <1>4, <1>5, <1>6 DEF Fits

LEMMA ReplaceWithGreen ==
  ASSUME TreeInv, GreenInv, NEW h \in Handles, NEW c \in Handles, ReplaceWith(h, c)
  PROVE  GreenInv'
<1>1. /\ User /\ handle[h] # NULL /\ handle[c] # NULL /\ edits' = edits + 1
      /\ todo' = [NoTodo EXCEPT !.stage = "replace", !.node = red[handle[h]].parent]
      /\ UNCHANGED <<kept, red, handle, dying, drops, stolen, forgotten>>
  BY DEF ReplaceWith, Edit
<1>2. PICK n \in Reds, m \in Reds : n = handle[h] /\ m = handle[c] /\ red[n].rc > 0 /\ red[m].rc > 0
  <2>1. handle[h] \in Reds /\ handle[c] \in Reds
    BY <1>1, TreeIsForested DEF Forested, RefType, RedOrNull
  <2> QED BY <2>1, TreeIsForested, Referenced DEF Forested
<1>3. PICK g \in Greens : g = red[m].green
  BY <1>2, LiveHasGreen DEF GreenInv
<1>4. /\ spine.node = NULL /\ spine.green = NULL /\ stolen = NULL /\ dying = NULL /\ drops = <<>>
  BY <1>1 DEF User, Idle, NoSpine
<1>5. HasOwner(g)
  BY <1>2, <1>3, <1>4, SafeWithoutPanic, LiveHasGreen, SafeIsOwned DEF GreenInv
<1>6. PICK s : s = ShareOne(heap, g)
  OBVIOUS
<1>7. /\ HeapType(s) /\ Blank(s)
      /\ \A k \in Greens : s[k].kids = heap[k].kids
      /\ \A x \in Greens : /\ s[x].cnt = heap[x].cnt + One(g = x)
                           /\ Excess(s, x) = Excess(heap, x) + One(g = x)
  BY <1>6, ShareOneShares DEF GreenInv, Stored
<1>8. /\ HeapType(heap') /\ Blank(heap') /\ Spares(heap')
      /\ spine'.green \in Greens /\ spine'.node = NULL
      /\ \A x \in Greens : Excess(heap', x) = Excess(heap, x) - One(spine.green = x)
                                                              + One(spine'.green = x)
  <2>1. \A x \in Greens : One(spine.green = x) = 0 /\ Excess(heap, x) \in Nat
    BY <1>4, GreensAssumption, OwnedIsNat DEF One, GreenInv
  <2>2. CASE red[n].parent = NULL
    <3>1. heap' = s /\ spine' = [NoSpine EXCEPT !.green = g]
      BY <1>2, <1>3, <1>6, <2>2 DEF ReplaceWith
    <3>2. spine'.green = g /\ spine'.node = NULL
      BY <3>1 DEF NoSpine
    <3>3. \A x \in Greens : Excess(heap', x) = Excess(heap, x) - One(spine.green = x)
                                                               + One(spine'.green = x)
      BY <1>7, <2>1, <3>1, <3>2, OneType
    <3> QED BY <1>7, <3>1, <3>2, <3>3 DEF Spares
  <2>3. CASE red[n].parent # NULL
    <3>1. PICK p \in Reds : p = red[n].parent
      BY <2>3, ParentHasGreen DEF GreenInv
    <3>2. PICK i \in Nat, q \in Greens :
            i = red[n].index /\ q = red[p].green /\ i \in Slots(heap, q)
      BY <1>4, <2>3, <3>1, SlotOfChild, RedsAssumption
    <3>3. PICK a \in NextGreen : /\ heap' = ReplaceChild(s, a, q, i, g)
                                 /\ spine' = [NoSpine EXCEPT !.green = a]
      BY <1>2, <1>3, <1>6, <2>3, <3>1, <3>2 DEF ReplaceWith
    <3>4. a \in FreeGreens(heap) /\ a \in Greens /\ heap[a].cnt = 0 /\ Excess(heap, a) >= 0
      BY NextIsFree
    <3>5. a # g
      BY <1>5, <3>4, OwnedIsTaken DEF GreenInv
    <3>6. a \in FreeGreens(s) /\ Excess(s, a) >= 0
      <4>1. One(g = a) = 0
        BY <3>5 DEF One
      <4>2. s[a].cnt = 0 /\ Excess(s, a) = Excess(heap, a)
        BY <1>7, <2>1, <3>4, <4>1
      <4> QED BY <3>4, <4>2 DEF FreeGreens
    <3>7. i \in Slots(s, q)
      BY <1>7, <3>2 DEF Slots
    <3>8. /\ HeapType(heap') /\ Blank(heap')
          /\ \A k \in Greens \ {a} : heap'[k].kids = s[k].kids
          /\ \A x \in Greens : Excess(heap', x) = Excess(s, x) - One(g = x) + One(a = x)
      BY <1>7, <3>2, <3>3, <3>6, <3>7, ReplaceChildTakes
    <3>9. spine'.green = a /\ spine'.node = NULL
      BY <3>3 DEF NoSpine
    <3>10. Spares(heap')
      BY <1>7, <3>4, <3>8, FreshSpares
    <3>11. ASSUME NEW x \in Greens
           PROVE  Excess(heap', x) = Excess(heap, x) - One(spine.green = x) + One(spine'.green = x)
      <4>1. PICK e \in Nat, o \in Nat, l \in Nat :
              e = Excess(heap, x) /\ o = One(g = x) /\ l = One(a = x)
        BY <2>1, OneType
      <4>2. Excess(s, x) = e + o /\ Excess(heap', x) = Excess(s, x) - o + l
        BY <1>7, <3>8, <4>1
      <4>3. One(spine'.green = x) = l /\ One(spine.green = x) = 0
        BY <2>1, <3>9, <4>1
      <4> QED BY <4>1, <4>2, <4>3
    <3> QED BY <3>4, <3>8, <3>9, <3>10, <3>11
  <2> QED BY <2>2, <2>3
<1>9. Quiet(red')
  BY <1>1 DEF Quiet, Keeps
<1>10. Matches' /\ GreenSet'
  BY <1>1, <1>4, <1>8, <1>9, QuietMatches
<1>11. Owned'
  <2>1. \A x \in Greens : Roots(red', x) = Roots(red, x)
    BY <1>1
  <2> QED BY <1>1, <1>8, <2>1, SpineOwned
<1>12. Stored'
  BY <1>1, <1>8 DEF GreenInv, Stored, GreenOrNull
<1>13. Stages'
  <2>1. todo'.stage = "replace"
    BY <1>1 DEF NoTodo
  <2> QED
    BY <1>1, <1>4, <1>8, <2>1
    DEF Stages, RespineSafe, ReplaceSafe, PanicSafe, FreeSafe, CopySafe
<1> QED BY <1>10, <1>11, <1>12, <1>13 DEF GreenInv

-----------------------------------------------------------------------------
(***************************************************************************)
(* respine: the node takes the green node rebuilt for it, and its parent's *)
(* green is rebuilt around that one; the other children stay where they    *)
(* are, as no two children of a mutable red are in one slot.               *)
(***************************************************************************)
LEMMA ReleasedHasGreen ==
  ASSUME TreeInv, GreenInv, NEW r \in Reds, spine.release = r
  PROVE  red[r].rc > 0 /\ red[r].green \in Greens
<1>1. Held(r) > 0
  BY DEF Held, One
<1> QED BY <1>1, TreeIsForested, Referenced, LiveHasGreen DEF Forested, GreenInv

LEMMA RespineRootGreen ==
  ASSUME TreeInv, GreenInv, RespineStep, red[spine.node].parent = NULL
  PROVE  GreenInv'
<1>1. /\ drops = <<>> /\ spine.node # NULL /\ spine' = NoSpine
      /\ UNCHANGED <<heap, kept, handle, todo, stolen, forgotten, edits>>
  BY DEF RespineStep
<1>2. PICK n \in Reds : n = spine.node
  BY <1>1, TreeIsForested DEF Forested, RefType, RedOrNull
<1>3. PICK old \in Greens, new \in Greens : /\ old = red[n].green /\ new = spine.green
                                            /\ dying = NULL /\ stolen = NULL
  BY <1>1, <1>2 DEF GreenInv, Stages, RespineSafe
<1>4. red[n].parent = NULL /\ drops' = <<old>>
  BY <1>2, <1>3, RedsAssumption DEF RespineStep
<1>5. Regreens(red', n, new)
  BY <1>2, <1>3, TreeIsForested, RespineRegreens DEF Forested
<1>6. /\ red'[n].green = new /\ red'[n].parent = NULL
      /\ \A m \in Reds \ {n} : Keeps(red', m)
  BY <1>4, <1>5 DEF Regreens
<1>7. \A m \in Reds \ {n} : /\ red'[m].parent = red[m].parent /\ red'[m].index = red[m].index
                            /\ red'[m].green = red[m].green
  BY <1>6 DEF Keeps
<1>8. spine'.node = NULL /\ spine'.green = NULL
  BY <1>1 DEF NoSpine
<1>9. Spares(heap')
  BY <1>1 DEF Spares
<1>10. ASSUME NEW m \in Reds, Safe(m)', red'[m].parent # NULL
       PROVE  Stays(m)
  <2>1. m # n
    BY <1>6, <1>10
  <2>2. Safe(m)
    BY <1>1, <1>3, <1>6, <1>10, <2>1, SafeWithoutPanicNext, SafeWithoutPanic DEF Keeps
  <2>3. red[m].parent \in Reds
    BY <1>7, <1>10, <2>1, ParentHasGreen DEF GreenInv
  <2>4. CurrentGreen(red[m].parent)' = CurrentGreen(red[m].parent)
    <3>1. red'[m].parent = red[m].parent
      BY <1>7, <2>1
    <3>2. CASE red[m].parent = n
      BY <1>2, <1>3, <1>6, <1>8, <3>1, <3>2, RedsAssumption DEF CurrentGreen
    <3>3. CASE red[m].parent # n
      BY <1>2, <1>7, <1>8, <2>3, <3>1, <3>3, RedsAssumption DEF CurrentGreen
    <3> QED BY <3>2, <3>3
  <2> QED BY <1>7, <2>1, <2>2, <2>4 DEF Stays
<1>11. Matches'
  BY <1>9, <1>10, MatchesStill
<1>12. GreenSet'
  BY <1>3, <1>6 DEF GreenInv, GreenSet, Keeps
<1>13. Stored'
  BY <1>1, <1>3, <1>4, <1>8 DEF GreenInv, Stored, GreenOrNull
<1>14. FreeSafe'
  <2>1. CASE spine.release = NULL
    <3>1. dying' = NULL
      BY <1>2, <1>3, <1>4, <2>1, RedsAssumption DEF RespineStep
    <3> QED BY <3>1 DEF FreeSafe
  <2>2. CASE spine.release # NULL
    <3>1. PICK r \in Reds : r = spine.release
      BY <2>2, TreeIsForested DEF Forested, RefType, RedOrNull
    <3>2. red[r].green \in Greens
      BY <3>1, ReleasedHasGreen
    <3>3. dying' \in {r, NULL}
      BY <1>2, <1>4, <2>2, <3>1, RedsAssumption DEF RespineStep, Release
    <3>4. red'[r].green \in Greens
      BY <1>3, <1>6, <1>7, <3>2
    <3> QED BY <3>3, <3>4 DEF FreeSafe
  <2> QED BY <2>1, <2>2
<1>15. todo.stage # "replace" /\ todo.stage # "clone"
  BY <1>1, TreeIsForested DEF Accounted
<1>16. RespineSafe' /\ ReplaceSafe' /\ PanicSafe' /\ CopySafe'
  BY <1>1, <1>3, <1>8, <1>15 DEF RespineSafe, ReplaceSafe, PanicSafe, CopySafe
<1>17. ASSUME NEW x \in Greens PROVE Excess(heap', x) = Outside(x)'
  <2>1. Cardinality(Roots(red', x)) = Cardinality(Roots(red, x)) - One(red[n].parent = NULL /\ red[n].green = x)
                                        + One(red'[n].parent = NULL /\ red'[n].green = x)
    <3>1. \A m \in Reds \ {n} : red'[m].parent = red[m].parent /\ red'[m].green = red[m].green
      BY <1>7
    <3> QED BY <3>1, RootsDiffer
  <2>2. PICK r \in Nat, l \in Nat, u \in Nat, o \in Nat :
          /\ r = Cardinality(Roots(red, x)) /\ l = One(kept = x)
          /\ u = One(old = x) /\ o = One(new = x)
    BY OutsideType, OneType DEF GreenInv
  <2>3. Excess(heap, x) = r + l + o
    BY <1>1, <1>3, <2>2, TimesEmpty DEF GreenInv, Owned, Outside
  <2>4. Cardinality(Roots(red', x)) = r - u + o
    <3>1. One(red[n].parent = NULL /\ red[n].green = x) = u
      BY <1>3, <1>4, <2>2 DEF One
    <3>2. One(red'[n].parent = NULL /\ red'[n].green = x) = o
      BY <1>6, <2>2 DEF One
    <3> QED BY <2>1, <2>2, <3>1, <3>2
  <2>5. Times(x, drops') = u
    BY <1>4, <2>2, TimesOne
  <2>6. One(spine'.green = x) = 0
    BY <1>8, GreensAssumption DEF One
  <2>7. Outside(x)' = (r - u + o) + l + 0 + u
    BY <1>1, <2>2, <2>4, <2>5, <2>6 DEF Outside
  <2>8. Excess(heap', x) = Excess(heap, x)
    BY <1>1
  <2>9. (r - u + o) + l + 0 + u = r + l + o
    BY <2>2
  <2> QED BY <2>3, <2>7, <2>8, <2>9
<1>18. Owned'
  BY <1>17 DEF Owned
<1> QED BY <1>11, <1>12, <1>13, <1>14, <1>16, <1>18 DEF GreenInv, Stages

LEMMA RespineClimbGreen ==
  ASSUME TreeInv, GreenInv, RespineStep, red[spine.node].parent # NULL
  PROVE  GreenInv'
<1>1. /\ drops = <<>> /\ spine.node # NULL /\ UNCHANGED <<dying, drops>>
      /\ UNCHANGED <<kept, handle, todo, stolen, forgotten, edits>>
  BY DEF RespineStep
<1>2. PICK n \in Reds : n = spine.node
  BY <1>1, TreeIsForested DEF Forested, RefType, RedOrNull
<1>3. /\ dying = NULL /\ stolen = NULL /\ red[n].mutable
      /\ todo.stage # "replace" /\ todo.stage # "clone"
  BY <1>1, <1>2, TreeIsForested DEF Accounted, GreenInv, Stages, RespineSafe
<1>4. PICK p \in Reds : p = red[n].parent /\ p # NULL /\ p # n
  BY <1>2, ParentHasGreen, TreeIsForested, NoCycle, AboveClosed DEF GreenInv
<1>5. /\ red[p].green \in Greens /\ red[n] # FreeRed /\ red[n].index \in Nat
      /\ red[n].index \in Slots(heap, red[p].green)
  BY <1>2, <1>3, <1>4, SlotOfChild
<1>6. PICK i \in Nat, g \in Greens, new \in Greens :
        i = red[n].index /\ g = red[p].green /\ new = spine.green /\ i \in Slots(heap, g)
  BY <1>1, <1>5 DEF GreenInv, Stages, RespineSafe
<1>7. PICK a \in NextGreen : /\ heap' = ReplaceChild(heap, a, g, i, new)
                             /\ spine' = [spine EXCEPT !.node = p, !.green = a]
  BY <1>2, <1>4, <1>6 DEF RespineStep, Climb
<1>8. spine'.node = p /\ spine'.green = a
  BY <1>7, TreeIsForested DEF Forested, RefType
<1>9. a \in FreeGreens(heap) /\ a \in Greens /\ heap[a].cnt = 0 /\ Excess(heap, a) >= 0
  BY NextIsFree
<1>10. /\ HeapType(heap') /\ Blank(heap')
       /\ \A k \in Greens \ {a} : heap'[k].kids = heap[k].kids
       /\ Slots(heap', a) = Slots(heap, g)
       /\ \A j \in Slots(heap, g) : Kid(heap', a, j) = IF j = i THEN new ELSE Kid(heap, g, j)
       /\ \A x \in Greens : Excess(heap', x) = Excess(heap, x) - One(new = x) + One(a = x)
  BY <1>6, <1>7, <1>9, ReplaceChildTakes DEF GreenInv, Stored
<1>11. Spares(heap')
  BY <1>9, <1>10, FreshSpares
<1>12. Regreens(red', n, new)
  BY <1>2, <1>6, TreeIsForested, RespineRegreens DEF Forested
<1>13. /\ red'[n].green = new /\ red'[n].parent = p /\ red'[n].index = i
       /\ red'[n].mutable = red[n].mutable
       /\ \A m \in Reds \ {n} : Keeps(red', m)
  BY <1>4, <1>6, <1>12 DEF Regreens
<1>14. \A m \in Reds \ {n} : /\ red'[m].parent = red[m].parent /\ red'[m].index = red[m].index
                             /\ red'[m].green = red[m].green /\ red'[m].mutable = red[m].mutable
  BY <1>13 DEF Keeps
<1>15. red[p].mutable
  BY <1>3, <1>4, TreeIsForested DEF Forested, Uniform
<1>16. CurrentGreen(p)' = a
  BY <1>8 DEF CurrentGreen
<1>17. Fits(n)'
  BY <1>6, <1>10, <1>13, <1>16 DEF Fits
<1>18. ASSUME NEW m \in Reds, Safe(m)', red'[m].parent # NULL, m # n
       PROVE  Fits(m)' \/ Stays(m)
  <2>1. Safe(m)
    BY <1>1, <1>3, <1>13, <1>18, SafeWithoutPanicNext, SafeWithoutPanic DEF Keeps
  <2>2. red'[m].parent = red[m].parent /\ red[m].parent \in Reds
    BY <1>14, <1>18, ParentHasGreen DEF GreenInv
  <2>3. CASE red[m].parent = p
    <3>1. red[m].index \in Slots(heap, g) /\ Kid(heap, g, red[m].index) = red[m].green
      BY <1>2, <1>3, <1>4, <1>6, <2>3, SlotOfChild
    <3>2. red[m].index # i
      BY <1>4, <1>6, <1>15, <1>18, <2>3, TreeIsForested, ListsAre DEF Forested
    <3>3. red[m].index \in Slots(heap', a) /\ Kid(heap', a, red[m].index) = red[m].green
      BY <1>10, <3>1, <3>2
    <3>4. red'[m].parent = p /\ red'[m].index = red[m].index /\ red'[m].green = red[m].green
      BY <1>14, <1>18, <2>3
    <3> QED BY <1>16, <3>3, <3>4 DEF Fits
  <2>4. CASE red[m].parent = n
    <3>1. CurrentGreen(n) = new /\ CurrentGreen(n)' = new
      BY <1>2, <1>4, <1>6, <1>8, <1>13 DEF CurrentGreen
    <3>2. CurrentGreen(red[m].parent)' = CurrentGreen(red[m].parent)
      BY <2>2, <2>4, <3>1
    <3> QED BY <1>14, <1>18, <2>1, <3>2 DEF Stays
  <2>5. CASE red[m].parent # p /\ red[m].parent # n
    <3>1. CurrentGreen(red[m].parent)' = CurrentGreen(red[m].parent)
      BY <1>2, <1>8, <1>14, <2>2, <2>5 DEF CurrentGreen
    <3> QED BY <1>14, <1>18, <2>1, <3>1 DEF Stays
  <2> QED BY <2>3, <2>4, <2>5
<1>19. Matches'
  BY <1>11, <1>17, <1>18, MatchesStill
<1>20. GreenSet'
  BY <1>6, <1>13 DEF GreenInv, GreenSet, Keeps
<1>21. Stored'
  BY <1>1, <1>8, <1>9, <1>10 DEF GreenInv, Stored, GreenOrNull
<1>22. Owned'
  <2>1. \A x \in Greens : Roots(red', x) = Roots(red, x)
    BY <1>4, <1>13, <1>14, RedsAssumption DEF Roots
  <2>2. \A x \in Greens : Excess(heap', x) = Excess(heap, x) - One(spine.green = x)
                                                             + One(spine'.green = x)
    BY <1>6, <1>8, <1>10
  <2> QED BY <1>1, <2>1, <2>2, SpineOwned
<1>23. RespineSafe'
  <2>1. red'[p].mutable /\ red'[p].green \in Greens
    BY <1>4, <1>5, <1>14, <1>15
  <2> QED BY <1>1, <1>3, <1>8, <1>9, <2>1 DEF RespineSafe
<1>24. ReplaceSafe' /\ PanicSafe' /\ FreeSafe' /\ CopySafe'
  BY <1>1, <1>3, <1>4, <1>8 DEF ReplaceSafe, PanicSafe, FreeSafe, CopySafe
<1> QED BY <1>19, <1>20, <1>21, <1>22, <1>23, <1>24 DEF GreenInv, Stages

-----------------------------------------------------------------------------
(***************************************************************************)
(* detach: the node leaves with a reference of its own to its green, and   *)
(* the siblings behind it move one slot down, in the list and in the green *)
(* node built without it.                                                  *)
(***************************************************************************)
LEMMA DetachDataGreen ==
  ASSUME TreeInv, GreenInv, User, NEW n \in Reds, red[n].rc > 0,
         red[n].mutable, red[n].parent # NULL,
         DetachData(n), UNCHANGED <<kept, dying, drops, stolen>>, edits' \in Nat
  PROVE  /\ Stored' /\ Owned' /\ GreenSet' /\ Matches' /\ RespineSafe'
         /\ spine'.node # NULL
<1>1. /\ spine.node = NULL /\ spine.green = NULL /\ stolen = NULL /\ dying = NULL /\ drops = <<>>
  BY DEF User, Idle, NoSpine
<1>2. PICK p \in Reds : p = red[n].parent /\ p # NULL /\ p # n
  BY <1>1, SlotOfChild, RedsAssumption
<1>3. PICK i \in Nat, g \in Greens, own \in Greens :
        /\ i = red[n].index /\ g = red[p].green /\ own = red[n].green
        /\ i \in Slots(heap, g) /\ Kid(heap, g, i) = own
  BY <1>1, <1>2, SlotOfChild
<1>4. HasOwner(own)
  BY <1>1, <1>3, SafeWithoutPanic, LiveHasGreen, SafeIsOwned DEF GreenInv
<1>5. PICK s : s = ShareOne(heap, own)
  OBVIOUS
<1>6. /\ HeapType(s) /\ Blank(s)
      /\ \A k \in Greens : s[k].kids = heap[k].kids
      /\ \A x \in Greens : /\ s[x].cnt = heap[x].cnt + One(own = x)
                           /\ Excess(s, x) = Excess(heap, x) + One(own = x)
  BY <1>5, ShareOneShares DEF GreenInv, Stored
<1>7. PICK a \in NextGreen : /\ heap' = RemoveChild(s, a, g, i)
                             /\ spine' = [node |-> p, green |-> a, release |-> p]
  BY <1>2, <1>3, <1>5 DEF DetachData, OwnGreen
<1>8. spine'.node = p /\ spine'.green = a
  BY <1>7
<1>9. a \in FreeGreens(heap) /\ a \in Greens /\ heap[a].cnt = 0 /\ Excess(heap, a) >= 0
  BY NextIsFree
<1>10. a \in FreeGreens(s) /\ Excess(s, a) >= 0
  <2>1. a # own
    BY <1>4, <1>9, OwnedIsTaken DEF GreenInv
  <2>2. One(own = a) = 0 /\ Excess(heap, a) \in Nat
    BY <1>9, <2>1, OwnedIsNat DEF One, GreenInv
  <2>3. s[a].cnt = 0 /\ Excess(s, a) = Excess(heap, a)
    BY <1>6, <1>9, <2>2
  <2> QED BY <1>9, <2>3 DEF FreeGreens
<1>11. Slots(s, g) = Slots(heap, g) /\ \A j : Kid(s, g, j) = Kid(heap, g, j)
  BY <1>6 DEF Slots, Kid
<1>12. /\ HeapType(heap') /\ Blank(heap')
       /\ \A k \in Greens \ {a} : heap'[k].kids = s[k].kids
       /\ \A j \in Slots(heap, g) \ {i} :
            LET k == IF j < i THEN j ELSE j - 1
            IN  k \in Slots(heap', a) /\ Kid(heap', a, k) = Kid(heap, g, j)
       /\ \A x \in Greens : Excess(heap', x) = Excess(s, x) + One(a = x)
  BY <1>3, <1>6, <1>7, <1>10, <1>11, RemoveChildTakes
<1>13. Spares(heap')
  BY <1>6, <1>9, <1>12, FreshSpares
<1>14. Detaches(red', n)
  BY DetachDetaches, TreeIsForested
<1>15. /\ red'[n].parent = NULL
       /\ \A m \in Reds :
            /\ m # n => red'[m].parent = red[m].parent
            /\ red'[m].index = IF m \in red[p].first /\ red[m].index > i
                               THEN red[m].index - 1 ELSE red[m].index
            /\ red'[m].green = red[m].green /\ red'[m].mutable = red[m].mutable
            /\ red[m] = FreeRed => red'[m] = FreeRed
  BY <1>2, <1>3, <1>14 DEF Detaches
<1>16. red[p].mutable /\ red[p].green \in Greens
  BY <1>2, <1>3, TreeIsForested DEF Forested, Uniform
<1>17. \A m \in Reds : m \in red[p].first <=> red[m].parent = p
  BY <1>16, TreeIsForested, ListsAre DEF Forested
<1>18. CurrentGreen(p)' = a
  BY <1>8 DEF CurrentGreen
<1>19. ASSUME NEW m \in Reds, Safe(m)', red'[m].parent # NULL
       PROVE  Fits(m)' \/ Stays(m)
  <2>1. m # n
    BY <1>15, <1>19
  <2>2. Safe(m) /\ red'[m].parent = red[m].parent /\ red'[m].green = red[m].green
    BY <1>1, <1>15, <1>19, <2>1, SafeWithoutPanicNext, SafeWithoutPanic
  <2>3. red[m].parent \in Reds
    BY <1>19, <2>2, ParentHasGreen DEF GreenInv
  <2>4. CASE red[m].parent = p
    <3>1. PICK j \in Nat : /\ j = red[m].index
                           /\ j \in Slots(heap, g) /\ Kid(heap, g, j) = red[m].green
      BY <1>1, <1>2, <1>3, <2>4, SlotOfChild
    <3>2. j # i
      BY <1>2, <1>3, <1>16, <2>1, <2>4, <3>1, TreeIsForested, ListsAre DEF Forested
    <3>3. red'[m].index = IF j < i THEN j ELSE j - 1
      BY <1>15, <1>17, <2>4, <3>1, <3>2
    <3>4. red'[m].index \in Slots(heap', a) /\ Kid(heap', a, red'[m].index) = red[m].green
      BY <1>12, <3>1, <3>2, <3>3
    <3> QED BY <1>18, <2>2, <2>4, <3>4 DEF Fits
  <2>5. CASE red[m].parent # p
    <3>1. red'[m].index = red[m].index
      BY <1>15, <1>17, <2>5
    <3>2. CurrentGreen(red[m].parent)' = CurrentGreen(red[m].parent)
      BY <1>1, <1>8, <1>15, <2>2, <2>3, <2>5, RedsAssumption DEF CurrentGreen
    <3> QED BY <2>2, <3>1, <3>2 DEF Stays
  <2> QED BY <2>4, <2>5
<1>20. Matches'
  BY <1>13, <1>19, MatchesStill
<1>21. GreenSet'
  BY <1>15 DEF GreenInv, GreenSet
<1>22. Stored'
  BY <1>8, <1>9, <1>12 DEF GreenInv, Stored, GreenOrNull
<1>23. RespineSafe'
  BY <1>1, <1>2, <1>8, <1>9, <1>15, <1>16 DEF RespineSafe
<1>24. ASSUME NEW x \in Greens PROVE Excess(heap', x) = Outside(x)'
  <2>1. Cardinality(Roots(red', x)) = Cardinality(Roots(red, x)) - One(red[n].parent = NULL /\ red[n].green = x)
                                        + One(red'[n].parent = NULL /\ red'[n].green = x)
    <3>1. \A m \in Reds \ {n} : red'[m].parent = red[m].parent /\ red'[m].green = red[m].green
      BY <1>15
    <3>2. n \in Reds
      OBVIOUS
    <3> QED BY <3>1, <3>2, RootsChange
  <2>2. PICK r \in Nat, l \in Nat, o \in Nat, u \in Nat :
          /\ r = Cardinality(Roots(red, x)) /\ l = One(kept = x)
          /\ o = One(own = x) /\ u = One(a = x)
    BY OutsideType, OneType DEF GreenInv
  <2>3. Cardinality(Roots(red', x)) = r + o
    <3>1. One(red[n].parent = NULL /\ red[n].green = x) = 0
      BY DEF One
    <3>2. One(red'[n].parent = NULL /\ red'[n].green = x) = o
      BY <1>3, <1>15, <2>2 DEF One
    <3> QED BY <2>1, <2>2, <3>1, <3>2
  <2>4. Times(x, drops) = 0 /\ One(spine.green = x) = 0
    BY <1>1, TimesEmpty, GreensAssumption DEF One
  <2>5. Excess(heap, x) = r + l
    BY <2>2, <2>4 DEF GreenInv, Owned, Outside
  <2>6. Outside(x)' = (r + o) + l + u + 0
    BY <1>8, <2>2, <2>3, <2>4 DEF Outside
  <2>7. Excess(heap', x) = r + l + o + u
    BY <1>6, <1>12, <2>2, <2>5
  <2> QED BY <2>6, <2>7
<1>25. Owned'
  BY <1>24 DEF Owned
<1> QED BY <1>2, <1>8, <1>20, <1>21, <1>22, <1>23, <1>25

LEMMA DetachGreen ==
  ASSUME TreeInv, GreenInv, NEW h \in Handles, Detach(h)
  PROVE  GreenInv'
<1>1. /\ User /\ handle[h] # NULL /\ red[handle[h]].mutable /\ red[handle[h]].parent # NULL
      /\ edits' = edits + 1 /\ DetachData(handle[h])
      /\ UNCHANGED <<kept, handle, dying, drops, todo, stolen, forgotten>>
  BY DEF Detach, Edit
<1>2. PICK n \in Reds : n = handle[h] /\ red[n].rc > 0
  <2>1. handle[h] \in Reds
    BY <1>1, TreeIsForested DEF Forested, RefType, RedOrNull
  <2> QED BY <2>1, TreeIsForested, Referenced DEF Forested
<1>3. edits' \in Nat
  BY <1>1 DEF GreenInv, Stored
<1>4. /\ Stored' /\ Owned' /\ GreenSet' /\ Matches' /\ RespineSafe'
      /\ spine'.node # NULL
  BY <1>1, <1>2, <1>3, DetachDataGreen
<1>5. todo'.stage = "none" /\ stolen' = NULL /\ dying' = NULL
  BY <1>1 DEF User, Idle, NoTodo
<1>6. ReplaceSafe' /\ PanicSafe' /\ FreeSafe' /\ CopySafe'
  BY <1>4, <1>5 DEF ReplaceSafe, PanicSafe, FreeSafe, CopySafe
<1> QED BY <1>4, <1>6 DEF GreenInv, Stages

LEMMA AttachChildGreen ==
  ASSUME TreeInv, GreenInv, NEW h \in Handles, NEW i, NEW c \in Handles, AttachChild(h, i, c)
  PROVE  GreenInv'
<1>1. /\ User /\ handle[c] # NULL /\ red[handle[c]].mutable /\ edits' = edits + 1
      /\ todo' = [stage |-> "link", node |-> handle[h], index |-> i, child |-> handle[c]]
      /\ \/ red[handle[c]].parent # NULL /\ DetachData(handle[c])
         \/ red[handle[c]].parent = NULL /\ UNCHANGED <<heap, red, spine>>
      /\ UNCHANGED <<kept, dying, drops, stolen, forgotten>>
  BY DEF AttachChild, Edit
<1>2. PICK m \in Reds : m = handle[c] /\ red[m].rc > 0
  <2>1. handle[c] \in Reds
    BY <1>1, TreeIsForested DEF Forested, RefType, RedOrNull
  <2> QED BY <2>1, TreeIsForested, Referenced DEF Forested
<1>3. edits' \in Nat /\ todo'.stage = "link" /\ stolen' = NULL /\ dying' = NULL /\ drops' = drops
  BY <1>1 DEF GreenInv, Stored, User, Idle
<1>4. CASE red[m].parent # NULL
  <2>1. DetachData(m)
    BY <1>1, <1>2, <1>4
  <2>2. /\ Stored' /\ Owned' /\ GreenSet' /\ Matches' /\ RespineSafe'
        /\ spine'.node # NULL
    BY <1>1, <1>2, <1>3, <1>4, <2>1, DetachDataGreen
  <2>3. ReplaceSafe' /\ PanicSafe' /\ FreeSafe' /\ CopySafe'
    BY <1>3, <2>2 DEF ReplaceSafe, PanicSafe, FreeSafe, CopySafe
  <2> QED BY <2>2, <2>3 DEF GreenInv, Stages
<1>5. CASE red[m].parent = NULL
  <2>1. UNCHANGED <<heap, red, spine>> /\ spine.node = NULL /\ spine.green = NULL
    BY <1>1, <1>2, <1>5 DEF User, Idle, NoSpine
  <2>2. Quiet(red') /\ Spares(heap')
    BY <2>1 DEF Quiet, Keeps, Spares
  <2>3. Matches' /\ GreenSet'
    BY <1>1, <2>1, <2>2, QuietMatches
  <2>4. Owned'
    BY <1>1, <2>1, OwnedStill
  <2>5. Stored'
    BY <1>1, <1>3, <2>1 DEF GreenInv, Stored, GreenOrNull
  <2>6. Stages'
    BY <1>3, <2>1 DEF Stages, RespineSafe, ReplaceSafe, PanicSafe, FreeSafe, CopySafe
  <2> QED BY <2>3, <2>4, <2>5, <2>6 DEF GreenInv
<1> QED BY <1>4, <1>5

-----------------------------------------------------------------------------
(***************************************************************************)
(* attach_child: the child gives its green to the node's new green, or, if *)
(* the index is past the end, to the panic.                                *)
(***************************************************************************)
(* The nodes attach_child is about to link. *)
LEMMA LinkEnds ==
  ASSUME TreeInv, GreenInv, todo.stage = "link"
  PROVE  /\ todo.node \in Reds /\ todo.child \in Reds /\ todo.node # todo.child
         /\ red[todo.node].mutable /\ red[todo.child].mutable /\ red[todo.child].parent = NULL
         /\ red[todo.node].rc > 0 /\ red[todo.child].rc > 0
         /\ red[todo.node].green \in Greens /\ red[todo.child].green \in Greens
         /\ todo.index \in Nat /\ stolen = NULL
<1>1. /\ todo.node \in Reds /\ todo.child \in Reds /\ red[todo.child].parent = NULL
  BY TreeIsForested DEF Accounted
<1>2. /\ red[todo.node].mutable /\ red[todo.child].mutable
      /\ \E h \in Handles : handle[h] = todo.node
  BY DEF TreeInv, MutInv, LinkSafe
<1>3. todo.node # todo.child /\ todo.index \in Nat
  BY DEF TreeInv, LinkFree
<1>4. red[todo.node].rc > 0
  BY <1>1, <1>2, TreeIsForested, Referenced DEF Forested
<1>5. red[todo.child].rc > 0
  <2>1. Held(todo.child) > 0
    BY DEF Held, One
  <2> QED BY <1>1, <2>1, TreeIsForested, Referenced DEF Forested
<1>6. red[todo.node].green \in Greens /\ red[todo.child].green \in Greens
  BY <1>1, <1>4, <1>5, LiveHasGreen DEF GreenInv
<1>7. stolen = NULL
  BY DEF GreenInv, Stages, PanicSafe
<1> QED BY <1>1, <1>2, <1>3, <1>4, <1>5, <1>6, <1>7

LEMMA AttachLinkGreen ==
  ASSUME TreeInv, GreenInv, AttachLink
  PROVE  GreenInv'
<1>1. /\ todo.stage = "link" /\ todo' = [todo EXCEPT !.stage = "drop"] /\ LinkData
      /\ spine = NoSpine /\ dying = NULL /\ drops = <<>>
      /\ UNCHANGED <<kept, handle, dying, drops, stolen, forgotten, edits>>
  BY DEF AttachLink, LoopsDone
<1>2. PICK n \in Reds, m \in Reds, i \in Nat : n = todo.node /\ m = todo.child /\ i = todo.index
  BY <1>1, LinkEnds
<1>3. /\ n # m /\ red[n].mutable /\ red[m].parent = NULL /\ stolen = NULL
      /\ red[n] # FreeRed /\ red[m] # FreeRed
  BY <1>1, <1>2, LinkEnds, LiveIsTaken
<1>4. PICK g \in Greens, own \in Greens :
        g = red[n].green /\ own = red[m].green /\ i <= Len(heap[g].kids)
  BY <1>1, <1>2, LinkEnds DEF AttachLink
<1>5. spine.node = NULL /\ spine.green = NULL
  BY <1>1 DEF NoSpine
<1>6. PICK a \in NextGreen : /\ heap' = InsertChild(heap, a, g, i, own)
                             /\ spine' = [node |-> n, green |-> a, release |-> NULL]
  BY <1>2, <1>4 DEF AttachLink
<1>7. spine'.node = n /\ spine'.green = a
  BY <1>6
<1>8. a \in FreeGreens(heap) /\ a \in Greens /\ heap[a].cnt = 0 /\ Excess(heap, a) >= 0
  BY NextIsFree
<1>9. /\ HeapType(heap') /\ Blank(heap')
      /\ \A k \in Greens \ {a} : heap'[k].kids = heap[k].kids
      /\ i \in Slots(heap', a) /\ Kid(heap', a, i) = own
      /\ \A j \in Slots(heap, g) :
           LET k == IF j < i THEN j ELSE j + 1
           IN  k \in Slots(heap', a) /\ Kid(heap', a, k) = Kid(heap, g, j)
      /\ \A x \in Greens : Excess(heap', x) = Excess(heap, x) - One(own = x) + One(a = x)
  BY <1>4, <1>6, <1>8, InsertChildTakes DEF GreenInv, Stored
<1>10. Spares(heap')
  BY <1>8, <1>9, FreshSpares
<1>11. Links(red', n, m, i)
  BY <1>1, <1>2, <1>3, LinkLinks, TreeIsForested DEF TreeInv, MutInv
<1>12. \A k \in Reds :
         /\ red'[k].parent = IF k = m THEN n ELSE red[k].parent
         /\ red'[k].index = IF k = m THEN i
                            ELSE IF k \in red[n].first /\ red[k].index >= i
                                 THEN red[k].index + 1 ELSE red[k].index
         /\ red'[k].green = red[k].green /\ red'[k].mutable = red[k].mutable
         /\ red[k] = FreeRed => red'[k] = FreeRed
  BY <1>11 DEF Links
<1>13. \A k \in Reds : k \in red[n].first <=> red[k].parent = n
  BY <1>3, TreeIsForested, ListsAre DEF Forested
<1>14. CurrentGreen(n)' = a
  BY <1>7 DEF CurrentGreen
<1>15. Fits(m)'
  BY <1>4, <1>9, <1>12, <1>14 DEF Fits
<1>16. ASSUME NEW k \in Reds, Safe(k)', red'[k].parent # NULL, k # m
       PROVE  Fits(k)' \/ Stays(k)
  <2>1. Safe(k) /\ red'[k].parent = red[k].parent /\ red'[k].green = red[k].green
    BY <1>1, <1>3, <1>12, <1>16, SafeWithoutPanicNext, SafeWithoutPanic
  <2>2. red[k].parent \in Reds
    BY <1>16, <2>1, ParentHasGreen DEF GreenInv
  <2>3. CASE red[k].parent = n
    <3>1. PICK j \in Nat : /\ j = red[k].index
                           /\ j \in Slots(heap, g) /\ Kid(heap, g, j) = red[k].green
      BY <1>3, <1>4, <1>5, <2>3, SlotOfChild, RedsAssumption
    <3>2. red'[k].index = IF j < i THEN j ELSE j + 1
      BY <1>12, <1>13, <1>16, <2>3, <3>1
    <3>3. red'[k].index \in Slots(heap', a) /\ Kid(heap', a, red'[k].index) = red[k].green
      BY <1>9, <3>1, <3>2
    <3> QED BY <1>14, <2>1, <2>3, <3>3 DEF Fits
  <2>4. CASE red[k].parent # n
    <3>1. red'[k].index = red[k].index
      BY <1>12, <1>13, <1>16, <2>4
    <3>2. CurrentGreen(red[k].parent)' = CurrentGreen(red[k].parent)
      BY <1>5, <1>7, <1>12, <2>1, <2>2, <2>4, RedsAssumption DEF CurrentGreen
    <3> QED BY <2>1, <3>1, <3>2 DEF Stays
  <2> QED BY <2>3, <2>4
<1>17. Matches'
  BY <1>10, <1>15, <1>16, MatchesStill
<1>18. GreenSet'
  BY <1>12 DEF GreenInv, GreenSet
<1>19. Stored'
  BY <1>1, <1>7, <1>8, <1>9 DEF GreenInv, Stored, GreenOrNull
<1>20. Stages'
  <2>1. red'[n].mutable /\ red'[n].green \in Greens
    BY <1>3, <1>4, <1>12
  <2>2. todo'.stage = "drop" /\ n # NULL
    BY <1>1, TreeIsForested, RedsAssumption DEF Forested, RefType, NoTodo
  <2> QED
    BY <1>1, <1>3, <1>7, <1>8, <2>1, <2>2
    DEF Stages, RespineSafe, ReplaceSafe, PanicSafe, FreeSafe, CopySafe
<1>21. ASSUME NEW x \in Greens PROVE Excess(heap', x) = Outside(x)'
  <2>1. Cardinality(Roots(red', x)) = Cardinality(Roots(red, x)) - One(red[m].parent = NULL /\ red[m].green = x)
                                        + One(red'[m].parent = NULL /\ red'[m].green = x)
    <3>1. \A k \in Reds \ {m} : red'[k].parent = red[k].parent /\ red'[k].green = red[k].green
      BY <1>12
    <3> QED BY <3>1, RootsChange
  <2>2. PICK r \in Nat, l \in Nat, o \in Nat, u \in Nat :
          /\ r = Cardinality(Roots(red, x)) /\ l = One(kept = x)
          /\ o = One(own = x) /\ u = One(a = x)
    BY OutsideType, OneType DEF GreenInv
  <2>3. Cardinality(Roots(red', x)) = r - o
    <3>1. One(red[m].parent = NULL /\ red[m].green = x) = o
      BY <1>3, <1>4, <2>2 DEF One
    <3>2. red'[m].parent # NULL
      BY <1>12, RedsAssumption
    <3>3. One(red'[m].parent = NULL /\ red'[m].green = x) = 0
      BY <3>2 DEF One
    <3> QED BY <2>1, <2>2, <3>1, <3>3
  <2>4. Times(x, drops) = 0 /\ One(spine.green = x) = 0
    BY <1>1, <1>5, TimesEmpty, GreensAssumption DEF One
  <2>5. Excess(heap, x) = r + l
    BY <2>2, <2>4 DEF GreenInv, Owned, Outside
  <2>6. Outside(x)' = (r - o) + l + u + 0
    BY <1>1, <1>7, <2>2, <2>3, <2>4 DEF Outside
  <2>7. Excess(heap', x) = r + l - o + u
    BY <1>9, <2>2, <2>5
  <2> QED BY <2>2, <2>6, <2>7
<1>22. Owned'
  BY <1>21 DEF Owned
<1> QED BY <1>17, <1>18, <1>19, <1>20, <1>22 DEF GreenInv

LEMMA AttachPanicGreen ==
  ASSUME TreeInv, TreeInv', GreenInv, AttachPanic
  PROVE  GreenInv'
<1>1. /\ todo.stage = "link" /\ todo' = [todo EXCEPT !.stage = "drop"] /\ LinkData
      /\ spine = NoSpine /\ dying = NULL /\ drops = <<>>
      /\ UNCHANGED <<heap, kept, handle, spine, dying, forgotten, edits>>
  BY DEF AttachPanic, LoopsDone
<1>2. PICK n \in Reds, m \in Reds, i \in Nat : n = todo.node /\ m = todo.child /\ i = todo.index
  BY <1>1, LinkEnds
<1>3. /\ n # m /\ red[n].mutable /\ red[m].parent = NULL /\ stolen = NULL
      /\ red[n] # FreeRed /\ red[m] # FreeRed
  BY <1>1, <1>2, LinkEnds, LiveIsTaken
<1>4. PICK g \in Greens, own \in Greens :
        g = red[n].green /\ own = red[m].green /\ i > Len(heap[g].kids)
  BY <1>1, <1>2, LinkEnds DEF AttachPanic
<1>5. spine.node = NULL /\ spine.green = NULL /\ drops' = <<own>> /\ stolen' = m
  BY <1>1, <1>2, <1>4 DEF NoSpine, AttachPanic
<1>6. Spares(heap')
  BY <1>1 DEF Spares
<1>7. Links(red', n, m, i)
  BY <1>1, <1>2, <1>3, LinkLinks, TreeIsForested DEF TreeInv, MutInv
<1>8. \A k \in Reds :
        /\ red'[k].parent = IF k = m THEN n ELSE red[k].parent
        /\ red'[k].index = IF k = m THEN i
                           ELSE IF k \in red[n].first /\ red[k].index >= i
                                THEN red[k].index + 1 ELSE red[k].index
        /\ red'[k].green = red[k].green /\ red'[k].mutable = red[k].mutable
        /\ red[k] = FreeRed => red'[k] = FreeRed
  BY <1>7 DEF Links
<1>9. \A k \in Reds : k \in red[n].first <=> red[k].parent = n
  BY <1>3, TreeIsForested, ListsAre DEF Forested
<1>10. Parents(red')
  BY DEF TreeInv, MutInv, CountInv, RefType, Parents
<1>11. ASSUME NEW k \in Reds, Safe(k)', red'[k].parent # NULL
       PROVE  Stays(k)
  <2>1. k # m
    <3>1. m \notin Above(red', k)
      BY <1>5, <1>11 DEF Safe
    <3> QED BY <1>10, <3>1, AboveClosed
  <2>2. red'[k].parent = red[k].parent /\ red'[k].green = red[k].green
    BY <1>8, <2>1
  <2>3. red[k].parent \in Reds /\ red[k] # FreeRed
    BY <1>11, <2>2, ParentHasGreen DEF GreenInv
  <2>4. Safe(k)
    BY <1>3, <2>3, SafeWithoutPanic
  <2>5. red'[k].index = red[k].index
    <3>1. CASE red[k].parent = n
      <4>1. red[k].index \in Slots(heap, g)
        BY <1>3, <1>4, <1>5, <3>1, SlotOfChild, RedsAssumption
      <4>2. red[k].index \in Nat /\ red[k].index + 1 \in 1 .. Len(heap[g].kids)
            /\ Len(heap[g].kids) \in Nat
        <5>1. PICK j \in Slots(heap, g) : j = red[k].index
          BY <4>1
        <5>2. /\ heap[g].kids \in Seq(Greens) /\ j \in Nat
              /\ j + 1 \in 1 .. Len(heap[g].kids)
          BY <1>4, <5>1, SlotPlace DEF GreenInv, Stored, HeapType
        <5> QED BY <5>1, <5>2
      <4>3. ~ (red[k].index >= i)
        BY <1>4, <4>2
      <4> QED BY <1>8, <2>1, <4>3
    <3>2. CASE red[k].parent # n
      BY <1>8, <1>9, <2>1, <3>2
    <3> QED BY <3>1, <3>2
  <2>6. CurrentGreen(red[k].parent)' = CurrentGreen(red[k].parent)
    BY <1>1, <1>8, <2>2, <2>3 DEF CurrentGreen
  <2> QED BY <2>2, <2>4, <2>5, <2>6 DEF Stays
<1>12. Matches'
  BY <1>6, <1>11, MatchesStill
<1>13. GreenSet'
  BY <1>8 DEF GreenInv, GreenSet
<1>14. Stored'
  BY <1>1, <1>5 DEF GreenInv, Stored, GreenOrNull
<1>15. Stages'
  <2>1. todo'.stage = "drop"
    BY <1>1, TreeIsForested DEF Forested, RefType, NoTodo
  <2> QED
    BY <1>1, <1>5, <2>1
    DEF Stages, RespineSafe, ReplaceSafe, PanicSafe, FreeSafe, CopySafe
<1>16. ASSUME NEW x \in Greens PROVE Excess(heap', x) = Outside(x)'
  <2>1. Cardinality(Roots(red', x)) = Cardinality(Roots(red, x)) - One(red[m].parent = NULL /\ red[m].green = x)
                                        + One(red'[m].parent = NULL /\ red'[m].green = x)
    <3>1. \A k \in Reds \ {m} : red'[k].parent = red[k].parent /\ red'[k].green = red[k].green
      BY <1>8
    <3> QED BY <3>1, RootsChange
  <2>2. PICK r \in Nat, l \in Nat, o \in Nat :
          r = Cardinality(Roots(red, x)) /\ l = One(kept = x) /\ o = One(own = x)
    BY OutsideType, OneType DEF GreenInv
  <2>3. Cardinality(Roots(red', x)) = r - o
    <3>1. One(red[m].parent = NULL /\ red[m].green = x) = o
      BY <1>3, <1>4, <2>2 DEF One
    <3>2. red'[m].parent # NULL
      BY <1>8, RedsAssumption
    <3>3. One(red'[m].parent = NULL /\ red'[m].green = x) = 0
      BY <3>2 DEF One
    <3> QED BY <2>1, <2>2, <3>1, <3>3
  <2>4. Times(x, drops) = 0 /\ One(spine.green = x) = 0
    BY <1>1, <1>5, TimesEmpty, GreensAssumption DEF One
  <2>5. Excess(heap, x) = r + l
    BY <2>2, <2>4 DEF GreenInv, Owned, Outside
  <2>6. Times(x, drops') = o
    BY <1>5, <2>2, TimesOne
  <2>7. Outside(x)' = (r - o) + l + 0 + o
    BY <1>1, <2>2, <2>3, <2>4, <2>6 DEF Outside
  <2> QED BY <1>1, <2>2, <2>5, <2>7
<1>17. Owned'
  BY <1>16 DEF Owned
<1> QED BY <1>12, <1>13, <1>14, <1>15, <1>17 DEF GreenInv

-----------------------------------------------------------------------------
(***************************************************************************)
(* The invariant holds at the start and after every step.                  *)
(***************************************************************************)
LEMMA InitGreen == Init => GreenInv
<1> SUFFICES ASSUME Init PROVE GreenInv
  OBVIOUS
<1>1. /\ \A n \in Reds : red[n] = FreeRed
      /\ heap = InitHeap /\ kept = Root /\ drops = <<>> /\ stolen = NULL /\ dying = NULL
      /\ edits = 0
      /\ spine.node = NULL /\ spine.green = NULL /\ todo.stage = "none"
  BY DEF Init, NoSpine, NoTodo
<1>2. Stored
  BY <1>1, InitHeapAssumption, GreensAssumption DEF Stored, GreenOrNull
<1>3. GreenSet /\ Matches
  BY <1>1 DEF GreenSet, Matches, Safe
<1>4. Stages
  BY <1>1 DEF Stages, RespineSafe, ReplaceSafe, PanicSafe, FreeSafe, CopySafe
<1>5. ASSUME NEW x \in Greens PROVE Excess(heap, x) = Outside(x)
  <2>1. Roots(red, x) = {}
    BY <1>1, GreensAssumption DEF Roots, FreeRed
  <2>2. Cardinality(Roots(red, x)) = 0 /\ Times(x, drops) = 0
    BY <1>1, <2>1, FS_EmptySet, TimesEmpty
  <2>3. One(spine.green = x) = 0
    BY <1>1, GreensAssumption DEF One
  <2>4. One(x = Root) \in Nat /\ One(kept = x) = One(x = Root)
    BY <1>1, OneType DEF One
  <2>5. /\ heap[x].cnt = Cardinality(SlotsOf(heap, x)) + One(x = Root)
        /\ Cardinality(SlotsOf(heap, x)) \in Nat
    BY <1>1, <1>2, InitHeapAssumption, SlotsType DEF Stored
  <2>6. Excess(heap, x) = One(x = Root)
    BY <2>4, <2>5 DEF Excess
  <2> QED BY <2>2, <2>3, <2>4, <2>6 DEF Outside
<1>6. Owned
  BY <1>5 DEF Owned
<1> QED BY <1>2, <1>3, <1>4, <1>6 DEF GreenInv

LEMMA OperationGreen ==
  ASSUME TreeInv, TreeInv', GreenInv, Operation
  PROVE  GreenInv'
<1>1. ASSUME NEW h \in Handles, NEW mut \in BOOLEAN, NewRoot(h, mut)
      PROVE  GreenInv'
  <2>1. User /\ NewRootData(kept, mut, h) /\ kept \in Greens
    BY <1>1 DEF NewRoot, GreenInv, Stored, GreenOrNull
  <2>2. PICK g \in Greens : g = kept
    BY <2>1
  <2>3. NewRootData(g, mut, h)
    BY <2>1, <2>2
  <2> QED BY <2>1, <2>3, NewRootGreen
<1>2. ASSUME NEW h \in Handles, NEW new \in Handles, CloneSubtree(h, new)
      PROVE  GreenInv'
  <2>1. User /\ handle[h] \in Reds /\ NewRootData(red[handle[h]].green, FALSE, new)
    BY <1>2, TreeIsForested DEF CloneSubtree, Forested, RefType, RedOrNull
  <2>2. red[handle[h]].rc > 0
    BY <2>1, TreeIsForested, Referenced DEF Forested
  <2>3. PICK g \in Greens : g = red[handle[h]].green
    BY <2>1, <2>2, LiveHasGreen DEF GreenInv
  <2>4. PICK mut : mut = FALSE
    OBVIOUS
  <2>5. NewRootData(g, mut, new)
    BY <2>1, <2>3, <2>4
  <2> QED BY <2>1, <2>5, NewRootGreen
<1>3. ASSUME NEW h \in Handles, Drop(h)
      PROVE  GreenInv'
  <2>1. handle[h] \in Reds
    BY <1>3, TreeIsForested DEF Drop, Forested, RefType, RedOrNull
  <2>2. red[handle[h]].rc > 0
    BY <2>1, TreeIsForested, Referenced DEF Forested
  <2>3. PICK n \in Reds : n = handle[h]
    BY <2>1
  <2>4. /\ Idle /\ red[n].rc > 0 /\ Release(red, n)
        /\ UNCHANGED <<heap, kept, spine, drops, todo, stolen, edits>>
    BY <1>3, <2>2, <2>3 DEF Drop
  <2> QED BY <2>4, DropGreens
<1>4. ASSUME NEW h \in Handles, NEW new \in Handles,
             \/ CloneSubtree(h, new) \/ ReplaceWith(h, new)
             \/ Clone(h, new) \/ Parent(h, new)
             \/ \E K \in Matchers : FirstChild(h, K, new) \/ NextSibling(h, K, new)
             \/ \E K \in {NodeKinds, Kinds} : LastChild(h, K, new) \/ PrevSibling(h, K, new)
             \/ handle[h] # NULL /\ \E i \in Indices(h) : AttachChild(h, i, new)
      PROVE  GreenInv'
  BY <1>2, <1>4, ReplaceWithGreen, ReferGreen, NavigateGreen, AttachChildGreen
<1>5. ASSUME NEW h \in Handles,
             \/ Drop(h) \/ Detach(h) \/ CloneForUpdate(h)
             \/ \E K \in {NodeKinds, Kinds} : ToNextSibling(h, K)
      PROVE  GreenInv'
  BY <1>3, <1>5, DetachGreen, CloneForUpdateGreen, ToNextSiblingGreen
<1> QED BY <1>1, <1>4, <1>5, DropKeptGreen DEF Operation

LEMMA LoopGreen ==
  ASSUME TreeInv, TreeInv', GreenInv, Loop
  PROVE  GreenInv'
<1>1. CASE RespineStep
  BY <1>1, RespineRootGreen, RespineClimbGreen
<1> QED
  BY <1>1, FreeGreen, DropGreenStepGreen, AttachLinkGreen, AttachPanicGreen, AttachEndGreen,
     CloneStepGreen, CloneEndGreen, ReplaceStepGreen, ReplaceEndGreen
  DEF Loop

LEMMA StutterGreen ==
  ASSUME TreeInv, GreenInv, UNCHANGED vars
  PROVE  GreenInv'
<1>1. UNCHANGED <<heap, kept, red, spine, dying, drops, todo, stolen, edits>>
  BY DEF vars
<1>2. Stored' /\ GreenSet'
  BY <1>1 DEF GreenInv, Stored, GreenSet
<1>3. Owned'
  BY <1>1 DEF GreenInv, Owned, Outside
<1>4. Matches'
  BY <1>1 DEF GreenInv, Matches, Safe, Fits, CurrentGreen
<1>5. Stages'
  BY <1>1 DEF GreenInv, Stages, RespineSafe, ReplaceSafe, PanicSafe, FreeSafe, CopySafe
<1> QED BY <1>2, <1>3, <1>4, <1>5 DEF GreenInv

LEMMA InitCursor == Init => TreeInv /\ GreenInv
BY InitTree, InitGreen

LEMMA StepCursor ==
  ASSUME TreeInv, GreenInv, [Next]_vars
  PROVE  TreeInv' /\ GreenInv'
<1>1. TreeInv'
  BY StepTree
<1>2. GreenInv'
  BY <1>1, OperationGreen, LoopGreen, StutterGreen DEF Next
<1> QED BY <1>1, <1>2

-----------------------------------------------------------------------------
(***************************************************************************)
(* Theorems.                                                               *)
(***************************************************************************)
LEMMA SoundIsSafe ==
  ASSUME TreeInv
  PROVE  \A n : n \in Sound <=> n \in Reds /\ Safe(n)
<1>1. \A n \in Reds : Up[n] = Above(red, n)
  BY UpIsAbove, TreeIsForested
<1> QED BY <1>1 DEF Sound, Occupied, Safe

(***************************************************************************)
(* Every red that has a parent points at the very green element its        *)
(* parent's green node has in the slot `index`, although attach_child,     *)
(* detach and respine move slots and rebuild the green nodes above.        *)
(***************************************************************************)
THEOREM GreensMatch == Spec => []GreenMatches
<1>1. TreeInv /\ GreenInv => GreenMatches
  <2> SUFFICES ASSUME TreeInv, GreenInv, NEW n \in Sound, red[n].parent # NULL
               PROVE  LET g == CurrentGreen(red[n].parent)
                      IN  red[n].index \in Slots(heap, g) /\ Kid(heap, g, red[n].index) = red[n].green
    BY DEF GreenMatches
  <2>1. n \in Reds /\ Safe(n)
    BY SoundIsSafe
  <2>2. Fits(n)
    BY <2>1 DEF GreenInv, Matches
  <2> QED BY <2>2 DEF Fits
<1> QED BY <1>1, InitCursor, StepCursor, PTL DEF Spec

(***************************************************************************)
(* A green element is counted exactly once by every owner it has: no root  *)
(* frees its green twice or leaks it when detach, attach_child, respine,   *)
(* free or the panic of attach_child passes the ownership on.              *)
(***************************************************************************)
THEOREM GreensAreOwned == Spec => []GreenOwned
<1>1. TreeInv /\ GreenInv => GreenOwned
  <2> SUFFICES ASSUME TreeInv, GreenInv, NEW g \in Greens
               PROVE  heap[g].cnt = Cardinality(SlotsOf(heap, g))
                                    + Cardinality(RootsOf(g)) + One(kept = g)
                                    + One(spine.green = g) + Times(g, drops)
    BY DEF GreenOwned
  <2>1. RootsOf(g) = Roots(red, g)
    BY GreensAssumption DEF RootsOf, Roots, Occupied, FreeRed
  <2>2. /\ heap[g].cnt = Excess(heap, g) + Cardinality(SlotsOf(heap, g))
        /\ Cardinality(SlotsOf(heap, g)) \in Nat
    BY ExcessType DEF GreenInv, Stored
  <2>3. /\ Cardinality(Roots(red, g)) \in Nat /\ One(kept = g) \in Nat
        /\ One(spine.green = g) \in Nat /\ Times(g, drops) \in Nat
        /\ Excess(heap, g) = Cardinality(Roots(red, g)) + One(kept = g)
                             + One(spine.green = g) + Times(g, drops)
    BY OutsideType DEF GreenInv, Owned
  <2>4. PICK s \in Nat, r \in Nat, k \in Nat, u \in Nat, t \in Nat :
          /\ s = Cardinality(SlotsOf(heap, g)) /\ r = Cardinality(Roots(red, g))
          /\ k = One(kept = g) /\ u = One(spine.green = g) /\ t = Times(g, drops)
    BY <2>2, <2>3
  <2>5. heap[g].cnt = s + r + k + u + t
    BY <2>2, <2>3, <2>4
  <2> QED BY <2>1, <2>4, <2>5
<1> QED BY <1>1, InitCursor, StepCursor, PTL DEF Spec

(***************************************************************************)
(* No cursor, but those below the red a panic of attach_child left behind, *)
(* points at green memory that was freed: the raw green pointer of a red   *)
(* is kept alive by its parent's green node or, in a root, by the red.     *)
(***************************************************************************)
THEOREM NothingDangles == Spec => []NoDangling
<1>1. TreeInv /\ GreenInv => NoDangling
  <2> SUFFICES ASSUME TreeInv, GreenInv, NEW n \in Sound
               PROVE  heap[red[n].green].cnt > 0
    BY DEF NoDangling
  <2>1. n \in Reds /\ Safe(n)
    BY SoundIsSafe
  <2>2. PICK g : g = red[n].green /\ HasOwner(g)
    BY <2>1, SafeIsOwned
  <2>3. Times(g, drops) \in Nat /\ heap[g].cnt \in Nat /\ heap[g].cnt > Times(g, drops)
    BY <2>2, TimesType DEF HasOwner, GreenInv, Stored, HeapType
  <2> QED BY <2>2, <2>3
<1> QED BY <1>1, InitCursor, StepCursor, PTL DEF Spec

(***************************************************************************)
(* The reds, the green elements and the references still to be dropped     *)
(* keep their types: no count is ever decremented below zero and no index  *)
(* below the first slot.                                                   *)
(***************************************************************************)
THEOREM CursorsAreTyped == Spec => []TypeOK
<1>1. TreeInv /\ GreenInv => TypeOK
  <2> SUFFICES ASSUME TreeInv, GreenInv PROVE RefType /\ DataType
    BY DEF TypeOK
  <2>1. RefType /\ (\A n \in Reds : red[n].index \in Nat) /\ todo.index \in Nat
    BY TreeIsForested DEF Forested, Indexed, TreeInv, LinkFree
  <2>2. \A n \in Reds : red[n].green \in GreenOrNull
    BY DEF GreenInv, GreenSet, GreenOrNull, FreeRed
  <2>3. /\ HeapType(heap) /\ spine.green \in GreenOrNull /\ drops \in Seq(Greens)
        /\ kept \in GreenOrNull /\ edits \in Nat
    BY DEF GreenInv, Stored
  <2> QED BY <2>1, <2>2, <2>3 DEF DataType
<1> QED BY <1>1, InitCursor, StepCursor, PTL DEF Spec

-----------------------------------------------------------------------------
(***************************************************************************)
(* What a step does to the heap: it counts, it builds one node, which the  *)
(* walk up to the root then carries, or it drops one reference.            *)
(***************************************************************************)
SameNode(h, k) == h[k].kids = heap[k].kids /\ h[k].len = heap[k].len /\ h[k].kind = heap[k].kind

Counts == \A k \in Greens : SameNode(heap', k)

(* The node built at a has one owner, and knows the length of its children. *)
Made(q, a) ==
  /\ q[a].cnt = 1
  /\ \A k \in Greens \ {a} : SameNode(q, k)
  /\ \E h : (\A k \in Greens : SameNode(h, k)) /\ q[a].len = TextLen(h, q[a].kids)

Builds == \E a \in FreeGreens(heap) : spine'.green = a /\ Made(heap', a)

Drops == drops # <<>> /\ heap' = DropGreen(heap, Head(drops)) /\ UNCHANGED spine

HeapStep == Counts \/ Builds \/ Drops

Shaped(h) == DOMAIN h = Greens /\ \A k \in Greens : DOMAIN h[k] = DOMAIN Free

LEMMA ShareOneKeeps ==
  ASSUME Shaped(heap), NEW g
  PROVE  Shaped(ShareOne(heap, g)) /\ \A k \in Greens : SameNode(ShareOne(heap, g), k)
BY DEF Shaped, ShareOne, SameNode, Free

LEMMA CopyKeeps ==
  ASSUME NEW h, Shaped(h), \A k \in Greens : SameNode(h, k), NEW a \in Greens,
         NEW s, NEW kind, NEW kids, NEW q, q = NewNode(Share(h, s), a, kind, kids)
  PROVE  Made(q, a)
<1>1. \A k \in Greens : /\ Share(h, s)[k].kids = h[k].kids /\ Share(h, s)[k].len = h[k].len
                        /\ Share(h, s)[k].kind = h[k].kind
  BY DEF Share, Shaped, Free
<1>2. DOMAIN Share(h, s) = Greens
  BY DEF Share
<1>3. /\ q[a].cnt = 1 /\ q[a].len = TextLen(Share(h, s), q[a].kids)
      /\ \A k \in Greens \ {a} : q[k] = Share(h, s)[k]
  BY <1>2 DEF NewNode
<1>4. \A k \in Greens : SameNode(Share(h, s), k)
  BY <1>1 DEF SameNode
<1>5. \A k \in Greens \ {a} : SameNode(q, k)
  BY <1>1, <1>3 DEF SameNode
<1> QED BY <1>3, <1>4, <1>5 DEF Made

LEMMA EditKeeps ==
  ASSUME NEW h, Shaped(h), \A k \in Greens : SameNode(h, k), NEW a \in Greens,
         NEW g, NEW i, NEW x,
         \/ heap' = ReplaceChild(h, a, g, i, x)
         \/ heap' = InsertChild(h, a, g, i, x)
         \/ heap' = RemoveChild(h, a, g, i)
  PROVE  Made(heap', a)
<1>1. CASE heap' = ReplaceChild(h, a, g, i, x)
  BY <1>1, CopyKeeps DEF ReplaceChild
<1>2. CASE heap' = InsertChild(h, a, g, i, x)
  BY <1>2, CopyKeeps DEF InsertChild
<1>3. CASE heap' = RemoveChild(h, a, g, i)
  BY <1>3, CopyKeeps DEF RemoveChild
<1> QED BY <1>1, <1>2, <1>3

LEMMA DetachBuilds ==
  ASSUME Shaped(heap), NEW n, DetachData(n)
  PROVE  Builds
<1>1. PICK a \in NextGreen :
        /\ heap' = RemoveChild(OwnGreen(n), a, red[red[n].parent].green, red[n].index)
        /\ spine' = [node |-> red[n].parent, green |-> a, release |-> red[n].parent]
  BY DEF DetachData
<1>2. PICK s : s = OwnGreen(n)
  OBVIOUS
<1>3. Shaped(s) /\ \A k \in Greens : SameNode(s, k)
  BY <1>2, ShareOneKeeps DEF OwnGreen
<1>4. a \in FreeGreens(heap) /\ a \in Greens
  BY DEF NextGreen, Lowest, FreeGreens
<1>5. Made(heap', a)
  <2>1. heap' = RemoveChild(s, a, red[red[n].parent].green, red[n].index)
    BY <1>1, <1>2
  <2> QED BY <1>3, <1>4, <2>1, EditKeeps
<1> QED BY <1>1, <1>4, <1>5 DEF Builds

LEMMA HeapSteps ==
  ASSUME TreeInv, GreenInv, [Next]_vars
  PROVE  HeapStep
<1>1. Shaped(heap) /\ DOMAIN spine = {"node", "green", "release"}
  BY TreeIsForested DEF GreenInv, Stored, HeapType, Shaped, Forested, RefType
<1>2. heap' = heap => Counts
  BY DEF Counts, SameNode
<1>3. ASSUME NEW g, heap' = ShareOne(heap, g) PROVE Counts
  BY <1>1, <1>3, ShareOneKeeps DEF Counts
<1>4. \A a \in NextGreen : a \in FreeGreens(heap) /\ a \in Greens
  BY DEF NextGreen, Lowest, FreeGreens
<1>5. \A k \in Greens : SameNode(heap, k)
  BY DEF SameNode
<1>6. CASE UNCHANGED vars
  BY <1>2, <1>6 DEF HeapStep, vars
<1>7. ASSUME NEW h \in Handles, NEW mut, NewRoot(h, mut) PROVE Counts
  BY <1>3, <1>7 DEF NewRoot, NewRootData
<1>8. ASSUME NEW h \in Handles, CloneForUpdate(h) PROVE Counts
  BY <1>3, <1>8 DEF CloneForUpdate
<1>9. ASSUME NEW h \in Handles, Detach(h) PROVE Builds
  BY <1>1, <1>9, DetachBuilds DEF Detach
<1>10. ASSUME NEW h \in Handles, NEW i, NEW c \in Handles, AttachChild(h, i, c) PROVE HeapStep
  BY <1>1, <1>2, <1>10, DetachBuilds DEF AttachChild, HeapStep
<1>11. ASSUME NEW h \in Handles, NEW c \in Handles, ReplaceWith(h, c) PROVE HeapStep
  <2>1. PICK n, g : n = handle[h] /\ g = red[handle[c]].green
    OBVIOUS
  <2>2. CASE red[n].parent = NULL
    BY <1>3, <1>11, <2>1, <2>2 DEF ReplaceWith, HeapStep
  <2>3. CASE red[n].parent # NULL
    <3>1. PICK a \in NextGreen :
            /\ heap' = ReplaceChild(ShareOne(heap, g), a, red[red[n].parent].green, red[n].index, g)
            /\ spine' = [NoSpine EXCEPT !.green = a]
      BY <1>11, <2>1, <2>3 DEF ReplaceWith
    <3>2. PICK s : s = ShareOne(heap, g)
      OBVIOUS
    <3>3. Shaped(s) /\ \A k \in Greens : SameNode(s, k)
      BY <1>1, <3>2, ShareOneKeeps
    <3>4. heap' = ReplaceChild(s, a, red[red[n].parent].green, red[n].index, g)
      BY <3>1, <3>2
    <3>5. Made(heap', a)
      BY <1>4, <3>3, <3>4, EditKeeps
    <3>6. spine'.green = a
      BY <3>1 DEF NoSpine
    <3> QED BY <1>4, <3>5, <3>6 DEF HeapStep, Builds
  <2> QED BY <2>2, <2>3
<1>12. CASE RespineStep
  <2>1. CASE UNCHANGED heap
    BY <1>2, <2>1 DEF HeapStep
  <2>2. CASE heap' # heap
    <3>1. PICK n, p : n = spine.node /\ p = red[n].parent
      OBVIOUS
    <3>2. PICK a \in NextGreen :
            /\ heap' = ReplaceChild(heap, a, red[p].green, red[n].index, spine.green)
            /\ spine' = Climb(p, a)
      BY <1>12, <2>2, <3>1 DEF RespineStep
    <3>3. Made(heap', a)
      BY <1>1, <1>4, <1>5, <3>2, EditKeeps
    <3>4. spine'.green = a
      BY <1>1, <3>2 DEF Climb
    <3> QED BY <1>4, <3>3, <3>4 DEF HeapStep, Builds
  <2> QED BY <2>1, <2>2
<1>13. CASE ReplaceStep
  <2>1. PICK n, p : n = todo.node /\ p = red[n].parent
    OBVIOUS
  <2>2. PICK a \in NextGreen :
          /\ heap' = ReplaceChild(heap, a, red[p].green, red[n].index, spine.green)
          /\ spine' = [spine EXCEPT !.green = a]
    BY <1>13, <2>1 DEF ReplaceStep
  <2>3. Made(heap', a)
    BY <1>1, <1>4, <1>5, <2>2, EditKeeps
  <2>4. spine'.green = a
    BY <1>1, <2>2
  <2> QED BY <1>4, <2>3, <2>4 DEF HeapStep, Builds
<1>14. CASE AttachLink
  <2>1. PICK a \in NextGreen :
          /\ heap' = InsertChild(heap, a, red[todo.node].green, todo.index, red[todo.child].green)
          /\ spine' = [node |-> todo.node, green |-> a, release |-> NULL]
    BY <1>14 DEF AttachLink
  <2>2. Made(heap', a)
    BY <1>1, <1>4, <1>5, <2>1, EditKeeps
  <2> QED BY <1>4, <2>1, <2>2 DEF HeapStep, Builds
<1>15. CASE DropGreenStep
  BY <1>15 DEF DropGreenStep, HeapStep, Drops
<1>16. ASSUME NEW h \in Handles, NEW new \in Handles, CloneSubtree(h, new) PROVE Counts
  BY <1>3, <1>16 DEF CloneSubtree, NewRootData
<1>17. CASE Operation
  <2>1. CASE DropKept
    BY <1>2, <2>1 DEF DropKept, HeapStep
  <2>2. ASSUME NEW h \in Handles, \/ Drop(h)
                                  \/ \E K \in {NodeKinds, Kinds} : ToNextSibling(h, K)
        PROVE  HeapStep
    BY <1>2, <2>2
    DEF HeapStep, Drop, ToNextSibling, StepShared, StepInPlace, StepOffEnd, StepOffRoot
  <2>3. ASSUME NEW h \in Handles, NEW new \in Handles,
               \/ Clone(h, new) \/ Parent(h, new)
               \/ \E K \in Matchers : FirstChild(h, K, new) \/ NextSibling(h, K, new)
               \/ \E K \in {NodeKinds, Kinds} : LastChild(h, K, new) \/ PrevSibling(h, K, new)
        PROVE  HeapStep
    BY <1>2, <2>3
    DEF HeapStep, Clone, Parent, Refer, FirstChild, LastChild, NextSibling, PrevSibling, NewChild
  <2> QED
    BY <1>7, <1>8, <1>9, <1>10, <1>11, <1>16, <1>17, <2>1, <2>2, <2>3 DEF Operation, HeapStep
<1>18. CASE Loop
  <2>1. CASE FreeStep \/ AttachPanic \/ AttachEnd \/ CloneStep \/ CloneEnd \/ ReplaceEnd
    BY <1>2, <2>1 DEF FreeStep, AttachPanic, AttachEnd, CloneStep, CloneEnd, ReplaceEnd, HeapStep
  <2> QED BY <1>12, <1>13, <1>14, <1>15, <1>18, <2>1 DEF Loop
<1> QED BY <1>6, <1>17, <1>18 DEF Next

-----------------------------------------------------------------------------
(***************************************************************************)
(* Owned nodes last: they keep their children and their lengths.           *)
(***************************************************************************)
Lasts == \A k \in Greens : heap[k].cnt > Times(k, drops) => SameNode(heap', k)

LEMMA OwnedLast ==
  ASSUME TreeInv, GreenInv, [Next]_vars
  PROVE  Lasts
<1> SUFFICES ASSUME NEW k \in Greens, heap[k].cnt > Times(k, drops)
             PROVE  SameNode(heap', k)
  BY DEF Lasts
<1>1. heap[k].cnt \in Nat /\ Times(k, drops) \in Nat
  BY TimesType DEF GreenInv, Stored, HeapType
<1>2. CASE Counts
  BY <1>2 DEF Counts
<1>3. CASE Builds
  <2>1. PICK a \in FreeGreens(heap) : \A j \in Greens \ {a} : SameNode(heap', j)
    BY <1>3 DEF Builds, Made
  <2>2. k # a
    BY <1>1, <2>1 DEF FreeGreens
  <2> QED BY <2>1, <2>2
<1>4. CASE Drops
  <2>1. /\ Head(drops) \in Greens /\ Tail(drops) \in Seq(Greens)
        /\ Times(k, drops) = One(Head(drops) = k) + Times(k, Tail(drops))
    BY <1>4, TimesHeadTail DEF GreenInv, Stored, Drops
  <2>2. PICK g \in Greens : g = Head(drops)
    BY <2>1
  <2>3. Times(k, Tail(drops)) \in Nat
    BY <2>1, TimesType
  <2>4. CASE g = k
    <3>1. One(Head(drops) = k) = 1
      BY <2>2, <2>4 DEF One
    <3>2. heap[g].cnt # 1
      BY <1>1, <2>1, <2>3, <2>4, <3>1
    <3>3. heap' = [heap EXCEPT ![g].cnt = @ - 1]
      BY <1>4, <2>2, <3>2 DEF Drops, DropGreen
    <3> QED BY <3>3, <2>4 DEF SameNode, GreenInv, Stored, HeapType, Free
  <2>5. CASE g # k
    <3>1. heap'[k] = heap[k]
      BY <1>4, <2>2, <2>5 DEF Drops, DropGreen
    <3> QED BY <3>1 DEF SameNode
  <2> QED BY <2>4, <2>5
<1> QED BY <1>2, <1>3, <1>4, HeapSteps DEF HeapStep

-----------------------------------------------------------------------------
(***************************************************************************)
(* Green nodes are built on nodes that exist: some node of any set of them *)
(* is below no other one.                                                  *)
(***************************************************************************)
Rooted(h) ==
  \A S \in SUBSET Greens : S # {} => \E k \in S : \A p \in S : ~ HasKid(h, p, k)

(* The walk up to the root is the one owner of the node just built. *)
LEMMA BuiltIsTop ==
  ASSUME GreenInv', NEW a \in Greens, spine'.green = a, heap'[a].cnt = 1
  PROVE  \A p \in Greens : ~ HasKid(heap', p, a)
<1>1. Excess(heap', a) >= 1
  <2>1. /\ Cardinality(Roots(red', a)) \in Nat /\ One(kept' = a) \in Nat
        /\ Times(a, drops') \in Nat
        /\ Excess(heap', a) = Cardinality(Roots(red', a)) + One(kept' = a)
                              + One(spine'.green = a) + Times(a, drops')
    <3>1. drops' \in Seq(Greens)
      BY DEF GreenInv, Stored
    <3>2. Cardinality(Roots(red', a)) \in Nat /\ One(kept' = a) \in Nat /\ Times(a, drops') \in Nat
      BY <3>1, RootsType, OneType, TimesType
    <3>3. Excess(heap', a) = Outside(a)'
      BY DEF GreenInv, Owned
    <3> QED BY <3>2, <3>3 DEF Outside
  <2>2. One(spine'.green = a) = 1
    BY DEF One
  <2> QED BY <2>1, <2>2
<1> SUFFICES ASSUME NEW p \in Greens PROVE ~ HasKid(heap', p, a)
  OBVIOUS
<1>2. HeapType(heap') /\ Excess(heap', a) \in Int
  BY ExcessType DEF GreenInv, Stored
<1>3. Cardinality(SlotsOf(heap', a)) = 0
  BY <1>1, <1>2, ExcessType
<1> QED BY <1>2, <1>3, SlotsPositive DEF HasKid

LEMMA StaysRooted ==
  ASSUME TreeInv', GreenInv', TreeInv, GreenInv, [Next]_vars, Rooted(heap)
  PROVE  Rooted(heap')
<1>1. CASE Counts
  <2>1. \A p \in Greens, k \in Greens : HasKid(heap', p, k) => HasKid(heap, p, k)
    BY <1>1 DEF Counts, SameNode, HasKid
  <2> QED BY <2>1 DEF Rooted
<1>2. CASE Drops
  <2>1. ASSUME NEW k \in Greens PROVE heap'[k].kids = heap[k].kids \/ heap'[k].kids = <<>>
    <3>1. PICK g : g = Head(drops)
      OBVIOUS
    <3>2. heap' = [heap EXCEPT ![g] = Free] \/ heap' = [heap EXCEPT ![g].cnt = @ - 1]
      BY <1>2, <3>1 DEF Drops, DropGreen
    <3>3. DOMAIN heap = Greens /\ DOMAIN heap[k] = DOMAIN Free
      BY DEF GreenInv, Stored, HeapType
    <3>4. CASE k = g
      <4>1. heap' = [heap EXCEPT ![g] = Free] => heap'[k].kids = <<>>
        BY <3>3, <3>4 DEF Free
      <4>2. heap' = [heap EXCEPT ![g].cnt = @ - 1] => heap'[k].kids = heap[k].kids
        BY <3>3, <3>4 DEF Free
      <4> QED BY <3>2, <4>1, <4>2
    <3>5. CASE k # g
      <4>1. heap'[k] = heap[k]
        BY <3>2, <3>3, <3>5
      <4> QED BY <4>1
    <3> QED BY <3>4, <3>5
  <2>2. \A p \in Greens, k \in Greens : HasKid(heap', p, k) => HasKid(heap, p, k)
    BY <2>1 DEF HasKid
  <2> QED BY <2>2 DEF Rooted
<1>3. CASE Builds
  <2>1. PICK a \in Greens : /\ spine'.green = a /\ heap'[a].cnt = 1
                            /\ \A k \in Greens \ {a} : SameNode(heap', k)
    BY <1>3 DEF Builds, Made, FreeGreens
  <2>3. \A p \in Greens : ~ HasKid(heap', p, a)
    BY <2>1, BuiltIsTop
  <2>4. \A p \in Greens \ {a} : \A k : HasKid(heap', p, k) <=> HasKid(heap, p, k)
    BY <2>1 DEF SameNode, HasKid
  <2> SUFFICES ASSUME NEW S \in SUBSET Greens, S # {}
               PROVE  \E k \in S : \A p \in S : ~ HasKid(heap', p, k)
    BY DEF Rooted
  <2>5. CASE a \in S
    BY <2>3, <2>5
  <2>6. CASE a \notin S
    <3>1. PICK k \in S : \A p \in S : ~ HasKid(heap, p, k)
      BY DEF Rooted
    <3> QED BY <2>4, <2>6, <3>1
  <2> QED BY <2>5, <2>6
<1> QED BY <1>1, <1>2, <1>3, HeapSteps DEF HeapStep

-----------------------------------------------------------------------------
(***************************************************************************)
(* A red whose last reference goes is the one free starts with; what free  *)
(* leaves is blank.                                                        *)
(***************************************************************************)
Swept == \A n \in Reds : red[n].rc = 0 /\ n # dying => red[n] = FreeRed

Covers(q) ==
  \A n \in Reds : /\ red[n].rc > 0 => q[n].rc > 0
                  /\ red[n] = FreeRed => q[n] = FreeRed \/ q[n].rc > 0

Sweeps ==
  \A n \in Reds : /\ red[n].rc > 0 => red'[n].rc > 0 \/ dying' = n
                  /\ red[n] = FreeRed => red'[n] = FreeRed \/ red'[n].rc > 0
                  /\ n = dying => dying' = n \/ red'[n] = FreeRed

LEMMA StaysSwept ==
  ASSUME RefType, Swept, Sweeps
  PROVE  Swept'
<1> SUFFICES ASSUME NEW n \in Reds, red'[n].rc = 0, n # dying'
             PROVE  red'[n] = FreeRed
  BY DEF Swept
<1>1. red[n].rc \in Nat /\ ~ (red[n].rc > 0)
  BY DEF Sweeps, RefType
<1>2. red[n].rc = 0
  BY <1>1
<1> QED BY <1>2 DEF Swept, Sweeps

LEMMA CoversSweeps ==
  ASSUME Covers(red'), dying' = dying
  PROVE  Sweeps
BY DEF Covers, Sweeps

LEMMA ReleaseSweeps ==
  ASSUME NEW r, NEW n \in Reds, Release(r, n), DOMAIN r = Reds,
         \A m \in Reds : DOMAIN r[m] = DOMAIN FreeRed /\ r[m].rc \in Nat,
         Covers(r), r[n].rc > 0, red[n] # FreeRed,
         dying = NULL \/ r[dying] = FreeRed
  PROVE  Sweeps /\ \A m \in Reds : red'[m].offset = r[m].offset
<1>1. red' = [r EXCEPT ![n].rc = r[n].rc - 1]
  BY DEF Release
<1>2. red'[n].rc = r[n].rc - 1 /\ \A m \in Reds \ {n} : red'[m] = r[m]
  BY <1>1 DEF FreeRed
<1>3. \A m \in Reds : red'[m].offset = r[m].offset
  BY <1>1 DEF FreeRed
<1>4. red'[n].rc > 0 \/ dying' = n
  <2>1. r[n].rc \in Nat /\ (r[n].rc = 1 => dying' = n)
    BY DEF Release
  <2> QED BY <1>2, <2>1
<1>5. \A m \in Reds : m = dying => dying' = m \/ red'[m] = FreeRed
  <2>1. r[n] # FreeRed
    BY DEF FreeRed
  <2> QED BY <1>2, <2>1, RedsAssumption
<1>6. \A m \in Reds \ {n} : /\ red[m].rc > 0 => red'[m].rc > 0
                            /\ red[m] = FreeRed => red'[m] = FreeRed \/ red'[m].rc > 0
  BY <1>2 DEF Covers
<1> QED BY <1>3, <1>4, <1>5, <1>6 DEF Sweeps

LEMMA DropSweeps ==
  ASSUME RefType, NEW n \in Reds, red[n].rc > 0, Release(red, n), dying = NULL
  PROVE  Sweeps /\ \A m \in Reds : red'[m].offset = red[m].offset
<1>1. red[n] # FreeRed
  BY LiveIsTaken
<1>2. Covers(red) /\ DOMAIN red = Reds
      /\ \A m \in Reds : DOMAIN red[m] = DOMAIN FreeRed /\ red[m].rc \in Nat
  BY DEF Covers, RefType
<1> QED BY <1>1, <1>2, ReleaseSweeps

LEMMA ReferSweeps ==
  ASSUME RefType, NEW n \in Reds, red[n].rc > 0, NEW h, Refer(n, h)
  PROVE  Sweeps /\ \A m \in Reds : red'[m].offset = red[m].offset
<1>1. red' = [red EXCEPT ![n].rc = red[n].rc + 1] /\ dying' = dying
  BY DEF Refer
<1>2. red'[n].rc = red[n].rc + 1 /\ \A m \in Reds \ {n} : red'[m] = red[m]
  BY <1>1 DEF RefType, FreeRed
<1>3. \A m \in Reds : red'[m].offset = red[m].offset
  BY <1>1 DEF RefType, FreeRed
<1>4. red[n].rc \in Nat
  BY DEF RefType
<1>5. Covers(red')
  <2>1. red'[n].rc > 0
    BY <1>2, <1>4
  <2> QED BY <1>2, <2>1 DEF Covers
<1> QED BY <1>1, <1>3, <1>5, CoversSweeps

(***************************************************************************)
(* NodeData::new below a parent: what the child and the others are like.   *)
(***************************************************************************)
LEMMA WithChildCovers ==
  ASSUME Forested, NEW p \in Reds, red[p].rc > 0, NEW i, NEW c \in Reds, IsChild(p, i, c),
         NEW q, q = WithChild(p, i, c)
  PROVE  /\ Covers(q) /\ DOMAIN q = Reds
         /\ \A m \in Reds : DOMAIN q[m] = DOMAIN FreeRed /\ q[m].rc \in Nat
         /\ \A m \in Reds : red[m].rc > 0 => q[m].rc >= red[m].rc
         /\ \A m \in Reds : q[m].offset = red[m].offset \/ m = c
         /\ \/ q[c].offset = red[c].offset /\ red[c] # FreeRed
            \/ /\ red[c] = FreeRed
               /\ ~ red[p].mutable => q[c].offset = ChildOffset(p, i)
<1>1. red[p] # FreeRed /\ red[p].rc \in Nat
  BY LiveIsTaken DEF Forested, RefType
<1>2. /\ DOMAIN q = Reds /\ \A m \in Reds : DOMAIN q[m] = DOMAIN FreeRed
  BY WithChildFields
<1>3. CASE c \in Linked(p, i)
  <2>1. q = [red EXCEPT ![c].rc = red[c].rc + 1]
    BY <1>3 DEF WithChild
  <2>2. red[c].parent = p
    BY <1>3, ListsAre DEF Forested, Linked
  <2>3. red[c] # FreeRed
    BY <2>2, RedsAssumption DEF FreeRed
  <2>4. /\ \A m \in Reds \ {c} : q[m] = red[m]
        /\ q[c].rc = red[c].rc + 1
        /\ \A m \in Reds : q[m].offset = red[m].offset
    BY <2>1 DEF Forested, RefType, FreeRed
  <2>5. \A m \in Reds : red[m].rc \in Nat
    BY DEF Forested, RefType
  <2>6. \A m \in Reds : q[m].rc \in Nat /\ q[m].rc >= red[m].rc
    BY <2>4, <2>5
  <2>7. Covers(q)
    BY <2>3, <2>4, <2>5, <2>6 DEF Covers
  <2> QED BY <1>2, <2>3, <2>4, <2>6, <2>7
<1>4. CASE c \notin Linked(p, i)
  <2> DEFINE first == IF red[p].mutable THEN red[p].first \cup {c} ELSE red[p].first
             data == ChildData(p, i)
  <2>1. red[c] = FreeRed /\ c # p
    <3>1. red[c] = FreeRed
      BY <1>4 DEF IsChild, NextRed, Lowest, FreshReds
    <3> QED BY <1>1, <3>1
  <2>2. /\ data.rc = 1
        /\ ~ red[p].mutable => data.offset = ChildOffset(p, i)
    BY DEF ChildData, FreeRed
  <2>3. q = [red EXCEPT ![c] = data, ![p].rc = @ + 1, ![p].first = first]
    BY <1>4, <2>1 DEF WithChild, Forested, RefType, FreeRed
  <2> HIDE DEF first, data
  <2>4. /\ q[c] = data /\ \A m \in Reds \ {c, p} : q[m] = red[m]
        /\ q[p].rc = red[p].rc + 1 /\ q[p].offset = red[p].offset
    BY <2>1, <2>3 DEF Forested, RefType, FreeRed
  <2>5. \A m \in Reds : red[m].rc \in Nat
    BY DEF Forested, RefType
  <2>6. red[c].rc = 0
    BY <2>1 DEF FreeRed
  <2>7. \A m \in Reds : q[m].rc \in Nat /\ q[m].rc >= red[m].rc
    BY <2>2, <2>4, <2>5, <2>6
  <2>8. Covers(q)
    <3>1. q[p].rc > 0 /\ q[c].rc > 0
      BY <1>1, <2>2, <2>4
    <3> QED BY <2>4, <3>1 DEF Covers
  <2> QED BY <1>2, <2>1, <2>2, <2>4, <2>7, <2>8
<1> QED BY <1>3, <1>4

-----------------------------------------------------------------------------
(***************************************************************************)
(* What a step does to the immutable reds: they stand still, or are placed *)
(* where no other red relies on them yet.                                  *)
(***************************************************************************)
Placed(n) ==
  red[n].offset =
    IF red[n].parent = NULL THEN 0
    ELSE red[red[n].parent].offset + RelOffset(heap, red[red[n].parent].green, red[n].index)

Stands(n) ==
  /\ red[n] # FreeRed /\ ~ red[n].mutable
  /\ red'[n].parent = red[n].parent /\ red'[n].index = red[n].index
  /\ red'[n].green = red[n].green /\ red'[n].offset = red[n].offset

(* No red is made while the one a panic broke is left. *)
Lands(n) == stolen = NULL /\ Childless(n) /\ Placed(n)'

Offsets ==
  \A n \in Reds :
    red'[n] # FreeRed /\ ~ red'[n].mutable => Stands(n) \/ Lands(n)

LEMMA KeptStands ==
  ASSUME NEW n \in Reds, Keeps(red', n), red'[n].offset = red[n].offset,
         red'[n] # FreeRed, ~ red'[n].mutable
  PROVE  Stands(n)
BY DEF Keeps, Stands

LEMMA QuietOffsets ==
  ASSUME Quiet(red'), \A n \in Reds : red'[n].offset = red[n].offset
  PROVE  Offsets
<1>1. ASSUME NEW n \in Reds, red'[n] # FreeRed, ~ red'[n].mutable PROVE Stands(n)
  BY <1>1, KeptStands DEF Quiet
<1> QED BY <1>1 DEF Offsets

LEMMA SameReds ==
  ASSUME red' = red, dying' = dying
  PROVE  Sweeps /\ Offsets
<1>1. Covers(red')
  BY DEF Covers
<1>2. Quiet(red')
  BY DEF Quiet, Keeps
<1> QED BY <1>1, <1>2, CoversSweeps, QuietOffsets

LEMMA RootSettles ==
  ASSUME Forested, NEW c \in NextRed, NEW g, NEW mut, stolen = NULL, dying' = dying,
         red' = [red EXCEPT ![c] = [FreeRed EXCEPT !.rc = 1, !.green = g, !.mutable = mut]]
  PROVE  Sweeps /\ Offsets
<1>0. PICK data : data = [FreeRed EXCEPT !.rc = 1, !.green = g, !.mutable = mut]
  OBVIOUS
<1>1. data.rc = 1 /\ data.offset = 0 /\ data.parent = NULL
  BY <1>0 DEF FreeRed
<1>2. red' = [red EXCEPT ![c] = data]
  BY <1>0
<1>3. /\ Covers(red') /\ c \in Reds /\ red'[c] = data /\ red[c] = FreeRed
      /\ \A m \in Reds \ {c} : red'[m] = red[m]
  <2>1. c \in Reds /\ red[c] = FreeRed
    BY DEF NextRed, Lowest, FreshReds
  <2>2. red'[c] = data /\ \A m \in Reds \ {c} : red'[m] = red[m]
    BY <1>2, <2>1 DEF Forested, RefType
  <2>3. red[c].rc = 0
    BY <2>1 DEF FreeRed
  <2> QED BY <1>1, <2>1, <2>2, <2>3 DEF Covers
<1>4. Childless(c) /\ Placed(c)'
  BY <1>1, <1>3, FreeIsChildless DEF Forested, Placed
<1>5. \A m \in Reds \ {c} : red'[m] # FreeRed /\ ~ red'[m].mutable => Stands(m)
  BY <1>3 DEF Stands
<1>6. Offsets
  BY <1>4, <1>5 DEF Offsets, Lands
<1>7. Sweeps
  BY <1>3, CoversSweeps
<1> QED BY <1>6, <1>7

LEMMA ChildSettles ==
  ASSUME Forested, NEW p \in Reds, red[p].rc > 0, NEW i, NEW c \in Reds, IsChild(p, i, c),
         NEW q, q = WithChild(p, i, c), Alike(red', q),
         \A m \in Reds : red'[m].offset = q[m].offset, heap' = heap, stolen = NULL
  PROVE  Offsets
<1>1. /\ \A m \in Reds : q[m].offset = red[m].offset \/ m = c
      /\ \/ q[c].offset = red[c].offset /\ red[c] # FreeRed
         \/ /\ red[c] = FreeRed
            /\ ~ red[p].mutable => q[c].offset = ChildOffset(p, i)
  BY WithChildCovers
<1>2. Quiet(red') \/ MakesChild(red', c, p, i, Kid(heap, red[p].green, i))
  BY ChildMade
<1>3. ASSUME NEW m \in Reds, m # c, m # p, red'[m] # FreeRed, ~ red'[m].mutable
      PROVE  Stands(m)
  <2>1. Keeps(red', m) /\ red'[m].offset = red[m].offset
    BY <1>1, <1>2, <1>3 DEF Quiet, MakesChild
  <2> QED BY <1>3, <2>1, KeptStands
<1>4. CASE Quiet(red')
  <2>1. ASSUME NEW m \in Reds, red'[m] # FreeRed, ~ red'[m].mutable PROVE Stands(m)
    <3>1. Keeps(red', m)
      BY <1>4 DEF Quiet
    <3>2. red[m] # FreeRed
      BY <2>1, <3>1 DEF Keeps
    <3>3. red'[m].offset = red[m].offset
      <4>1. m = c => q[m].offset = red[m].offset
        BY <1>1, <3>2
      <4> QED BY <1>1, <4>1
    <3> QED BY <2>1, <3>1, <3>3, KeptStands
  <2> QED BY <2>1 DEF Offsets
<1>5. CASE MakesChild(red', c, p, i, Kid(heap, red[p].green, i))
  <2>1. /\ red[c] = FreeRed /\ p # c /\ red[p] # FreeRed
        /\ red'[c].parent = p /\ red'[c].index = i /\ red'[c].mutable = red[p].mutable
        /\ red'[p].parent = red[p].parent /\ red'[p].index = red[p].index
        /\ red'[p].green = red[p].green /\ red'[p].mutable = red[p].mutable
    BY <1>5 DEF MakesChild
  <2>2. red'[p].offset = red[p].offset
    BY <1>1, <2>1
  <2>3. ~ red'[p].mutable => Stands(p)
    BY <2>1, <2>2 DEF Stands
  <2>4. ~ red'[c].mutable => Childless(c) /\ Placed(c)'
    <3> SUFFICES ASSUME ~ red[p].mutable PROVE Childless(c) /\ Placed(c)'
      BY <2>1
    <3>1. Childless(c)
      BY <2>1, FreeIsChildless DEF Forested
    <3>2. red'[c].offset = red[p].offset + RelOffset(heap, red[p].green, i)
      BY <1>1, <2>1 DEF ChildOffset
    <3>3. red'[c].parent # NULL
      BY <2>1, RedsAssumption
    <3> QED BY <2>1, <2>2, <3>1, <3>2, <3>3 DEF Placed
  <2> QED BY <1>3, <2>3, <2>4 DEF Offsets, Lands
<1> QED BY <1>2, <1>4, <1>5

LEMMA NewChildSettles ==
  ASSUME Forested, NEW p \in Reds, red[p].rc > 0, NEW i, NEW h, NewChild(p, i, h),
         stolen = NULL
  PROVE  Sweeps /\ Offsets
<1>1. PICK c \in Reds : IsChild(p, i, c) /\ red' = WithChild(p, i, c)
  BY DEF NewChild
<1>2. heap' = heap /\ dying' = dying
  BY DEF NewChild
<1>3. Covers(red')
  BY <1>1, WithChildCovers
<1>4. Alike(red', WithChild(p, i, c))
  BY <1>1 DEF Alike
<1>5. Offsets
  BY <1>1, <1>2, <1>4, ChildSettles
<1> QED BY <1>2, <1>3, <1>5, CoversSweeps

LEMMA ReferSettles ==
  ASSUME Forested, NEW n \in Reds, red[n].rc > 0, NEW h, Refer(n, h)
  PROVE  Sweeps /\ Offsets
<1>1. Sweeps /\ \A m \in Reds : red'[m].offset = red[m].offset
  BY ReferSweeps DEF Forested
<1>2. Quiet(red')
  BY ReferQuiet DEF Forested
<1> QED BY <1>1, <1>2, QuietOffsets

LEMMA DropSettles ==
  ASSUME Forested, NEW n \in Reds, red[n].rc > 0, Release(red, n), dying = NULL
  PROVE  Sweeps /\ Offsets
<1>1. Sweeps /\ \A m \in Reds : red'[m].offset = red[m].offset
  BY DropSweeps DEF Forested
<1>2. Quiet(red')
  BY ReleaseQuiet DEF Forested
<1> QED BY <1>1, <1>2, QuietOffsets

LEMMA StepSharedSettles ==
  ASSUME TreeInv, NEW h \in Handles, NEW K, StepShared(h, K)
  PROVE  Sweeps /\ Offsets
<1> USE TreeIsForested
<1> DEFINE n == handle[h]
           p == red[n].parent
<1>1. n \in Reds /\ n # NULL
  BY DEF StepShared, Steps, Forested, RefType, RedOrNull
<1>2. PICK i \in After(n, K), c \in Reds : IsChild(p, i, c) /\ Release(WithChild(p, i, c), n)
  BY DEF StepShared, Lowest
<1>3. p # NULL
  BY <1>2 DEF After
<1>4. p \in Reds /\ red[p].rc > 0 /\ red[n].rc > 0
  BY <1>1, <1>3, Referenced DEF Forested, RefType, RedOrNull
<1>5. red[n] # FreeRed
  BY <1>4, LiveIsTaken
<1>6. dying = NULL /\ heap' = heap /\ stolen = NULL
  BY DEF StepShared, User, Idle
<1> HIDE DEF n, p
<1>7. PICK q : q = WithChild(p, i, c)
  OBVIOUS
<1>8. /\ Covers(q) /\ DOMAIN q = Reds
      /\ \A m \in Reds : DOMAIN q[m] = DOMAIN FreeRed /\ q[m].rc \in Nat
      /\ \A m \in Reds : red[m].rc > 0 => q[m].rc >= red[m].rc
  BY <1>2, <1>4, <1>7, WithChildCovers
<1>9. q[n].rc > 0
  BY <1>1, <1>4, <1>8 DEF Covers
<1>10. Release(q, n)
  BY <1>2, <1>7
<1>11. Sweeps /\ \A m \in Reds : red'[m].offset = q[m].offset
  BY <1>1, <1>5, <1>6, <1>8, <1>9, <1>10, ReleaseSweeps
<1>12. Alike(red', q)
  BY <1>1, <1>5, <1>8, <1>10, ReleaseAlike
<1>13. Offsets
  BY <1>2, <1>4, <1>6, <1>7, <1>11, <1>12, ChildSettles
<1> QED BY <1>11, <1>13

LEMMA StepInPlaceSettles ==
  ASSUME TreeInv, NEW h \in Handles, NEW K, StepInPlace(h, K)
  PROVE  Sweeps /\ Offsets
<1>0. PICK n, p : n = handle[h] /\ p = red[n].parent
  OBVIOUS
<1>1. n \in Reds /\ red[n].rc = 1 /\ ~ red[n].mutable
  BY <1>0, TreeIsForested DEF StepInPlace, Steps, CanTakePtr, Forested, RefType, RedOrNull
<1>2. PICK i \in After(n, K) :
        red' = [red EXCEPT ![n].index = i, ![n].offset = ChildOffset(p, i),
                           ![n].green = Kid(heap, red[p].green, i)]
  BY <1>0 DEF StepInPlace, Lowest
<1>3. Idle /\ heap' = heap /\ dying' = dying /\ stolen = NULL
  BY DEF StepInPlace, User
<1>4. Childless(n)
  BY <1>0, <1>1, SoleHandle, TreeIsForested DEF Childless, ChildrenOf
<1>5. p # NULL /\ p # n
  BY <1>0, <1>1, <1>2, <1>4 DEF After, Childless
<1>6. p \in Reds
  BY <1>0, <1>1, <1>5, TreeIsForested DEF Forested, RefType, RedOrNull
<1>7. /\ red'[n].parent = red[n].parent /\ red'[n].index = i /\ red'[n].rc = red[n].rc
      /\ red'[n].offset = ChildOffset(p, i)
      /\ \A m \in Reds \ {n} : red'[m] = red[m]
  BY <1>1, <1>2, TreeIsForested DEF Forested, RefType, FreeRed
<1>8. red'[n].rc > 0
  BY <1>1, <1>7
<1>9. Covers(red')
  BY <1>7, <1>8 DEF Covers
<1>10. Placed(n)'
  <2>1. red'[n].parent = p /\ red'[p] = red[p]
    BY <1>0, <1>5, <1>6, <1>7
  <2>2. red'[n].offset = red[p].offset + RelOffset(heap, red[p].green, i)
    BY <1>7 DEF ChildOffset
  <2> QED BY <1>3, <1>5, <1>7, <2>1, <2>2 DEF Placed
<1>11. \A m \in Reds \ {n} : red'[m] # FreeRed /\ ~ red'[m].mutable => Stands(m)
  BY <1>7 DEF Stands
<1>12. Offsets
  BY <1>3, <1>4, <1>10, <1>11 DEF Offsets, Lands
<1>13. Sweeps
  BY <1>3, <1>9, CoversSweeps
<1> QED BY <1>12, <1>13

-----------------------------------------------------------------------------
(* The steps that move mutable reds only. *)
LEMMA MutableSettles ==
  ASSUME RefType, dying' = dying,
         \A m \in Reds : /\ red'[m].rc >= red[m].rc
                         /\ red[m] = FreeRed => red'[m] = FreeRed
                         /\ red'[m].mutable = red[m].mutable
                         /\ ~ red[m].mutable => Keeps(red', m) /\ red'[m].offset = red[m].offset,
         \A m \in Reds : red'[m].rc \in Nat
  PROVE  Sweeps /\ Offsets
<1>1. \A m \in Reds : red[m].rc \in Nat
  BY DEF RefType
<1>2. Covers(red')
  BY <1>1 DEF Covers
<1>3. ASSUME NEW m \in Reds, red'[m] # FreeRed, ~ red'[m].mutable PROVE Stands(m)
  BY <1>3, KeptStands
<1>4. Offsets
  BY <1>3 DEF Offsets
<1>5. Sweeps
  BY <1>2, CoversSweeps
<1> QED BY <1>4, <1>5

LEMMA AdjustKeeps ==
  ASSUME RefType, NEW S, NEW from, NEW by, NEW s, s = Adjust(red, S, from, by)
  PROVE  /\ DOMAIN s = Reds
         /\ \A m \in Reds : /\ DOMAIN s[m] = DOMAIN FreeRed
                            /\ s[m].rc = red[m].rc /\ s[m].offset = red[m].offset
BY DEF Adjust, RefType, FreeRed

LEMMA DetachSettles ==
  ASSUME TreeInv, NEW n \in Reds, red[n].parent # NULL, red[n].mutable, DetachData(n),
         dying' = dying
  PROVE  Sweeps /\ Offsets
<1> DEFINE p == red[n].parent
<1>1. PICK s : s = Adjust(red, red[p].first, red[n].index + 1, -1)
  OBVIOUS
<1>2. /\ DOMAIN s = Reds
      /\ \A m \in Reds : /\ DOMAIN s[m] = DOMAIN FreeRed
                         /\ s[m].rc = red[m].rc /\ s[m].offset = red[m].offset
  BY <1>1, AdjustKeeps, TreeIsForested DEF Forested
<1>3. red' = [Unlink(s, p, n) EXCEPT ![n].parent = NULL]
  BY <1>1 DEF DetachData
<1>4. p \in Reds
  BY TreeIsForested DEF Forested, RefType, RedOrNull
<1> HIDE DEF p
<1>5. PICK u : u = Unlink(s, p, n)
  OBVIOUS
<1>6. /\ DOMAIN u = Reds
      /\ \A m \in Reds : /\ DOMAIN u[m] = DOMAIN FreeRed
                         /\ u[m].rc = red[m].rc /\ u[m].offset = red[m].offset
  BY <1>2, <1>4, <1>5 DEF Unlink, FreeRed
<1>7. red' = [u EXCEPT ![n].parent = NULL]
  BY <1>3, <1>5
<1>8. \A m \in Reds : red'[m].rc = red[m].rc /\ red'[m].offset = red[m].offset
  BY <1>6, <1>7 DEF FreeRed
<1>9. Detaches(red', n)
  BY DetachDetaches, TreeIsForested
<1>10. ASSUME NEW m \in Reds
       PROVE  /\ red[m] = FreeRed => red'[m] = FreeRed
              /\ red'[m].mutable = red[m].mutable
              /\ ~ red[m].mutable => Keeps(red', m)
  <2>1. /\ red'[m].parent = IF m = n THEN NULL ELSE red[m].parent
        /\ red'[m].index = IF m \in red[p].first /\ red[m].index > red[n].index
                           THEN red[m].index - 1 ELSE red[m].index
        /\ red'[m].green = red[m].green /\ red'[m].mutable = red[m].mutable
        /\ red'[m].first = IF m = p THEN red[m].first \ {n} ELSE red[m].first
        /\ red[m] = FreeRed => red'[m] = FreeRed
    BY <1>9 DEF Detaches, p
  <2>2. ASSUME ~ red[m].mutable PROVE m # n /\ m # p /\ m \notin red[p].first
    <3>1. m # n
      BY <2>2
    <3>2. red[p].mutable
      BY TreeIsForested DEF Forested, Uniform, p
    <3>3. m \in red[p].first => red[m].parent = p
      BY <1>4, ListsAre, TreeIsForested DEF Forested
    <3>4. red[m].parent = p => red[m].mutable
      BY <1>4, <3>2, TreeIsForested, RedsAssumption DEF Forested, Uniform
    <3> QED BY <2>2, <3>1, <3>2, <3>3, <3>4
  <2> QED BY <2>1, <2>2 DEF Keeps
<1>11. \A m \in Reds : red[m].rc \in Nat
  BY TreeIsForested DEF Forested, RefType
<1>12. \A m \in Reds : red'[m].rc \in Nat /\ red'[m].rc >= red[m].rc
  BY <1>8, <1>11
<1> QED BY <1>8, <1>10, <1>12, MutableSettles, TreeIsForested DEF Forested

LEMMA LinkSettles ==
  ASSUME TreeInv, GreenInv, todo.stage = "link", LinkData, dying' = dying
  PROVE  Sweeps /\ Offsets
<1> DEFINE n == todo.node
           c == todo.child
<1>1. /\ n \in Reds /\ c \in Reds /\ n # c /\ red[n].mutable /\ red[c].mutable
      /\ red[c].parent = NULL
  BY LinkEnds
<1>2. PICK s : s = Adjust(red, red[n].first, todo.index, 1)
  OBVIOUS
<1>3. /\ DOMAIN s = Reds
      /\ \A m \in Reds : /\ DOMAIN s[m] = DOMAIN FreeRed
                         /\ s[m].rc = red[m].rc /\ s[m].offset = red[m].offset
  BY <1>2, AdjustKeeps, TreeIsForested DEF Forested
<1>4. red' = [s EXCEPT ![c].index = todo.index, ![c].parent = n,
                       ![n].rc = @ + 1, ![n].first = @ \cup {c}]
  BY <1>2 DEF LinkData
<1>5. Links(red', n, c, todo.index)
  BY <1>1, LinkLinks, TreeIsForested DEF TreeInv, MutInv
<1> HIDE DEF n, c
<1>6. /\ \A m \in Reds : red'[m].offset = red[m].offset
      /\ \A m \in Reds : red'[m].rc = IF m = n THEN red[m].rc + 1 ELSE red[m].rc
  BY <1>1, <1>3, <1>4 DEF FreeRed
<1>7. \A m \in Reds : red[m].rc \in Nat
  BY TreeIsForested DEF Forested, RefType
<1>8. \A m \in Reds : red'[m].rc \in Nat /\ red'[m].rc >= red[m].rc
  BY <1>6, <1>7
<1>9. ASSUME NEW m \in Reds
      PROVE  /\ red[m] = FreeRed => red'[m] = FreeRed
             /\ red'[m].mutable = red[m].mutable
             /\ ~ red[m].mutable => Keeps(red', m)
  <2>1. /\ red'[m].parent = IF m = c THEN n ELSE red[m].parent
        /\ red'[m].index = IF m = c THEN todo.index
                           ELSE IF m \in red[n].first /\ red[m].index >= todo.index
                                THEN red[m].index + 1 ELSE red[m].index
        /\ red'[m].green = red[m].green /\ red'[m].mutable = red[m].mutable
        /\ red'[m].first = IF m = n THEN red[m].first \cup {c} ELSE red[m].first
        /\ red[m] = FreeRed => red'[m] = FreeRed
    BY <1>5 DEF Links
  <2>2. ASSUME ~ red[m].mutable PROVE m # c /\ m # n /\ m \notin red[n].first
    <3>1. m \in red[n].first => red[m].parent = n
      BY <1>1, ListsAre, TreeIsForested DEF Forested
    <3>2. red[m].parent = n => red[m].mutable
      BY <1>1, TreeIsForested, RedsAssumption DEF Forested, Uniform
    <3> QED BY <1>1, <2>2, <3>1, <3>2
  <2> QED BY <2>1, <2>2 DEF Keeps
<1> QED BY <1>6, <1>8, <1>9, MutableSettles, TreeIsForested DEF Forested

-----------------------------------------------------------------------------
(* The steps of the loops. *)
LEMMA CloneStepSettles ==
  ASSUME TreeInv, CloneStep
  PROVE  Sweeps /\ Offsets
<1>0. PICK c : c = todo.child
  OBVIOUS
<1>1. PICK a : \E n \in NextRed :
        red' = [red EXCEPT ![n] = [ChildData(c, red[a].index) EXCEPT !.green = red[a].green],
                           ![c].first = @ \cup {n}]
  BY <1>0 DEF CloneStep
<1>2. PICK n \in NextRed :
        red' = [red EXCEPT ![n] = [ChildData(c, red[a].index) EXCEPT !.green = red[a].green],
                           ![c].first = @ \cup {n}]
  BY <1>1
<1>3. /\ c \in Reds /\ red[c].mutable /\ red[c].rc \in Nat /\ Childless(c)
      /\ todo.stage = "clone" /\ dying' = dying
  BY <1>0, TreeIsForested DEF CloneStep, TreeInv, CloneSafe, Accounted, Forested, RefType
<1>4. n \in Reds /\ red[n] = FreeRed /\ n # c
  BY <1>3 DEF NextRed, Lowest, FreshReds, FreeRed
<1>5. PICK data : data = [ChildData(c, red[a].index) EXCEPT !.green = red[a].green]
  OBVIOUS
<1>6. data.rc = 1 /\ data.mutable
  BY <1>3, <1>5 DEF ChildData, FreeRed
<1>7. red' = [red EXCEPT ![n] = data, ![c].first = red[c].first \cup {n}]
  BY <1>2, <1>4, <1>5
<1>8. /\ red'[n] = data /\ \A m \in Reds \ {n, c} : red'[m] = red[m]
      /\ red'[c].rc = red[c].rc /\ red'[c].mutable
  BY <1>3, <1>4, <1>7, TreeIsForested DEF Forested, RefType, FreeRed
<1>9. red[n].rc = 0 /\ red[c] # FreeRed
  BY <1>3, <1>4 DEF FreeRed
<1>10. Covers(red')
  BY <1>6, <1>8, <1>9 DEF Covers
<1>11. \A m \in Reds : ~ red'[m].mutable => m # n /\ m # c
  BY <1>6, <1>8
<1>12. Offsets
  BY <1>8, <1>11 DEF Offsets, Stands
<1> QED BY <1>3, <1>10, <1>12, CoversSweeps

LEMMA RespineSettles ==
  ASSUME TreeInv, GreenInv, RespineStep
  PROVE  Sweeps /\ Offsets
<1>0. PICK n : n = spine.node
  OBVIOUS
<1>1. /\ n \in Reds /\ red[n].mutable /\ dying = NULL /\ stolen = NULL
  BY <1>0, TreeIsForested DEF RespineStep, GreenInv, Stages, RespineSafe, Forested, RefType, RedOrNull
<1>2. PICK q : q = [red EXCEPT ![n].green = spine.green]
  OBVIOUS
<1>3. /\ DOMAIN q = Reds
      /\ \A m \in Reds : /\ DOMAIN q[m] = DOMAIN FreeRed /\ q[m].rc = red[m].rc
                         /\ q[m].offset = red[m].offset
      /\ \A m \in Reds \ {n} : q[m] = red[m]
  BY <1>1, <1>2, TreeIsForested DEF Forested, RefType, FreeRed
<1>4. red[n] # FreeRed
  BY <1>1 DEF FreeRed
<1>5. Covers(q)
  BY <1>3, <1>4 DEF Covers
<1>6. \A m \in Reds : red[m].rc \in Nat /\ q[m].rc \in Nat
  BY <1>3, TreeIsForested DEF Forested, RefType
<1>7. ASSUME \A m \in Reds : red'[m].offset = q[m].offset
      PROVE  Offsets
  <2>1. Regreens(red', n, spine.green)
    BY <1>0, RespineRegreens, TreeIsForested DEF Forested
  <2>2. red'[n].mutable /\ \A m \in Reds \ {n} : Keeps(red', m)
    BY <1>1, <2>1 DEF Regreens
  <2>3. ASSUME NEW m \in Reds, red'[m] # FreeRed, ~ red'[m].mutable PROVE Stands(m)
    <3>1. m # n
      BY <2>2, <2>3
    <3>2. Keeps(red', m) /\ red'[m].offset = red[m].offset
      BY <1>3, <1>7, <2>2, <3>1
    <3> QED BY <2>3, <3>2, KeptStands
  <2> QED BY <2>3 DEF Offsets
<1>8. (red' = q /\ dying' = dying) \/ (spine.release # NULL /\ Release(q, spine.release))
  BY <1>0, <1>2 DEF RespineStep
<1>9. CASE red' = q /\ dying' = dying
  BY <1>5, <1>7, <1>9, CoversSweeps
<1>10. CASE spine.release # NULL /\ Release(q, spine.release)
  <2>1. PICK b : b = spine.release
    OBVIOUS
  <2>2. b \in Reds
    BY <1>10, <2>1, TreeIsForested DEF Forested, RefType, RedOrNull
  <2>3. red[b].rc > 0 /\ red[b] # FreeRed
    BY <2>1, <2>2, ReleasedHasGreen, LiveIsTaken
  <2>4. q[b].rc > 0
    BY <1>3, <2>2, <2>3
  <2>5. Sweeps /\ \A m \in Reds : red'[m].offset = q[m].offset
    BY <1>1, <1>3, <1>5, <1>6, <1>10, <2>1, <2>2, <2>3, <2>4, ReleaseSweeps
  <2> QED BY <1>7, <2>5
<1> QED BY <1>8, <1>9, <1>10

LEMMA FreeSettles ==
  ASSUME TreeInv, FreeStep
  PROVE  Sweeps /\ Offsets
<1>0. PICK n, p : n = dying /\ p = red[n].parent
  OBVIOUS
<1>1. n \in Reds /\ red[n].rc = 0
  BY <1>0, TreeIsForested DEF FreeStep, Accounted, Forested, RefType, RedOrNull
<1>2. ASSUME \A m \in Reds \ {n} : red'[m].offset = red[m].offset
      PROVE  Offsets
  <2>1. Frees(red', n)
    BY <1>0, FreeFrees, TreeIsForested
  <2>2. \A m \in Reds \ {n} : red'[m] # FreeRed /\ ~ red'[m].mutable => Stands(m)
    BY <1>2, <2>1 DEF Frees, Stands
  <2>3. red'[n] = FreeRed
    BY <2>1 DEF Frees
  <2> QED BY <2>2, <2>3 DEF Offsets
<1>3. CASE p = NULL
  <2>1. red' = [red EXCEPT ![n] = FreeRed]
    BY <1>0, <1>3 DEF FreeStep
  <2>2. red'[n] = FreeRed /\ \A m \in Reds \ {n} : red'[m] = red[m]
    BY <1>1, <2>1, TreeIsForested DEF Forested, RefType
  <2>3. Sweeps
    BY <1>0, <1>1, <2>2 DEF Sweeps
  <2> QED BY <1>2, <2>2, <2>3
<1>4. CASE p # NULL
  <2>1. p \in Reds /\ red[p].rc > 0
    BY <1>0, <1>1, <1>4, Referenced, TreeIsForested DEF Forested, RefType, RedOrNull
  <2>2. p # n /\ red[p] # FreeRed
    BY <1>1, <2>1 DEF FreeRed
  <2>3. PICK q : q = [Unlink(red, p, n) EXCEPT ![n] = FreeRed]
    OBVIOUS
  <2>4. Release(q, p)
    BY <1>0, <1>4, <2>3 DEF FreeStep
  <2>5. /\ DOMAIN q = Reds /\ \A m \in Reds : DOMAIN q[m] = DOMAIN FreeRed
        /\ q[n] = FreeRed /\ q[p].rc = red[p].rc /\ q[p].offset = red[p].offset
        /\ \A m \in Reds \ {n, p} : q[m] = red[m]
    BY <1>1, <2>1, <2>2, <2>3, TreeIsForested DEF Unlink, Forested, RefType, FreeRed
  <2>6. \A m \in Reds : q[m].rc \in Nat
    BY <2>5, TreeIsForested DEF Forested, RefType, FreeRed
  <2>7. Covers(q)
    BY <1>1, <2>2, <2>5 DEF Covers
  <2>8. Sweeps /\ \A m \in Reds : red'[m].offset = q[m].offset
    BY <1>0, <2>1, <2>2, <2>4, <2>5, <2>6, <2>7, ReleaseSweeps
  <2>9. \A m \in Reds \ {n} : red'[m].offset = red[m].offset
    BY <2>5, <2>8
  <2> QED BY <1>2, <2>8, <2>9
<1> QED BY <1>3, <1>4

-----------------------------------------------------------------------------
(* Every step. *)
LEMMA OperationSettles ==
  ASSUME TreeInv, GreenInv, Operation
  PROVE  Sweeps /\ Offsets
<1>1. ASSUME NEW g, NEW mut, NEW h, NewRootData(g, mut, h), stolen = NULL
      PROVE  Sweeps /\ Offsets
  <2>1. PICK c \in NextRed :
          red' = [red EXCEPT ![c] = [FreeRed EXCEPT !.rc = 1, !.green = g, !.mutable = mut]]
    BY <1>1 DEF NewRootData
  <2> QED BY <1>1, <2>1, RootSettles, TreeIsForested DEF NewRootData
<1>2. ASSUME NEW h \in Handles, NEW mut, NewRoot(h, mut) PROVE Sweeps /\ Offsets
  BY <1>1, <1>2 DEF NewRoot, User
<1>3. ASSUME NEW h \in Handles, NEW new, CloneSubtree(h, new) PROVE Sweeps /\ Offsets
  BY <1>1, <1>3 DEF CloneSubtree, User
<1>4. ASSUME NEW h \in Handles, CloneForUpdate(h) PROVE Sweeps /\ Offsets
  <2>1. PICK g : \E c \in NextRed :
          red' = [red EXCEPT ![c] = [FreeRed EXCEPT !.rc = 1, !.green = g, !.mutable = TRUE]]
    BY <1>4 DEF CloneForUpdate
  <2>2. dying' = dying /\ stolen = NULL
    BY <1>4 DEF CloneForUpdate, User
  <2> QED BY <2>1, <2>2, RootSettles, TreeIsForested
<1>5. ASSUME NEW h \in Handles, handle[h] # NULL
      PROVE  handle[h] \in Reds /\ red[handle[h]].rc > 0
  BY <1>5, Referenced, TreeIsForested DEF Forested, RefType, RedOrNull
<1>6. ASSUME NEW h \in Handles, Idle, handle[h] # NULL, Release(red, handle[h])
      PROVE  Sweeps /\ Offsets
  BY <1>5, <1>6, DropSettles, TreeIsForested DEF Idle
<1>7. ASSUME NEW h \in Handles, Drop(h) PROVE Sweeps /\ Offsets
  BY <1>6, <1>7 DEF Drop
<1>8. ASSUME NEW h \in Handles, NEW K, ToNextSibling(h, K) PROVE Sweeps /\ Offsets
  <2>1. CASE StepShared(h, K)
    BY <2>1, StepSharedSettles
  <2>2. CASE StepInPlace(h, K)
    BY <2>2, StepInPlaceSettles
  <2>3. CASE StepOffEnd(h, K)
    BY <1>6, <2>3 DEF StepOffEnd, User, Steps
  <2>4. CASE StepOffRoot(h, K)
    BY <2>4, SameReds DEF StepOffRoot
  <2> QED BY <1>8, <2>1, <2>2, <2>3, <2>4 DEF ToNextSibling
<1>9. ASSUME NEW h \in Handles, Detach(h) PROVE Sweeps /\ Offsets
  BY <1>5, <1>9, DetachSettles DEF Detach
<1>10. ASSUME NEW h \in Handles, NEW i, NEW c \in Handles, AttachChild(h, i, c)
       PROVE  Sweeps /\ Offsets
  <2>1. handle[c] \in Reds /\ red[handle[c]].mutable /\ dying' = dying
    BY <1>5, <1>10 DEF AttachChild
  <2>2. \/ red[handle[c]].parent # NULL /\ DetachData(handle[c])
        \/ red' = red
    BY <1>10 DEF AttachChild
  <2> QED BY <2>1, <2>2, DetachSettles, SameReds
<1>11. ASSUME NEW h \in Handles, NEW c \in Handles, ReplaceWith(h, c) PROVE Sweeps /\ Offsets
  BY <1>11, SameReds DEF ReplaceWith
<1>12. ASSUME NEW h \in Handles, NEW new, Clone(h, new) \/ Parent(h, new)
       PROVE  Sweeps /\ Offsets
  <2>1. PICK n : Refer(n, new) /\ (n = handle[h] \/ (n = red[handle[h]].parent /\ n # NULL))
                 /\ handle[h] # NULL
    BY <1>12 DEF Clone, Parent
  <2>2. n \in Reds /\ red[n].rc > 0
    BY <1>5, <2>1, Referenced, TreeIsForested DEF Forested, RefType, RedOrNull
  <2> QED BY <2>1, <2>2, ReferSettles, TreeIsForested
<1>13. ASSUME NEW h \in Handles, NEW K, NEW new \in Handles,
              \/ FirstChild(h, K, new) \/ LastChild(h, K, new)
              \/ NextSibling(h, K, new) \/ PrevSibling(h, K, new)
       PROVE  Sweeps /\ Offsets
  <2>1. PICK p \in Reds, i \in Nat : red[p].rc > 0 /\ NewChild(p, i, new)
    BY <1>13, NavigateLooks, TreeIsForested
  <2>2. stolen = NULL
    BY <1>13 DEF FirstChild, LastChild, NextSibling, PrevSibling, User
  <2> QED BY <2>1, <2>2, NewChildSettles, TreeIsForested
<1>14. CASE DropKept
  BY <1>14, SameReds DEF DropKept
<1> QED BY <1>2, <1>3, <1>4, <1>7, <1>8, <1>9, <1>10, <1>11, <1>12, <1>13, <1>14 DEF Operation

LEMMA LoopSettles ==
  ASSUME TreeInv, GreenInv, Loop
  PROVE  Sweeps /\ Offsets
<1>1. CASE AttachLink \/ AttachPanic
  BY <1>1, LinkSettles DEF AttachLink, AttachPanic
<1>2. CASE AttachEnd
  <2>1. PICK c : c = todo.child
    OBVIOUS
  <2>2. c \in Reds /\ Release(red, c) /\ dying = NULL
    BY <1>2, <2>1, TreeIsForested DEF AttachEnd, Accounted, LoopsDone
  <2>3. Held(c) > 0
    <3>1. One(todo.child = c) = 1
      BY <2>1 DEF One
    <3>2. One(spine.release = c) \in Nat /\ One(c \in forgotten) \in Nat
      BY OneType
    <3> QED BY <3>1, <3>2 DEF Held
  <2>4. red[c].rc > 0
    BY <2>2, <2>3, Referenced, TreeIsForested DEF Forested
  <2> QED BY <2>2, <2>4, DropSettles, TreeIsForested
<1>3. CASE DropGreenStep \/ CloneEnd \/ ReplaceStep \/ ReplaceEnd
  BY <1>3, SameReds DEF DropGreenStep, CloneEnd, ReplaceStep, ReplaceEnd
<1> QED
  BY <1>1, <1>2, <1>3, RespineSettles, FreeSettles, CloneStepSettles DEF Loop

LEMMA StepSettles ==
  ASSUME TreeInv, GreenInv, [Next]_vars
  PROVE  Sweeps /\ Offsets
<1>1. CASE UNCHANGED vars
  BY <1>1, SameReds DEF vars
<1> QED BY <1>1, OperationSettles, LoopSettles DEF Next

-----------------------------------------------------------------------------
(***************************************************************************)
(* The red a panic left is mutable, and so are the reds below it.          *)
(***************************************************************************)
StolenMutable == stolen # NULL => red[stolen].mutable \/ red[stolen] = FreeRed

ParentsTaken == \A n \in Reds : red[n].parent # NULL => red[red[n].parent] # FreeRed

OffsetInv == \A n \in Reds : red[n] # FreeRed /\ ~ red[n].mutable => Placed(n)

LEMMA StolenChanges ==
  ASSUME [Next]_vars, stolen' # stolen
  PROVE  AttachPanic
<1>1. ~ UNCHANGED vars
  BY DEF vars
<1>2. ~ Operation
  <2>1. ASSUME NEW h \in Handles, NEW mut, NewRoot(h, mut) PROVE FALSE
    BY <2>1 DEF NewRoot, NewRootData
  <2>2. ~ DropKept
    BY DEF DropKept
  <2>3. ASSUME NEW h \in Handles, \/ Drop(h) \/ Detach(h) \/ CloneForUpdate(h)
                                  \/ \E K \in {NodeKinds, Kinds} : ToNextSibling(h, K)
        PROVE  FALSE
    BY <2>3 DEF Drop, Detach, CloneForUpdate, ToNextSibling, StepShared, StepInPlace,
                StepOffEnd, StepOffRoot
  <2>4. ASSUME NEW h \in Handles, NEW new \in Handles,
               \/ CloneSubtree(h, new) \/ ReplaceWith(h, new)
               \/ Clone(h, new) \/ Parent(h, new)
               \/ \E i : AttachChild(h, i, new)
        PROVE  FALSE
    BY <2>4 DEF CloneSubtree, NewRootData, ReplaceWith, Clone, Parent, Refer, AttachChild
  <2>5. ASSUME NEW h \in Handles, NEW new \in Handles, NEW K,
               \/ FirstChild(h, K, new) \/ NextSibling(h, K, new)
               \/ LastChild(h, K, new) \/ PrevSibling(h, K, new)
        PROVE  FALSE
    BY <2>5 DEF FirstChild, NextSibling, LastChild, PrevSibling, NewChild
  <2> QED BY <2>1, <2>2, <2>3, <2>4, <2>5 DEF Operation
<1>3. Loop => AttachPanic
  BY DEF Loop, RespineStep, FreeStep, DropGreenStep, AttachLink, AttachEnd, CloneStep, CloneEnd,
         ReplaceStep, ReplaceEnd
<1> QED BY <1>1, <1>2, <1>3 DEF Next

LEMMA StolenStep ==
  ASSUME TreeInv, GreenInv, StolenMutable, [Next]_vars
  PROVE  StolenMutable'
<1>1. CASE stolen' = stolen
  <2> SUFFICES ASSUME stolen # NULL, red'[stolen] # FreeRed, ~ red'[stolen].mutable
               PROVE  FALSE
    BY <1>1 DEF StolenMutable
  <2>1. stolen \in Reds
    BY DEF GreenInv, Stages, PanicSafe
  <2>2. Stands(stolen)
    BY <2>1, StepSettles DEF Offsets, Lands
  <2> QED BY <2>2 DEF Stands, StolenMutable
<1>2. CASE stolen' # stolen
  <2>1. AttachPanic
    BY <1>2, StolenChanges
  <2>2. todo.stage = "link" /\ LinkData /\ stolen' = todo.child
    BY <2>1 DEF AttachPanic
  <2>3. /\ todo.node # todo.child /\ todo.child \in Reds /\ red[todo.child].mutable
    BY <2>2, LinkEnds
  <2>4. Links(red', todo.node, todo.child, todo.index)
    BY <2>2, <2>3, LinkLinks, TreeIsForested DEF TreeInv, MutInv
  <2>5. red'[todo.child].mutable
    BY <2>3, <2>4 DEF Links
  <2> QED BY <2>2, <2>5 DEF StolenMutable
<1> QED BY <1>1, <1>2

LEMMA ImmutableIsSafe ==
  ASSUME TreeInv, GreenInv, StolenMutable, NEW n \in Reds, red[n] # FreeRed, ~ red[n].mutable
  PROVE  Safe(n)
<1> DEFINE S == {m \in Reds : red[m] # FreeRed /\ ~ red[m].mutable}
<1>1. Closed(red, S)
  <2> SUFFICES ASSUME NEW m \in S, red[m].parent # NULL PROVE red[m].parent \in S
    BY DEF Closed
  <2>1. red[m].parent \in Reds /\ red[red[m].parent] # FreeRed
    BY ParentHasGreen DEF GreenInv
  <2>2. red[red[m].parent].mutable = red[m].mutable
    BY TreeIsForested DEF Forested, Uniform
  <2> QED BY <2>1, <2>2
<1>2. Above(red, n) \subseteq S
  BY <1>1, AboveClosed, TreeIsForested
<1>3. stolen # NULL => stolen \notin S
  BY DEF StolenMutable
<1>4. NULL \notin S
  BY RedsAssumption
<1> QED BY <1>2, <1>3, <1>4 DEF Safe

(***************************************************************************)
(* The relative offsets in a node that is owned stay.                      *)
(***************************************************************************)
LEMMA OffsetsLast ==
  ASSUME TreeInv, GreenInv, [Next]_vars, NEW g, HasOwner(g), NEW i \in Slots(heap, g)
  PROVE  RelOffset(heap', g, i) = RelOffset(heap, g, i)
<1>1. g \in Greens /\ SameNode(heap', g)
  BY OwnedLast DEF HasOwner, Lasts
<1>2. HeapType(heap)
  BY DEF GreenInv, Stored
<1>3. PICK kids \in Seq(Greens) : kids = heap[g].kids
  BY <1>1, <1>2 DEF HeapType
<1>4. i \in Nat /\ i + 1 \in 1 .. Len(kids)
  BY <1>1, <1>2, <1>3, SlotPlace
<1>5. PICK s : s = SubSeq(kids, 1, i)
  OBVIOUS
<1>6. s \in Seq(Greens) /\ Len(s) = i /\ \A j \in 1 .. i : s[j] = kids[j]
  BY <1>3, <1>4, <1>5
<1>7. ASSUME NEW j \in 1 .. i PROVE heap'[s[j]].len = heap[s[j]].len
  <2>1. j - 1 \in Slots(heap, g) /\ Kid(heap, g, j - 1) = s[j]
    <3>1. PICK k : k = j - 1
      OBVIOUS
    <3>2. k \in 0 .. Len(kids) - 1 /\ k + 1 = j
      BY <1>3, <1>4, <3>1
    <3> QED BY <1>3, <1>6, <3>1, <3>2 DEF Slots, Kid
  <2>2. HasOwner(s[j])
    BY <1>1, <2>1, SlotIsOwned DEF GreenInv
  <2> QED BY <2>2, OwnedLast DEF HasOwner, Lasts, SameNode
<1>8. Lens(heap', s) = Lens(heap, s)
  <2>1. DOMAIN s = 1 .. i
    BY <1>6
  <2> QED BY <1>7, <2>1 DEF Lens
<1>9. TextLen(heap', s) = TextLen(heap, s)
  BY <1>8 DEF TextLen
<1>10. RelOffset(heap', g, i) = TextLen(heap', s) /\ RelOffset(heap, g, i) = TextLen(heap, s)
  BY <1>1, <1>3, <1>5 DEF RelOffset, SameNode
<1> QED BY <1>9, <1>10

LEMMA OffsetStep ==
  ASSUME TreeInv, GreenInv, StolenMutable, OffsetInv, ParentsTaken', TreeInv', [Next]_vars
  PROVE  OffsetInv'
<1> SUFFICES ASSUME NEW n \in Reds, red'[n] # FreeRed, ~ red'[n].mutable
             PROVE  Placed(n)'
  BY DEF OffsetInv
<1>1. Stands(n) \/ Lands(n)
  BY StepSettles DEF Offsets
<1>2. CASE Lands(n)
  BY <1>2 DEF Lands
<1>3. CASE Stands(n)
  <2>1. /\ red[n] # FreeRed /\ ~ red[n].mutable
        /\ red'[n].parent = red[n].parent /\ red'[n].index = red[n].index
        /\ red'[n].green = red[n].green /\ red'[n].offset = red[n].offset
    BY <1>3 DEF Stands
  <2>2. Placed(n)
    BY <2>1 DEF OffsetInv
  <2>3. PICK p, i, g : p = red[n].parent /\ i = red[n].index /\ g = red[p].green
    OBVIOUS
  <2>4. CASE p = NULL
    BY <2>1, <2>2, <2>3, <2>4 DEF Placed
  <2>5. CASE p # NULL
    <3>1. Safe(n) /\ Safe(p) /\ p \in Reds
      BY <2>1, <2>3, <2>5, ImmutableIsSafe, ParentIsSafe
    <3>2. ~ red[p].mutable
      BY <2>1, <2>3, <2>5, TreeIsForested DEF Forested, Uniform
    <3>3. HasOwner(g)
      BY <2>3, <3>1, SafeIsOwned
    <3>4. spine.node # p
      BY <2>5, <3>2 DEF GreenInv, Stages, RespineSafe
    <3>5. i \in Slots(heap, g)
      BY <2>3, <2>5, <3>1, <3>4 DEF GreenInv, Matches, Fits, CurrentGreen
    <3>6. RelOffset(heap', g, i) = RelOffset(heap, g, i)
      BY <3>3, <3>5, OffsetsLast
    <3>7. red'[p] # FreeRed /\ ~ red'[p].mutable
      <4>1. red'[n].parent = p
        BY <2>1, <2>3
      <4>2. red'[red'[n].parent] # FreeRed
        BY <2>5, <4>1 DEF ParentsTaken
      <4>3. red'[red'[n].parent].mutable = red'[n].mutable
        BY <2>5, <4>1 DEF TreeInv, MutInv, Uniform
      <4> QED BY <4>1, <4>2, <4>3
    <3>8. ~ Childless(p)
      BY <2>3 DEF Childless
    <3>9. Stands(p)
      BY <3>1, <3>7, <3>8, StepSettles DEF Offsets, Lands
    <3>10. red'[p].offset = red[p].offset /\ red'[p].green = g
      BY <2>3, <3>9 DEF Stands
    <3>11. red'[n].offset = red[p].offset + RelOffset(heap, g, i)
      BY <2>1, <2>2, <2>3, <2>5 DEF Placed
    <3> QED BY <2>1, <2>3, <2>5, <3>6, <3>10, <3>11 DEF Placed
  <2> QED BY <2>4, <2>5
<1> QED BY <1>1, <1>2, <1>3

-----------------------------------------------------------------------------
(***************************************************************************)
(* The theorems.                                                           *)
(***************************************************************************)
LEMMA InitExact == Init => StolenMutable /\ OffsetInv /\ Swept /\ Rooted(heap)
<1> SUFFICES ASSUME Init PROVE StolenMutable /\ OffsetInv /\ Swept /\ Rooted(heap)
  OBVIOUS
<1>1. \A n \in Reds : red[n] = FreeRed
  BY DEF Init
<1>2. StolenMutable
  BY DEF Init, StolenMutable
<1>3. OffsetInv /\ Swept
  BY <1>1 DEF OffsetInv, Swept
<1>4. Rooted(heap)
  BY InitHeapAssumption DEF Init, Rooted
<1> QED BY <1>2, <1>3, <1>4

(***************************************************************************)
(* The offset cached in an immutable red is the one of its parent plus the *)
(* relative offset of its slot at every step, whatever to_next_sibling     *)
(* moved in place, while mutable trees that share its green nodes are      *)
(* edited and green nodes are freed and built at their addresses.          *)
(***************************************************************************)
THEOREM OffsetsAreExact == Spec => []OffsetExact
<1>1. TreeInv /\ GreenInv => ParentsTaken
  BY ParentHasGreen DEF GreenInv, ParentsTaken
<1>2. /\ TreeInv /\ GreenInv /\ StolenMutable /\ OffsetInv
      /\ TreeInv' /\ ParentsTaken' /\ [Next]_vars
      => StolenMutable' /\ OffsetInv'
  BY StolenStep, OffsetStep
<1>3. OffsetInv => OffsetExact
  BY DEF OffsetInv, OffsetExact, Placed, Occupied
<1> QED BY <1>1, <1>2, <1>3, InitCursor, InitExact, StepCursor, PTL DEF Spec

-----------------------------------------------------------------------------
(***************************************************************************)
(* A set of reds in which every red has a child would hold a cycle.        *)
(***************************************************************************)
LEMMA NoFamily ==
  ASSUME Acyclic(red), NEW S \in SUBSET Reds, \A n \in S : \E c \in S : red[c].parent = n
  PROVE  S = {}
<1> SUFFICES ASSUME S # {} PROVE FALSE
  OBVIOUS
<1> DEFINE T == {c \in S : red[c].parent \in S}
           f == [c \in T |-> red[c].parent]
<1>1. IsFiniteSet(S)
  BY RedsAssumption, FS_Subset
<1>2. PICK k \in S : k \notin T
  BY DEF Acyclic
<1>3. IsFiniteSet(T) /\ Cardinality(T) <= Cardinality(S) /\ (Cardinality(S) = Cardinality(T) => S = T)
  BY <1>1, FS_Subset
<1>4. Cardinality(S) # Cardinality(T)
  BY <1>2, <1>3
<1>5. f \in Surjection(T, S)
  <2>1. f \in [T -> S]
    OBVIOUS
  <2>2. \A n \in S : \E c \in T : f[c] = n
    OBVIOUS
  <2> QED BY <2>1, <2>2 DEF Surjection
<1>6. Cardinality(S) <= Cardinality(T)
  BY <1>3, <1>5, FS_Surjection
<1>7. Cardinality(S) \in Nat /\ Cardinality(T) \in Nat
  BY <1>1, <1>3, FS_CardinalityType
<1> QED BY <1>3, <1>4, <1>6, <1>7

(* A red nobody holds is referred to by its children only. *)
LEMMA NoRedLeft ==
  ASSUME TreeInv, Swept, Idle, \A h \in Handles : handle[h] = NULL, forgotten = {}
  PROVE  Occupied = {}
<1>1. ASSUME NEW n \in Occupied PROVE \E c \in Occupied : red[c].parent = n
  <2>1. n \in Reds /\ red[n] # FreeRed
    BY DEF Occupied
  <2>2. red[n].rc # 0
    BY <2>1, RedsAssumption DEF Swept, Idle
  <2>3. Owners(n) = {}
    BY <2>1, RedsAssumption DEF Owners
  <2>4. Held(n) = 0
    BY <2>1, RedsAssumption DEF Held, One, Idle, NoSpine, NoTodo
  <2>5. red[n].rc = Cardinality(Owners(n)) + Cardinality(ChildrenOf(n)) + Held(n)
    BY <2>1, TreeIsForested DEF Forested, RcExact
  <2>6. ChildrenOf(n) # {}
    BY <2>2, <2>3, <2>4, <2>5, FS_EmptySet
  <2>7. PICK c \in Reds : red[c].parent = n
    BY <2>6 DEF ChildrenOf
  <2>8. red[c] # FreeRed
    BY <2>1, <2>7, RedsAssumption DEF FreeRed
  <2> QED BY <2>7, <2>8 DEF Occupied
<1>2. Occupied \in SUBSET Reds
  BY DEF Occupied
<1> QED BY <1>1, <1>2, NoFamily, TreeIsForested

(* A green element without an owner outside the heap is in a slot of another one. *)
LEMMA NoGreenLeft ==
  ASSUME GreenInv, Rooted(heap), Idle, kept = NULL, Occupied = {}
  PROVE  FreeGreens(heap) = Greens
<1> DEFINE S == {g \in Greens : heap[g].cnt # 0}
<1>1. HeapType(heap) /\ Blank(heap)
  BY DEF GreenInv, Stored
<1>2. ASSUME NEW g \in Greens PROVE heap[g].cnt = Cardinality(SlotsOf(heap, g))
  <2>1. Roots(red, g) = {}
    BY GreensAssumption DEF Roots, Occupied, FreeRed
  <2>2. One(kept = g) = 0 /\ One(spine.green = g) = 0 /\ Times(g, drops) = 0
    BY GreensAssumption, TimesEmpty DEF One, Idle, NoSpine
  <2>3. Cardinality(Roots(red, g)) = 0
    BY <2>1, FS_EmptySet
  <2>4. Excess(heap, g) = 0
    BY <2>2, <2>3 DEF GreenInv, Owned, Outside
  <2>5. /\ Cardinality(SlotsOf(heap, g)) \in Nat
        /\ heap[g].cnt = Excess(heap, g) + Cardinality(SlotsOf(heap, g))
    BY <1>1, ExcessType
  <2> QED BY <2>4, <2>5
<1> SUFFICES ASSUME S # {} PROVE FALSE
  BY DEF FreeGreens
<1>3. PICK k \in S : \A p \in S : ~ HasKid(heap, p, k)
  BY DEF Rooted
<1>4. SlotsOf(heap, k) # {}
  BY <1>2, <1>3, FS_EmptySet
<1>5. PICK p \in Greens : HasKid(heap, p, k)
  BY <1>4, SlotsMember DEF HasKid, SlotsOf
<1>6. p \notin S
  BY <1>3, <1>5
<1>7. heap[p].kids = <<>>
  BY <1>1, <1>6 DEF Blank, FreeGreens, Free
<1> QED BY <1>5, <1>7 DEF HasKid

(***************************************************************************)
(* When the last handle and the user's GreenNode are gone and the loops    *)
(* are done, no NodeData and no green element is left, even after the      *)
(* panic of an attach_child, unless a root was passed to mem::forget.      *)
(***************************************************************************)
THEOREM NothingIsLeaked == Spec => []NothingLeaks
<1>1. TreeInv => RefType
  BY TreeIsForested DEF Forested
<1>2. TreeInv /\ GreenInv /\ Swept /\ [Next]_vars => Swept'
  BY <1>1, StepSettles, StaysSwept
<1>3. /\ TreeInv /\ GreenInv /\ Rooted(heap) /\ TreeInv' /\ GreenInv' /\ [Next]_vars
      => Rooted(heap)'
  BY StaysRooted
<1>4. TreeInv /\ GreenInv /\ Swept /\ Rooted(heap) => NothingLeaks
  BY NoRedLeft, NoGreenLeft DEF NothingLeaks
<1> QED BY <1>2, <1>3, <1>4, InitCursor, InitExact, StepCursor, PTL DEF Spec

-----------------------------------------------------------------------------
(***************************************************************************)
(* Green nodes know their lengths, whatever was shared, edited and freed:  *)
(* a node is as long as its children together.                             *)
(***************************************************************************)
Measured(h) ==
  \A g \in Greens :
    /\ h[g].len \in Nat
    /\ h[g].kids # <<>> => h[g].len = TextLen(h, h[g].kids)

(* The children of a node have owners, so their lengths last. *)
LEMMA KidsLast ==
  ASSUME TreeInv, GreenInv, [Next]_vars, NEW g \in Greens, NEW i \in DOMAIN heap[g].kids
  PROVE  heap[g].kids[i] \in Greens /\ heap'[heap[g].kids[i]].len = heap[heap[g].kids[i]].len
<1>1. PICK kids \in Seq(Greens) : kids = heap[g].kids
  BY DEF GreenInv, Stored, HeapType
<1>2. PICK j : j = i - 1
  OBVIOUS
<1>3. j \in Slots(heap, g) /\ Kid(heap, g, j) = kids[i]
  BY <1>1, <1>2 DEF Slots, Kid
<1>4. HasOwner(kids[i])
  BY <1>3, SlotIsOwned DEF GreenInv
<1> QED BY <1>1, <1>4, OwnedLast DEF HasOwner, Lasts, SameNode

LEMMA StaysMeasured ==
  ASSUME TreeInv, GreenInv, GreenInv', [Next]_vars, Measured(heap)
  PROVE  Measured(heap')
<1>1. PICK q : q = heap'
  OBVIOUS
<1>2. HeapType(heap) /\ HeapType(q)
  BY <1>1 DEF GreenInv, Stored
<1>3. ASSUME NEW g \in Greens, q[g].kids = heap[g].kids, q[g].len = heap[g].len, q[g].kids # <<>>
      PROVE  q[g].len = TextLen(q, q[g].kids)
  <2>1. PICK kids : kids = heap[g].kids
    OBVIOUS
  <2>2. \A i \in DOMAIN kids : q[kids[i]].len = heap[kids[i]].len
    BY <1>1, <2>1, KidsLast
  <2>3. TextLen(q, kids) = TextLen(heap, kids)
    BY <2>2, TextLenKept
  <2> QED BY <1>3, <2>1, <2>3 DEF Measured
<1>4. CASE Counts
  BY <1>1, <1>3, <1>4 DEF Counts, SameNode, Measured
<1>5. CASE Drops
  <2>1. ASSUME NEW k \in Greens
        PROVE  \/ q[k].kids = heap[k].kids /\ q[k].len = heap[k].len
               \/ q[k].kids = <<>> /\ q[k].len = 0
    <3>1. PICK g : g = Head(drops)
      OBVIOUS
    <3>2. q = [heap EXCEPT ![g] = Free] \/ q = [heap EXCEPT ![g].cnt = @ - 1]
      BY <1>1, <1>5, <3>1 DEF Drops, DropGreen
    <3>3. DOMAIN heap = Greens /\ DOMAIN heap[k] = DOMAIN Free
      BY <1>2 DEF HeapType
    <3>4. CASE k = g
      <4>1. q = [heap EXCEPT ![g] = Free] => q[k].kids = <<>> /\ q[k].len = 0
        BY <3>3, <3>4 DEF Free
      <4>2. q = [heap EXCEPT ![g].cnt = @ - 1] => q[k].kids = heap[k].kids /\ q[k].len = heap[k].len
        BY <3>3, <3>4 DEF Free
      <4> QED BY <3>2, <4>1, <4>2
    <3>5. CASE k # g
      <4>1. q[k] = heap[k]
        BY <3>2, <3>3, <3>5
      <4> QED BY <4>1
    <3> QED BY <3>4, <3>5
  <2> QED BY <1>1, <1>3, <2>1 DEF Measured
<1>6. CASE Builds
  <2>1. PICK a \in Greens : spine'.green = a /\ Made(q, a)
    BY <1>1, <1>6 DEF Builds, FreeGreens
  <2>2. PICK h : (\A k \in Greens : SameNode(h, k)) /\ q[a].len = TextLen(h, q[a].kids)
    BY <2>1 DEF Made
  <2>3. /\ q[a].cnt = 1
        /\ \A k \in Greens \ {a} : q[k].kids = heap[k].kids /\ q[k].len = heap[k].len
    BY <2>1 DEF Made, SameNode
  <2>4. ~ HasKid(q, a, a)
    BY <1>1, <2>1, <2>3, BuiltIsTop
  <2>5. PICK kids \in Seq(Greens) : kids = q[a].kids
    BY <1>2 DEF HeapType
  <2>6. ASSUME NEW i \in DOMAIN kids
        PROVE  q[kids[i]].len = h[kids[i]].len /\ h[kids[i]].len \in Nat
    <3>1. kids[i] \in Greens \ {a}
      BY <2>4, <2>5 DEF HasKid
    <3> QED BY <2>2, <2>3, <3>1 DEF SameNode, Measured
  <2>7. TextLen(q, kids) = TextLen(h, kids)
    BY <2>6, TextLenKept
  <2>8. TextLen(h, kids) \in Nat
    BY <2>6, TextLenIsSum DEF Long
  <2>9. q[a].len \in Nat /\ q[a].len = TextLen(q, q[a].kids)
    BY <2>2, <2>5, <2>7, <2>8
  <2> QED BY <1>1, <1>3, <2>3, <2>9 DEF Measured
<1> QED BY <1>4, <1>5, <1>6, HeapSteps DEF HeapStep

LEMMA InitMeasured == Init => Measured(heap)
BY InitHeapAssumption DEF Init, Measured

-----------------------------------------------------------------------------
(***************************************************************************)
(* Recursion over parents: what is defined at the roots, and step by step  *)
(* at the children, is defined at all reds.                                *)
(***************************************************************************)
LEMMA DownTheTree ==
  ASSUME NEW r, Parents(r), Acyclic(r), NEW V, NEW base, NEW step,
         \A n \in Reds : base[n] \in V, \A v \in V, n \in Reds : step[<<v, n>>] \in V
  PROVE  \E f \in [Reds -> V] : \A n \in Reds :
           f[n] = IF r[n].parent = NULL THEN base[n] ELSE step[<<f[r[n].parent], n>>]
<1> DEFINE At(f, n) == IF r[n].parent = NULL THEN base[n] ELSE step[<<f[r[n].parent], n>>]
           Solves(f, C) == f \in [C -> V] /\ \A n \in C : f[n] = At(f, n)
           Left == {D \in SUBSET Reds : Closed(r, Reds \ D) /\ \E f : Solves(f, Reds \ D)}
<1>1. Reds \in Left
  <2>1. Closed(r, {}) /\ Solves([n \in {} |-> 0], {})
    BY DEF Closed
  <2>2. Reds \ Reds = {}
    OBVIOUS
  <2> HIDE DEF Solves
  <2> QED BY <2>1, <2>2
<1>2. PICK F : F = Left
  OBVIOUS
<1>3. PICK D \in F : \A T \in F : T \subseteq D => T = D
  <2>1. IsFiniteSet(Reds) /\ F \subseteq SUBSET Reds /\ F # {}
    BY <1>1, <1>2, RedsAssumption
  <2>2. \E S \in F : \A T \in F : T \subseteq S => T = S
    BY ONLY <2>1, SmallestSet
  <2> QED BY <2>2
<1>4. D \in SUBSET Reds /\ Closed(r, Reds \ D)
  BY <1>2, <1>3
<1>5. PICK f : Solves(f, Reds \ D)
  BY <1>2, <1>3
<1>6. CASE D = {}
  <2>1. Reds \ D = Reds
    BY <1>6
  <2> QED BY <1>5, <2>1
<1>7. CASE D # {}
  <2>1. PICK k \in D : r[k].parent \notin D
    BY <1>4, <1>7 DEF Acyclic
  <2>2. k \in Reds /\ (r[k].parent # NULL => r[k].parent \in Reds \ D)
    BY <1>4, <2>1 DEF Parents, RedOrNull
  <2>3. PICK v : v = At(f, k)
    OBVIOUS
  <2>4. v \in V
    <3>1. r[k].parent # NULL => f[r[k].parent] \in V
      BY <1>5, <2>2
    <3> QED BY <2>2, <2>3, <3>1
  <2>5. PICK C, g : C = Reds \ (D \ {k}) /\ g = [n \in C |-> IF n = k THEN v ELSE f[n]]
    OBVIOUS
  <2>6. C = (Reds \ D) \cup {k} /\ k \notin Reds \ D
    BY <2>1, <2>2, <2>5
  <2>7. Closed(r, C)
    BY <1>4, <2>2, <2>6 DEF Closed
  <2>8. \A n \in Reds \ D : g[n] = f[n] /\ g[n] \in V
    BY <1>5, <2>5, <2>6
  <2>9. g[k] = v
    BY <2>5, <2>6
  <2>10. \A n \in C : r[n].parent # NULL => r[n].parent \in Reds \ D
    BY <1>4, <2>2, <2>6 DEF Closed
  <2>11. \A n \in C : g[n] = At(g, n)
    <3>1. \A n \in C : r[n].parent # NULL => g[r[n].parent] = f[r[n].parent]
      BY <2>8, <2>10
    <3>2. \A n \in C : At(g, n) = At(f, n)
      BY <3>1
    <3>3. \A n \in Reds \ D : f[n] = At(f, n)
      BY <1>5
    <3> HIDE DEF At
    <3> QED BY <2>3, <2>6, <2>8, <2>9, <3>2, <3>3
  <2>12. g \in [C -> V]
    BY <2>4, <2>5, <2>6, <2>8, <2>9
  <2>13. Solves(g, C)
    BY <2>11, <2>12
  <2>14. D \ {k} \in F
    <3>1. D \ {k} \in SUBSET Reds
      BY <1>4
    <3> HIDE DEF Solves
    <3> QED BY <1>2, <2>5, <2>7, <2>13, <3>1
  <2> QED BY <1>3, <2>1, <2>14
<1> QED BY <1>6, <1>7

(***************************************************************************)
(* A user's view: no loop is under way and no panic left a red behind.     *)
(***************************************************************************)
Quietly == Idle /\ stolen = NULL

LEMMA QuietFacts ==
  ASSUME TreeInv, GreenInv, Measured(heap), Quietly, NEW n \in Reds, red[n].parent # NULL
  PROVE  /\ red[n] # FreeRed /\ red[n].green \in Greens
         /\ red[n].parent \in Reds /\ red[red[n].parent] # FreeRed
         /\ red[red[n].parent].green \in Greens
         /\ red[n].index \in Slots(heap, red[red[n].parent].green)
         /\ Kid(heap, red[red[n].parent].green, red[n].index) = red[n].green
<1>1. /\ red[n].parent \in Reds /\ red[n] # FreeRed /\ red[red[n].parent] # FreeRed
      /\ red[red[n].parent].green \in Greens
  BY ParentHasGreen DEF GreenInv
<1>2. red[n].green \in Greens
  BY <1>1 DEF GreenInv, GreenSet
<1>3. Safe(n)
  BY <1>1, SafeWithoutPanic DEF Quietly
<1>4. CurrentGreen(red[n].parent) = red[red[n].parent].green
  BY <1>1, RedsAssumption DEF CurrentGreen, Quietly, Idle, NoSpine
<1> QED BY <1>1, <1>2, <1>3, <1>4 DEF GreenInv, Matches, Fits

(* The intervals of the children of a green node in use. *)
LEMMA KidsInOrder ==
  ASSUME TreeInv, GreenInv, Measured(heap), NEW g \in Greens, NEW i \in Slots(heap, g)
  PROVE  /\ RelOffset(heap, g, i) \in Nat /\ heap[Kid(heap, g, i)].len \in Nat
         /\ Kid(heap, g, i) \in Greens
         /\ RelOffset(heap, g, i) + heap[Kid(heap, g, i)].len <= heap[g].len
         /\ \A j \in Slots(heap, g) :
              i < j => RelOffset(heap, g, i) + heap[Kid(heap, g, i)].len <= RelOffset(heap, g, j)
<1>1. PICK kids \in Seq(Greens) : kids = heap[g].kids
  BY DEF GreenInv, Stored, HeapType
<1>2. Long(heap, kids)
  BY <1>1 DEF Long, Measured
<1>3. Kid(heap, g, i) \in Greens /\ kids # <<>>
  BY <1>1 DEF Slots, Kid
<1>4. heap[g].len = TextLen(heap, kids)
  BY <1>1, <1>3 DEF Measured
<1>5. /\ RelOffset(heap, g, i) \in Nat /\ heap[Kid(heap, g, i)].len \in Nat
      /\ RelOffset(heap, g, i) + heap[Kid(heap, g, i)].len <= TextLen(heap, kids)
      /\ \A j \in Slots(heap, g) :
              i < j => RelOffset(heap, g, i) + heap[Kid(heap, g, i)].len <= RelOffset(heap, g, j)
  BY <1>1, <1>2, ChildrenInOrder
<1> QED BY <1>3, <1>4, <1>5

(* The offsets of the elements: those of their parents, and what is before them in these. *)
LEMMA OffsetIs ==
  ASSUME TreeInv, GreenInv, Measured(heap), Quietly
  PROVE  /\ Offset \in [Reds -> Nat]
         /\ \A n \in Reds :
              Offset[n] = IF red[n].parent = NULL THEN 0
                          ELSE Offset[red[n].parent] + RelOffset(heap, red[red[n].parent].green, red[n].index)
<1> DEFINE Rel(n) == RelOffset(heap, red[red[n].parent].green, red[n].index)
           Sum(f) == [n \in Reds |-> IF red[n].parent = NULL THEN 0 ELSE f[red[n].parent] + Rel(n)]
<1>1. Offset = CHOOSE f : f = Sum(f)
  BY DEF Offset
<1>2. \A n \in Reds : red[n].parent # NULL => Rel(n) \in Nat
  BY QuietFacts, KidsInOrder
<1>3. PICK base : base = [n \in Reds |-> 0]
  OBVIOUS
<1> HIDE DEF Rel
<1>4. PICK step : step = [x \in Nat \X Reds |-> IF red[x[2]].parent = NULL THEN 0 ELSE x[1] + Rel(x[2])]
  OBVIOUS
<1>5. /\ \A n \in Reds : base[n] \in Nat
      /\ \A v \in Nat, n \in Reds : step[<<v, n>>] \in Nat
  BY <1>2, <1>3, <1>4
<1>6. PICK f \in [Reds -> Nat] : \A n \in Reds :
        f[n] = IF red[n].parent = NULL THEN base[n] ELSE step[<<f[red[n].parent], n>>]
  <2>1. Parents(red) /\ Acyclic(red)
    BY TreeIsForested DEF Forested
  <2>2. PICK N : N = Nat
    OBVIOUS
  <2>3. /\ \A n \in Reds : base[n] \in N
        /\ \A v \in N, n \in Reds : step[<<v, n>>] \in N
    BY ONLY <1>5, <2>2
  <2>4. \E f \in [Reds -> N] : \A n \in Reds :
          f[n] = IF red[n].parent = NULL THEN base[n] ELSE step[<<f[red[n].parent], n>>]
    BY ONLY <2>1, <2>3, DownTheTree
  <2> QED BY ONLY <2>2, <2>4
<1>7. f = Sum(f)
  <2>1. ASSUME NEW n \in Reds PROVE f[n] = IF red[n].parent = NULL THEN 0 ELSE f[red[n].parent] + Rel(n)
    <3>1. CASE red[n].parent = NULL
      BY <1>3, <1>6, <3>1
    <3>2. CASE red[n].parent # NULL
      <4>1. red[n].parent \in Reds
        BY <3>2, QuietFacts
      <4>2. f[red[n].parent] \in Nat
        BY <4>1
      <4>3. step[<<f[red[n].parent], n>>] = f[red[n].parent] + Rel(n)
        BY <1>4, <3>2, <4>2
      <4> QED BY <1>6, <3>2, <4>3
    <3> QED BY <3>1, <3>2
  <2> QED BY <2>1
<1> HIDE DEF Sum
<1>8. Offset = Sum(Offset)
  BY <1>1, <1>7
<1>9. \A n \in Reds : Offset[n] = IF red[n].parent = NULL THEN 0 ELSE Offset[red[n].parent] + Rel(n)
  BY <1>8 DEF Sum
<1>10. DOMAIN Offset = Reds /\ Offset = [n \in Reds |-> Offset[n]]
  BY <1>8 DEF Sum
<1> DEFINE Bad == {n \in Reds : Offset[n] \notin Nat}
<1>11. Bad = {}
  <2> SUFFICES ASSUME Bad # {} PROVE FALSE
    OBVIOUS
  <2>1. PICK n \in Bad : red[n].parent \notin Bad
    BY TreeIsForested DEF Forested, Acyclic
  <2>2. red[n].parent # NULL => Offset[red[n].parent] \in Nat
    BY <2>1, QuietFacts
  <2>3. Offset[n] \in Nat
    BY <1>2, <1>9, <2>1, <2>2
  <2> QED BY <2>1, <2>3
<1> QED BY <1>9, <1>10, <1>11 DEF Rel

(* The positions: those of the parents and the index. *)
LEMMA PositionIs ==
  ASSUME TreeInv, GreenInv, Measured(heap), Quietly
  PROVE  \A n \in Reds :
           /\ Position[n] \in Seq(Reds \cup Nat) /\ Position[n] # <<>>
           /\ red[n].parent = NULL => Position[n] = <<n>>
           /\ red[n].parent # NULL =>
                /\ red[n].index \in Nat
                /\ Position[n] = Append(Position[red[n].parent], red[n].index)
<1> DEFINE Path(f) == [n \in Reds |-> IF red[n].parent = NULL THEN <<n>>
                                      ELSE Append(f[red[n].parent], red[n].index)]
<1>1. Position = CHOOSE f : f = Path(f)
  BY DEF Position
<1>2. PICK U, V : U = Reds \cup Nat /\ V = Seq(U)
  OBVIOUS
<1>3. \A n \in Reds : red[n].parent # NULL => red[n].index \in Nat
  BY QuietFacts DEF Slots
<1>4. PICK base, step :
        /\ base = [n \in Reds |-> <<n>>]
        /\ step = [x \in V \X Reds |-> IF red[x[2]].parent = NULL THEN <<>> ELSE Append(x[1], red[x[2]].index)]
  OBVIOUS
<1>5. /\ \A n \in Reds : base[n] \in V
      /\ \A v \in V, n \in Reds : step[<<v, n>>] \in V
  <2>1. \A n \in Reds : <<n>> \in V
    BY <1>2
  <2>2. ASSUME NEW v \in V, NEW n \in Reds
        PROVE  (IF red[n].parent = NULL THEN <<>> ELSE Append(v, red[n].index)) \in V
    BY <1>2, <1>3
  <2>3. \A v \in V, n \in Reds :
          step[<<v, n>>] = IF red[n].parent = NULL THEN <<>> ELSE Append(v, red[n].index)
    BY <1>4
  <2> QED BY <1>4, <2>1, <2>2, <2>3
<1>6. PICK f \in [Reds -> V] : \A n \in Reds :
        f[n] = IF red[n].parent = NULL THEN base[n] ELSE step[<<f[red[n].parent], n>>]
  <2>1. Parents(red) /\ Acyclic(red)
    BY TreeIsForested DEF Forested
  <2> QED BY ONLY <1>5, <2>1, DownTheTree
<1>7. f = Path(f)
  <2>1. ASSUME NEW n \in Reds
        PROVE  f[n] = IF red[n].parent = NULL THEN <<n>> ELSE Append(f[red[n].parent], red[n].index)
    <3>1. CASE red[n].parent = NULL
      BY <1>4, <1>6, <3>1
    <3>2. CASE red[n].parent # NULL
      <4>1. red[n].parent \in Reds
        BY <3>2, QuietFacts
      <4>2. f[red[n].parent] \in V
        BY <4>1
      <4>3. step[<<f[red[n].parent], n>>] = Append(f[red[n].parent], red[n].index)
        BY <1>4, <3>2, <4>2
      <4> QED BY <1>6, <3>2, <4>3
    <3> QED BY <3>1, <3>2
  <2> QED BY <2>1
<1> HIDE DEF Path
<1>8. Position = Path(Position)
  BY <1>1, <1>7
<1>9. \A n \in Reds : Position[n] = IF red[n].parent = NULL THEN <<n>>
                                    ELSE Append(Position[red[n].parent], red[n].index)
  BY <1>8 DEF Path
<1> DEFINE Bad == {n \in Reds : ~ (Position[n] \in Seq(U) /\ Position[n] # <<>>)}
<1>10. Bad = {}
  <2> SUFFICES ASSUME Bad # {} PROVE FALSE
    OBVIOUS
  <2>1. PICK n \in Bad : red[n].parent \notin Bad
    BY TreeIsForested DEF Forested, Acyclic
  <2>2. CASE red[n].parent = NULL
    <3>1. PICK u \in U : u = n
      BY <1>2, <2>1
    <3>2. Position[n] = <<u>>
      BY <1>9, <2>1, <2>2, <3>1
    <3>3. <<u>> \in Seq(U) /\ <<u>> # <<>>
      OBVIOUS
    <3> QED BY <2>1, <3>2, <3>3
  <2>3. CASE red[n].parent # NULL
    <3>0. n \in Reds /\ red[n].parent \in Reds /\ red[n].index \in U
      BY <1>2, <1>3, <2>1, <2>3, QuietFacts
    <3>1. PICK s \in Seq(U), i \in U : s = Position[red[n].parent] /\ i = red[n].index
      BY <2>1, <3>0
    <3>2. Position[n] = Append(s, i)
      BY <1>9, <2>1, <2>3, <3>1
    <3>3. Append(s, i) \in Seq(U) /\ Append(s, i) # <<>>
      OBVIOUS
    <3> QED BY <2>1, <3>2, <3>3
  <2> QED BY <2>2, <2>3
<1> QED BY <1>2, <1>3, <1>9, <1>10

(* The way down to a child is longer by one, and begins at the same root. *)
LEMMA WayDown ==
  ASSUME TreeInv, GreenInv, Measured(heap), Quietly, NEW n \in Reds
  PROVE  /\ Len(Position[n]) \in Nat /\ Len(Position[n]) >= 1
         /\ red[n].parent = NULL => Len(Position[n]) = 1 /\ Head(Position[n]) = n
         /\ red[n].parent # NULL =>
              /\ Len(Position[n]) = Len(Position[red[n].parent]) + 1
              /\ Head(Position[n]) = Head(Position[red[n].parent])
              /\ Len(Position[red[n].parent]) \in Nat /\ Len(Position[red[n].parent]) >= 1
<1>1. PICK U : U = Reds \cup Nat
  OBVIOUS
<1>2. PICK s \in Seq(U) : s = Position[n] /\ s # <<>>
  BY <1>1, PositionIs
<1>3. Len(s) \in Nat /\ Len(s) >= 1
  BY <1>2
<1>4. CASE red[n].parent = NULL
  <2>1. s = <<n>>
    BY <1>2, <1>4, PositionIs
  <2> QED BY <1>2, <1>4, <2>1
<1>5. CASE red[n].parent # NULL
  <2>1. red[n].parent \in Reds
    BY <1>5, QuietFacts
  <2>2. PICK t \in Seq(U), i \in U : t = Position[red[n].parent] /\ i = red[n].index /\ t # <<>>
    BY <1>1, <1>5, <2>1, PositionIs
  <2>3. s = Append(t, i)
    BY <1>2, <1>5, <2>2, PositionIs
  <2>4. Len(s) = Len(t) + 1 /\ Head(s) = Head(t) /\ Len(t) \in Nat /\ Len(t) >= 1
    BY <2>2, <2>3
  <2> QED BY <1>2, <1>3, <1>5, <2>2, <2>4
<1> QED BY <1>4, <1>5

-----------------------------------------------------------------------------
(* g is below h: every set closed under children that has those of h has g. *)
Below(g, h) ==
  \A K \in SUBSET Greens :
    (\A x \in K \cup {h} : \A i \in DOMAIN heap[x].kids : heap[x].kids[i] \in K) => g \in K

LEMMA NotBelowItself ==
  ASSUME HeapType(heap), Rooted(heap), NEW h \in Greens
  PROVE  ~ Below(h, h)
<1> SUFFICES ASSUME Below(h, h) PROVE FALSE
  OBVIOUS
<1>1. PICK D : D = {g \in Greens : Below(g, h)}
  OBVIOUS
<1>2. ASSUME NEW x \in D \cup {h}, NEW i \in DOMAIN heap[x].kids
      PROVE  heap[x].kids[i] \in D
  <2>1. PICK y : y = heap[x].kids[i]
    OBVIOUS
  <2>2. x \in Greens /\ y \in Greens
    BY <1>1, <2>1 DEF HeapType
  <2>3. ASSUME NEW K \in SUBSET Greens,
               \A z \in K \cup {h} : \A j \in DOMAIN heap[z].kids : heap[z].kids[j] \in K
        PROVE  y \in K
    <3>1. x = h \/ x \in K
      BY <1>1, <2>3 DEF Below
    <3> QED BY <2>1, <2>3, <3>1
  <2>4. Below(y, h)
    BY <2>3 DEF Below
  <2> QED BY <1>1, <2>1, <2>2, <2>4
<1>3. D \in SUBSET Greens /\ h \in D
  BY <1>1
<1>4. PICK k \in D : \A p \in D : ~ HasKid(heap, p, k)
  BY <1>3 DEF Rooted
<1>5. PICK K : K = D \ {k}
  OBVIOUS
<1>6. ASSUME NEW x \in K \cup {h}, NEW i \in DOMAIN heap[x].kids
      PROVE  heap[x].kids[i] \in K
  <2>1. x \in D /\ heap[x].kids[i] \in D
    BY <1>2, <1>3, <1>5
  <2>2. heap[x].kids[i] # k
    BY <1>4, <2>1 DEF HasKid
  <2> QED BY <1>5, <2>1, <2>2
<1>7. K \in SUBSET Greens /\ Below(k, h)
  BY <1>1, <1>3, <1>4, <1>5
<1>8. k \in K
  BY <1>6, <1>7 DEF Below
<1> QED BY <1>5, <1>8

(* The children of what is below are below, and so are one's own. *)
LEMMA KidIsBelow ==
  ASSUME NEW p \in Greens, NEW i \in Slots(heap, p), HeapType(heap), NEW h, p = h \/ Below(p, h)
  PROVE  Below(Kid(heap, p, i), h)
<1>1. PICK y : y = Kid(heap, p, i)
  OBVIOUS
<1>2. PICK j \in DOMAIN heap[p].kids : y = heap[p].kids[j]
  <2>1. heap[p].kids \in Seq(Greens)
    BY DEF HeapType
  <2>2. i + 1 \in DOMAIN heap[p].kids
    BY <2>1 DEF Slots
  <2> QED BY <1>1, <2>2 DEF Kid
<1>3. ASSUME NEW K \in SUBSET Greens,
             \A x \in K \cup {h} : \A l \in DOMAIN heap[x].kids : heap[x].kids[l] \in K
      PROVE  y \in K
  <2>1. p = h \/ p \in K
    BY <1>3 DEF Below
  <2> QED BY <1>2, <1>3, <2>1
<1> QED BY <1>1, <1>3 DEF Below

(***************************************************************************)
(* Two reds of one tree, the first not further down: they are at the same  *)
(* place, or the green of the second is below that of the first, or their  *)
(* texts do not overlap.                                                   *)
(***************************************************************************)
End(n) == Offset[n] + heap[red[n].green].len

Same(m, n) == Position[m] = Position[n] /\ red[m].green = red[n].green /\ Offset[m] = Offset[n]
Deeper(m, n) == Len(Position[m]) < Len(Position[n]) /\ Below(red[n].green, red[m].green)
Apart(m, n) == End(m) <= Offset[n] \/ End(n) <= Offset[m]

Related(m, n) == Same(m, n) \/ Deeper(m, n) \/ Apart(m, n)

Comparable(m, n) ==
  /\ red[m] # FreeRed /\ red[n] # FreeRed
  /\ Head(Position[m]) = Head(Position[n])
  /\ Len(Position[m]) <= Len(Position[n])

(* Where a child is in its parent's text. *)
LEMMA ChildInside ==
  ASSUME TreeInv, GreenInv, Measured(heap), Quietly, NEW n \in Reds, red[n].parent # NULL
  PROVE  LET p == red[n].parent
             i == red[n].index
         IN  /\ p \in Reds /\ red[p] # FreeRed /\ red[n] # FreeRed
             /\ red[p].green \in Greens /\ red[n].green \in Greens
             /\ i \in Slots(heap, red[p].green) /\ i \in Nat
             /\ red[n].green = Kid(heap, red[p].green, i)
             /\ Offset[n] = Offset[p] + RelOffset(heap, red[p].green, i)
             /\ Offset[p] \in Nat /\ Offset[n] \in Nat
             /\ End(p) \in Nat /\ End(n) \in Nat
             /\ Offset[p] <= Offset[n] /\ End(n) <= End(p)
             /\ RelOffset(heap, red[p].green, i) \in Nat
<1>1. PICK p, i, g : p = red[n].parent /\ i = red[n].index /\ g = red[p].green
  OBVIOUS
<1>2. /\ p \in Reds /\ red[p] # FreeRed /\ red[n] # FreeRed
      /\ g \in Greens /\ red[n].green \in Greens
      /\ i \in Slots(heap, g)
      /\ red[n].green = Kid(heap, g, i)
  BY <1>1, QuietFacts
<1>3. Offset[n] = Offset[p] + RelOffset(heap, g, i) /\ Offset[p] \in Nat /\ Offset[n] \in Nat
  BY <1>1, <1>2, OffsetIs
<1>4. /\ RelOffset(heap, g, i) \in Nat /\ heap[red[n].green].len \in Nat
      /\ RelOffset(heap, g, i) + heap[red[n].green].len <= heap[g].len
  BY <1>2, KidsInOrder
<1>5. heap[g].len \in Nat
  BY <1>2 DEF Measured
<1>6. i \in Nat
  BY <1>2 DEF Slots
<1>7. PICK o \in Nat, e \in Nat, l \in Nat, w \in Nat :
        o = Offset[p] /\ e = RelOffset(heap, g, i) /\ l = heap[red[n].green].len /\ w = heap[g].len
  BY <1>3, <1>4, <1>5
<1>8. End(n) = o + e + l /\ End(p) = o + w /\ Offset[n] = o + e /\ e + l <= w
  BY <1>1, <1>3, <1>4, <1>7 DEF End
<1>9. End(p) \in Nat /\ End(n) \in Nat /\ Offset[p] <= Offset[n] /\ End(n) <= End(p)
  BY <1>7, <1>8
<1> QED BY <1>1, <1>2, <1>3, <1>4, <1>6, <1>9

(* Two children of nodes at one place. *)
LEMMA SiblingsRelated ==
  ASSUME TreeInv, GreenInv, Measured(heap), Quietly, NEW m \in Reds, NEW n \in Reds,
         red[m].parent # NULL, red[n].parent # NULL, Same(red[m].parent, red[n].parent)
  PROVE  Related(m, n)
<1>1. PICK p, q, i, j, g : /\ p = red[m].parent /\ q = red[n].parent
                           /\ i = red[m].index /\ j = red[n].index /\ g = red[p].green
  OBVIOUS
<1>2. /\ i \in Slots(heap, g) /\ i \in Nat /\ g \in Greens
      /\ red[m].green = Kid(heap, g, i) /\ Offset[m] = Offset[p] + RelOffset(heap, g, i)
      /\ Offset[p] \in Nat /\ RelOffset(heap, g, i) \in Nat /\ p \in Reds
  BY <1>1, ChildInside
<1>3. Offset[q] = Offset[p] /\ red[q].green = g /\ Position[q] = Position[p]
  BY <1>1 DEF Same
<1>4. /\ j \in Slots(heap, g) /\ j \in Nat
      /\ red[n].green = Kid(heap, g, j) /\ Offset[n] = Offset[p] + RelOffset(heap, g, j)
      /\ RelOffset(heap, g, j) \in Nat /\ q \in Reds
  BY <1>1, <1>3, ChildInside
<1>5. CASE i = j
  <2>1. Position[m] = Append(Position[p], i) /\ Position[n] = Append(Position[q], j)
    BY <1>1, PositionIs
  <2>2. Same(m, n)
    BY <1>2, <1>3, <1>4, <1>5, <2>1 DEF Same
  <2> QED BY <2>2 DEF Related
<1>6. /\ \A k \in Slots(heap, g) : i < k => RelOffset(heap, g, i) + heap[Kid(heap, g, i)].len <= RelOffset(heap, g, k)
      /\ \A k \in Slots(heap, g) : j < k => RelOffset(heap, g, j) + heap[Kid(heap, g, j)].len <= RelOffset(heap, g, k)
      /\ heap[Kid(heap, g, i)].len \in Nat /\ heap[Kid(heap, g, j)].len \in Nat
  BY <1>2, <1>4, KidsInOrder
<1>7. PICK o \in Nat, a \in Nat, b \in Nat, u \in Nat, v \in Nat :
        /\ o = Offset[p] /\ a = RelOffset(heap, g, i) /\ b = RelOffset(heap, g, j)
        /\ u = heap[Kid(heap, g, i)].len /\ v = heap[Kid(heap, g, j)].len
  BY <1>2, <1>4, <1>6
<1>8. /\ Offset[m] = o + a /\ Offset[n] = o + b /\ End(m) = o + a + u /\ End(n) = o + b + v
  BY <1>2, <1>4, <1>7 DEF End
<1>9. CASE i < j
  <2>1. a + u <= b
    BY <1>4, <1>6, <1>7, <1>9
  <2>2. End(m) <= Offset[n]
    BY <1>7, <1>8, <2>1
  <2> QED BY <2>2 DEF Related, Apart
<1>10. CASE j < i
  <2>1. b + v <= a
    BY <1>2, <1>6, <1>7, <1>10
  <2>2. End(n) <= Offset[m]
    BY <1>7, <1>8, <2>1
  <2> QED BY <2>2 DEF Related, Apart
<1> QED BY <1>2, <1>4, <1>5, <1>9, <1>10

(* By the length of the way down to the second red. *)
LEMMA AllRelated ==
  ASSUME TreeInv, GreenInv, Measured(heap), Quietly, NEW m \in Reds, NEW n \in Reds, Comparable(m, n)
  PROVE  Related(m, n)
<1> DEFINE Deep == {l \in Nat : \E x \in Reds, y \in Reds :
                      Comparable(x, y) /\ ~ Related(x, y) /\ l = Len(Position[y])}
<1>1. PICK D : D = Deep
  OBVIOUS
<1>2. D \subseteq Nat
  BY <1>1
<1>3. CASE D = {}
  <2>1. Len(Position[n]) \in Nat
    BY WayDown
  <2> QED BY <1>1, <1>3, <2>1
<1>4. CASE D # {}
  <2>1. PICK l \in D : \A k \in D : l <= k
    BY <1>2, <1>4, LeastNumber
  <2>2. PICK x \in Reds, y \in Reds : Comparable(x, y) /\ ~ Related(x, y) /\ l = Len(Position[y])
    BY <1>1, <2>1
  <2>3. ASSUME NEW u \in Reds, NEW v \in Reds, Comparable(u, v), Len(Position[v]) < l
        PROVE  Related(u, v)
    <3>1. Len(Position[v]) \in Nat
      BY WayDown
    <3>2. Len(Position[v]) \notin D
      BY <1>2, <2>1, <2>3, <3>1
    <3> QED BY <1>1, <2>3, <3>1, <3>2
  <2>4. /\ red[x] # FreeRed /\ red[y] # FreeRed /\ Head(Position[x]) = Head(Position[y])
        /\ Len(Position[x]) <= Len(Position[y])
        /\ Len(Position[x]) \in Nat /\ Len(Position[y]) \in Nat
        /\ Len(Position[x]) >= 1 /\ Len(Position[y]) >= 1
    BY <2>2, WayDown DEF Comparable
  <2>5. CASE red[y].parent = NULL
    <3>1. Len(Position[y]) = 1 /\ Head(Position[y]) = y
      BY <2>5, WayDown
    <3>2. red[x].parent = NULL
      BY <2>4, <3>1, WayDown
    <3>3. x = y
      BY <2>4, <3>1, <3>2, WayDown
    <3> QED BY <2>2, <3>3 DEF Related, Same
  <2>6. CASE red[y].parent # NULL
    <3>1. PICK q, j, g : q = red[y].parent /\ j = red[y].index /\ g = red[q].green
      OBVIOUS
    <3>2. /\ q \in Reds /\ red[q] # FreeRed /\ g \in Greens /\ j \in Slots(heap, g)
          /\ red[y].green = Kid(heap, g, j)
          /\ Offset[q] <= Offset[y] /\ End(y) <= End(q)
          /\ Offset[q] \in Nat /\ Offset[y] \in Nat /\ End(q) \in Nat /\ End(y) \in Nat
      BY <2>6, <3>1, ChildInside
    <3>3. /\ Len(Position[y]) = Len(Position[q]) + 1 /\ Head(Position[y]) = Head(Position[q])
          /\ Len(Position[q]) \in Nat /\ Len(Position[q]) >= 1
      BY <2>6, <3>1, WayDown
    <3>4. Offset[x] \in Nat /\ End(x) \in Nat
      <4>1. red[x].green \in Greens
        BY <2>4 DEF GreenInv, GreenSet
      <4>2. Offset[x] \in Nat /\ heap[red[x].green].len \in Nat
        BY <4>1, OffsetIs DEF Measured
      <4> QED BY <4>2 DEF End
    <3>5. CASE Len(Position[x]) < Len(Position[y])
      <4>1. Related(x, q)
        BY <2>2, <2>3, <2>4, <3>2, <3>3, <3>5 DEF Comparable
      <4>2. CASE Same(x, q)
        <5>1. red[x].green = g
          BY <3>1, <4>2 DEF Same
        <5>2. Below(red[y].green, red[x].green)
          BY <3>2, <5>1, KidIsBelow DEF GreenInv, Stored
        <5> QED BY <2>2, <3>5, <5>2 DEF Related, Deeper
      <4>3. CASE Deeper(x, q)
        <5>1. Below(g, red[x].green)
          BY <3>1, <4>3 DEF Deeper
        <5>2. Below(red[y].green, red[x].green)
          BY <3>2, <5>1, KidIsBelow DEF GreenInv, Stored
        <5> QED BY <2>2, <3>5, <5>2 DEF Related, Deeper
      <4>4. CASE Apart(x, q)
        <5>1. Apart(x, y)
          BY <3>2, <3>4, <4>4 DEF Apart
        <5> QED BY <2>2, <5>1 DEF Related
      <4> QED BY <4>1, <4>2, <4>3, <4>4 DEF Related
    <3>6. CASE Len(Position[x]) = Len(Position[y])
      <4>1. red[x].parent # NULL
        <5>1. red[x].parent = NULL => Len(Position[x]) = 1
          BY WayDown
        <5>2. Len(Position[x]) # 1
          BY <2>4, <3>3, <3>6
        <5> QED BY <5>1, <5>2
      <4>2. PICK p : p = red[x].parent
        OBVIOUS
      <4>3. /\ p \in Reds /\ red[p] # FreeRed
            /\ Offset[p] <= Offset[x] /\ End(x) <= End(p)
            /\ Offset[p] \in Nat /\ End(p) \in Nat
        BY <4>1, <4>2, ChildInside
      <4>4. /\ Len(Position[x]) = Len(Position[p]) + 1 /\ Head(Position[x]) = Head(Position[p])
            /\ Len(Position[p]) \in Nat
        BY <4>1, <4>2, WayDown
      <4>5. Len(Position[p]) = Len(Position[q])
        BY <3>3, <3>6, <4>4
      <4>6. Comparable(p, q) /\ Len(Position[q]) < l
        BY <2>2, <2>4, <3>2, <3>3, <4>3, <4>4, <4>5 DEF Comparable
      <4>7. Related(p, q)
        BY <2>3, <3>2, <4>3, <4>6
      <4>8. CASE Same(p, q)
        BY <2>2, <2>6, <3>1, <4>1, <4>2, <4>8, SiblingsRelated
      <4>9. ~ Deeper(p, q)
        BY <4>4, <4>5 DEF Deeper
      <4>10. CASE Apart(p, q)
        <5>1. Apart(x, y)
          BY <3>2, <3>4, <4>3, <4>10 DEF Apart
        <5> QED BY <2>2, <5>1 DEF Related
      <4> QED BY <4>7, <4>8, <4>9, <4>10 DEF Related
    <3> QED BY <2>4, <3>5, <3>6
  <2> QED BY <2>5, <2>6
<1> QED BY <1>3, <1>4

(* The offset cached in an immutable red is the one of its position. *)
LEMMA CachedIsOffset ==
  ASSUME TreeInv, GreenInv, Measured(heap), OffsetInv, Quietly, NEW n \in Reds, red[n] # FreeRed
  PROVE  Key(n) = <<red[n].green, Offset[n]>>
<1> DEFINE Bad == {x \in Reds : red[x] # FreeRed /\ ~ red[x].mutable /\ red[x].offset # Offset[x]}
<1>1. Bad = {}
  <2> SUFFICES ASSUME Bad # {} PROVE FALSE
    OBVIOUS
  <2>1. PICK x \in Bad : red[x].parent \notin Bad
    BY TreeIsForested DEF Forested, Acyclic
  <2>2. x \in Reds /\ red[x] # FreeRed /\ ~ red[x].mutable /\ red[x].offset # Offset[x]
    BY <2>1
  <2>3. Placed(x)
    BY <2>2 DEF OffsetInv
  <2>4. CASE red[x].parent = NULL
    BY <2>2, <2>3, <2>4, OffsetIs DEF Placed
  <2>5. CASE red[x].parent # NULL
    <3>1. PICK p : p = red[x].parent
      OBVIOUS
    <3>2. p \in Reds /\ red[p] # FreeRed
      BY <2>2, <2>5, <3>1, QuietFacts
    <3>3. ~ red[p].mutable
      BY <2>2, <2>5, <3>1, TreeIsForested DEF Forested, Uniform
    <3>4. red[p].offset = Offset[p]
      BY <2>1, <3>1, <3>2, <3>3
    <3>5. Offset[x] = Offset[p] + RelOffset(heap, red[p].green, red[x].index)
      BY <2>2, <2>5, <3>1, OffsetIs
    <3> QED BY <2>2, <2>3, <2>5, <3>1, <3>4, <3>5 DEF Placed
  <2> QED BY <2>4, <2>5
<1> QED BY <1>1 DEF Key

(* Equal keys leave only one way to be related. *)
LEMMA KeysTell ==
  ASSUME TreeInv, GreenInv, Measured(heap), Rooted(heap), OffsetInv, Quietly,
         NEW m \in Live, NEW n \in Live, Key(m) = Key(n), heap[red[n].green].len > 0,
         Head(Position[m]) = Head(Position[n])
  PROVE  Position[m] = Position[n]
<1>1. m \in Reds /\ n \in Reds /\ red[m] # FreeRed /\ red[n] # FreeRed
  BY LiveIsTaken DEF Live
<1>2. red[m].green = red[n].green /\ Offset[m] = Offset[n] /\ red[n].green \in Greens
  <2>1. <<red[m].green, Offset[m]>> = <<red[n].green, Offset[n]>>
    BY <1>1, CachedIsOffset
  <2>2. red[n].green \in Greens
    BY <1>1 DEF GreenInv, GreenSet
  <2> QED BY <2>1, <2>2
<1>3. Len(Position[m]) \in Nat /\ Len(Position[n]) \in Nat
  BY <1>1, WayDown
<1>4. Related(m, n) \/ Related(n, m)
  <2>1. Comparable(m, n) \/ Comparable(n, m)
    BY <1>1, <1>3 DEF Comparable
  <2> QED BY <1>1, <2>1, AllRelated
<1>5. ~ Deeper(m, n) /\ ~ Deeper(n, m)
  BY <1>2, NotBelowItself DEF Deeper, GreenInv, Stored
<1>6. ~ Apart(m, n) /\ ~ Apart(n, m)
  <2>1. Offset[n] \in Nat /\ heap[red[n].green].len \in Nat
    BY <1>1, <1>2, OffsetIs DEF Measured
  <2>2. End(n) > Offset[n] /\ End(m) = End(n) /\ Offset[m] = Offset[n] /\ End(n) \in Nat
    BY <1>2, <2>1 DEF End
  <2> QED BY <2>1, <2>2 DEF Apart
<1>7. Same(m, n) \/ Same(n, m)
  BY <1>4, <1>5, <1>6 DEF Related
<1> QED BY <1>7 DEF Same

(***************************************************************************)
(* Two NodeDatas of one tree that compare equal - the same green element   *)
(* at the same offset - and have text are at the same position in it,      *)
(* however often the tree shares its subtrees and whatever was edited: the *)
(* "identity semantics" of Eq and Hash of SyntaxNode and SyntaxToken       *)
(* (cursor.rs).                                                            *)
(***************************************************************************)
THEOREM EqualIsIdentical == Spec => []EqTellsApart
<1>1. TreeInv /\ GreenInv => ParentsTaken
  BY ParentHasGreen DEF GreenInv, ParentsTaken
<1>2. /\ TreeInv /\ GreenInv /\ StolenMutable /\ OffsetInv
      /\ TreeInv' /\ ParentsTaken' /\ [Next]_vars
      => StolenMutable' /\ OffsetInv'
  BY StolenStep, OffsetStep
<1>3. /\ TreeInv /\ GreenInv /\ Rooted(heap) /\ TreeInv' /\ GreenInv' /\ [Next]_vars
      => Rooted(heap)'
  BY StaysRooted
<1>4. TreeInv /\ GreenInv /\ GreenInv' /\ Measured(heap) /\ [Next]_vars => Measured(heap)'
  BY StaysMeasured
<1>5. TreeInv /\ GreenInv /\ Measured(heap) /\ Rooted(heap) /\ OffsetInv => EqTellsApart
  BY KeysTell DEF EqTellsApart, Quietly
<1> QED BY <1>1, <1>2, <1>3, <1>4, <1>5, InitCursor, InitExact, InitMeasured, StepCursor, PTL DEF Spec
=============================================================================

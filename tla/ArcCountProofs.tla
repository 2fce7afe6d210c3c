--------------------------- MODULE ArcCountProofs ---------------------------
(***************************************************************************)
(* The object is freed once, when no Arc is left, and after every access   *)
(* to it, for any number of threads, Arcs and accesses.                    *)
(***************************************************************************)
EXTENDS ArcCount, FiniteSetTheorems, TLAPS

Stages == {"out", "load", "slow"}

ArcType ==
  /\ holder \in [Handles -> Threads \cup {Nobody}]
  /\ count \in Int
  /\ published \subseteq Accesses
  /\ seen \in [Threads -> SUBSET Accesses]
  /\ stage \in [Threads -> Stages]
  /\ freed \in BOOLEAN

(* The destructor has begun only if no Arc is left, and on one thread. *)
OneDropper ==
  /\ freed => Alive = {}
  /\ \A t \in Threads : stage[t] # "out" =>
       /\ Alive = {}
       /\ ~freed
       /\ \A u \in Threads : stage[u] # "out" => u = t

(* Every access was published, or a thread that still has an Arc has seen it. *)
Accounted == \A a \in made : a \in published \/ \E h \in Alive : a \in seen[holder[h]]

Caught == \A t \in Threads : stage[t] = "slow" => published \subseteq seen[t]

ArcInv == ArcType /\ CountExact /\ OneDropper /\ Accounted /\ Caught

LEMMA AliveFinite == IsFiniteSet(Alive)
<1>1. Alive \subseteq Handles
  BY DEF Alive
<1> QED
  BY <1>1, HandlesAssumption, FS_Subset

(* As long as an Arc is left, no thread is in the destructor. *)
LEMMA NoDropper ==
  ASSUME ArcInv, Alive # {}
  PROVE  ~freed /\ \A t \in Threads : stage[t] = "out"
BY DEF ArcInv, OneDropper

LEMMA HolderAlive ==
  ASSUME ArcInv, NEW t \in Threads, NEW h \in Handles, holder[h] = t
  PROVE  h \in Alive
BY ThreadsAssumption DEF Alive

LEMMA InitArc == Init => ArcInv
<1> SUFFICES ASSUME Init PROVE ArcInv
  OBVIOUS
<1>1. PICK h \in Handles, t \in Threads :
        holder = [g \in Handles |-> IF g = h THEN t ELSE Nobody]
  BY DEF Init
<1>2. Alive = {h}
  BY <1>1, ThreadsAssumption DEF Alive
<1>3. CountExact
  BY <1>2, FS_Singleton DEF Init, CountExact
<1>4. ArcType
  <2>1. holder \in [Handles -> Threads \cup {Nobody}]
    BY <1>1
  <2>2. count \in Int /\ published \subseteq Accesses
    BY DEF Init
  <2>3. freed \in BOOLEAN
    BY Zenon DEF Init
  <2>4. seen \in [Threads -> SUBSET Accesses]
    BY DEF Init
  <2>5. stage \in [Threads -> Stages]
    BY DEF Init, Stages
  <2> QED
    BY <2>1, <2>2, <2>3, <2>4, <2>5 DEF ArcType
<1>5. OneDropper /\ Accounted /\ Caught
  BY DEF Init, OneDropper, Accounted, Caught
<1> QED
  BY <1>3, <1>4, <1>5 DEF ArcInv

LEMMA AccessKeeps ==
  ASSUME ArcInv, NEW t \in Threads, NEW a \in Accesses, Access(t, a)
  PROVE  ArcInv'
<1>1. PICK h \in Alive : holder[h] = t
  BY DEF Access, Holders
<1>2. Alive' = Alive /\ Alive # {}
  BY <1>1 DEF Access, Alive
<1>3. ArcType'
  BY DEF Access, ArcInv, ArcType
<1>4. CountExact' /\ OneDropper'
  BY <1>2 DEF Access, ArcInv, CountExact, OneDropper
<1>5. \A u \in Threads : seen[u] \subseteq seen'[u]
  BY DEF Access, ArcInv, ArcType
<1>6. a \in seen'[t]
  BY DEF Access, ArcInv, ArcType
<1>7. Accounted'
  <2> SUFFICES ASSUME NEW b \in made', b \notin published
               PROVE  \E g \in Alive : b \in seen'[holder[g]]
    BY <1>2 DEF Access, Accounted
  <2>1. CASE b = a
    BY <2>1, <1>1, <1>6
  <2>2. CASE b \in made
    <3>1. PICK g \in Alive : b \in seen[holder[g]]
      BY <2>2 DEF ArcInv, Accounted
    <3>2. holder[g] \in Threads
      BY <3>1 DEF ArcInv, ArcType, Alive
    <3> QED
      BY <3>1, <3>2, <1>5
  <2> QED
    BY <2>1, <2>2 DEF Access
<1>8. Caught'
  BY <1>5 DEF Access, ArcInv, Caught
<1> QED
  BY <1>3, <1>4, <1>7, <1>8 DEF ArcInv

LEMMA CloneKeeps ==
  ASSUME ArcInv, NEW t \in Threads, NEW h \in Handles, Clone(t, h)
  PROVE  ArcInv'
<1>1. Alive # {} /\ h \notin Alive
  BY DEF Clone, Holders
<1>2. Alive' = Alive \cup {h}
  BY ThreadsAssumption DEF Clone, Alive, ArcInv, ArcType
<1>3. ArcType'
  BY DEF Clone, Incremented, ArcInv, ArcType
<1>4. CountExact'
  BY <1>1, <1>2, AliveFinite, FS_AddElement DEF Clone, Incremented, ArcInv, CountExact
<1>5. OneDropper' /\ Caught'
  BY <1>1, NoDropper DEF Clone, OneDropper, Caught
<1>6. \A g \in Alive : g \in Alive' /\ holder'[g] = holder[g]
  BY <1>1, <1>2 DEF Clone, ArcInv, ArcType, Alive
<1>7. Accounted'
  BY <1>6 DEF Clone, ArcInv, Accounted
<1> QED
  BY <1>3, <1>4, <1>5, <1>7 DEF ArcInv

LEMMA SendKeeps ==
  ASSUME ArcInv, NEW t \in Threads, NEW u \in Threads \ {t}, NEW h \in Handles, Send(h, t, u)
  PROVE  ArcInv'
<1>1. h \in Alive
  BY HolderAlive DEF Send
<1>2. Alive' = Alive
  BY <1>1, ThreadsAssumption DEF Send, Alive, ArcInv, ArcType
<1>3. ArcType'
  BY DEF Send, ArcInv, ArcType
<1>4. CountExact' /\ OneDropper'
  BY <1>2 DEF Send, ArcInv, CountExact, OneDropper
<1>5. \A v \in Threads : seen[v] \subseteq seen'[v]
  BY DEF Send, ArcInv, ArcType
<1>6. holder'[h] = u /\ seen[t] \subseteq seen'[u]
  BY DEF Send, ArcInv, ArcType
<1>7. Accounted'
  <2> SUFFICES ASSUME NEW a \in made, a \notin published
               PROVE  \E g \in Alive : a \in seen'[holder'[g]]
    BY <1>2 DEF Send, Accounted
  <2>1. PICK g \in Alive : a \in seen[holder[g]]
    BY DEF ArcInv, Accounted
  <2>2. CASE g = h
    BY <2>1, <2>2, <1>1, <1>6 DEF Send
  <2>3. CASE g # h
    <3>1. holder'[g] = holder[g] /\ holder[g] \in Threads
      BY <2>1, <2>3 DEF Send, ArcInv, ArcType, Alive
    <3> QED
      BY <2>1, <3>1, <1>5
  <2> QED
    BY <2>2, <2>3
<1>8. Caught'
  BY <1>5 DEF Send, ArcInv, Caught
<1> QED
  BY <1>3, <1>4, <1>7, <1>8 DEF ArcInv

LEMMA DecrementKeeps ==
  ASSUME ArcInv, NEW t \in Threads, NEW h \in Handles, Decrement(h, t)
  PROVE  ArcInv'
<1>1. h \in Alive
  BY HolderAlive DEF Decrement
<1>2. Alive' = Alive \ {h}
  BY DEF Decrement, Alive, ArcInv, ArcType
<1>3. ArcType'
  BY DEF Decrement, Publish, ArcInv, ArcType, Stages
<1>4. /\ Cardinality(Alive) \in Nat
      /\ Cardinality(Alive \ {h}) = Cardinality(Alive) - 1
      /\ IsFiniteSet(Alive \ {h})
  BY <1>1, AliveFinite, FS_RemoveElement, FS_CardinalityType
<1>5. CountExact'
  BY <1>2, <1>4 DEF Decrement, ArcInv, CountExact
<1>6. ~freed /\ \A v \in Threads : stage[v] = "out"
  BY <1>1, NoDropper
<1>7. count = 1 => Alive' = {}
  BY <1>2, <1>4, FS_EmptySet DEF ArcInv, CountExact
<1>8. \A v \in Threads : stage'[v] # "out" => v = t /\ count = 1
  BY <1>6 DEF Decrement, OldIsOne, ArcInv, ArcType
<1>9. OneDropper'
  BY <1>6, <1>7, <1>8 DEF Decrement, OneDropper
<1>10. Accounted'
  <2> SUFFICES ASSUME NEW a \in made, a \notin published \cup seen[t]
               PROVE  \E g \in Alive' : a \in seen[holder'[g]]
    BY DEF Decrement, Publish, Accounted
  <2>1. PICK g \in Alive : a \in seen[holder[g]]
    BY DEF ArcInv, Accounted
  <2>2. g # h
    BY <2>1 DEF Decrement
  <2>3. holder'[g] = holder[g]
    BY <2>1, <2>2 DEF Decrement, ArcInv, ArcType, Alive
  <2> QED
    BY <2>1, <2>2, <2>3, <1>2
<1>11. Caught'
  BY <1>6 DEF Decrement, Caught, ArcInv, ArcType
<1> QED
  BY <1>3, <1>5, <1>9, <1>10, <1>11 DEF ArcInv

LEMMA LoadKeeps ==
  ASSUME ArcInv, NEW t \in Threads, Load(t)
  PROVE  ArcInv'
<1>1. Alive' = Alive
  BY DEF Load, Alive
<1>2. ArcType' /\ Accounted' /\ CountExact'
  <2>1. Alive = {} /\ made \subseteq published
    BY DEF Load, ArcInv, OneDropper, Accounted
  <2>2. ArcType'
    BY DEF Load, Acquired, ArcInv, ArcType, Stages
  <2> QED
    BY <1>1, <2>1, <2>2 DEF Load, ArcInv, Accounted, CountExact
<1>3. OneDropper'
  BY <1>1 DEF Load, ArcInv, ArcType, OneDropper
<1>4. Caught'
  BY DEF Load, Acquired, ArcInv, ArcType, OneDropper, Caught
<1> QED
  BY <1>2, <1>3, <1>4 DEF ArcInv

LEMMA DropSlowKeeps ==
  ASSUME ArcInv, NEW t \in Threads, DropSlow(t)
  PROVE  ArcInv'
<1>1. Alive' = Alive /\ Alive = {}
  BY DEF DropSlow, Alive, ArcInv, OneDropper
<1>2. \A v \in Threads : stage'[v] = "out"
  BY DEF DropSlow, ArcInv, ArcType, OneDropper
<1>3. ArcType'
  BY DEF DropSlow, ArcInv, ArcType, Stages
<1>4. CountExact' /\ Accounted'
  BY <1>1 DEF DropSlow, ArcInv, CountExact, Accounted
<1>5. OneDropper' /\ Caught'
  BY <1>1, <1>2 DEF OneDropper, Caught
<1> QED
  BY <1>3, <1>4, <1>5 DEF ArcInv

LEMMA ArcInvariant == Spec => []ArcInv
<1>1. ArcInv /\ [Next]_vars => ArcInv'
  <2> SUFFICES ASSUME ArcInv, [Next]_vars PROVE ArcInv'
    OBVIOUS
  <2>1. CASE UNCHANGED vars
    BY <2>1 DEF vars, ArcInv, ArcType, CountExact, OneDropper, Accounted, Caught, Alive
  <2> QED
    BY <2>1, AccessKeeps, CloneKeeps, SendKeeps, DecrementKeeps, LoadKeeps, DropSlowKeeps DEF Next
<1> QED
  BY <1>1, InitArc, PTL DEF Spec

(***************************************************************************)
(* The count of an Arc is exact under every interleaving of the threads.   *)
(***************************************************************************)
THEOREM CountIsExact == Spec => []CountExact
<1>1. ArcInv => CountExact
  BY DEF ArcInv
<1> QED
  BY <1>1, ArcInvariant, PTL

(***************************************************************************)
(* The destructor runs after every access of every thread: the Release     *)
(* decrements and the Acquire load of Drop leave no data race.             *)
(***************************************************************************)
THEOREM FreedAfterEveryAccess == Spec => []FreedLast
<1>1. ArcInv => FreedLast
  BY DEF ArcInv, OneDropper, Accounted, Caught, FreedLast
<1> QED
  BY <1>1, ArcInvariant, PTL

(***************************************************************************)
(* The destructor runs once.                                               *)
(***************************************************************************)
THEOREM FreedOnlyOnce == Spec => []FreedOnce
<1>1. ArcInv => FreedOnce
  BY DEF ArcInv, OneDropper, FreedOnce
<1> QED
  BY <1>1, ArcInvariant, PTL
=============================================================================

------------------------------ MODULE ArcCount ------------------------------
(***************************************************************************)
(* One object owned by Arcs of several threads (arc.rs).  Green elements   *)
(* are sent and shared between threads; their counts are atomic, but only  *)
(* the orderings of the atomic operations make the accesses of one thread  *)
(* happen before the destructor another thread runs.                       *)
(*                                                                         *)
(* Happens-before is kept as what each thread has seen: `seen[t]` are the  *)
(* accesses that happen before the present of thread t.  A Release         *)
(* operation on the count publishes what its thread has seen; all writes   *)
(* of the count are read-modify-writes, which continue the release         *)
(* sequence, so that an Acquire load sees all that was published.          *)
(***************************************************************************)
EXTENDS Integers, FiniteSets

CONSTANTS
  Threads,
  Handles,  \* Arcs, alive or not
  Accesses, \* reads of the object through an Arc, a bound
  Nobody    \* the holder of an Arc that is not alive

ASSUME ThreadsAssumption == Nobody \notin Threads

ASSUME HandlesAssumption == IsFiniteSet(Handles)

VARIABLES
  holder,    \* the thread an Arc belongs to
  count,     \* ArcInner::count
  published, \* what the release sequence on the count carries
  seen,      \* what happens before the present of each thread
  made,      \* the accesses made so far
  stage,     \* where a thread is in Drop::drop: "out", "load" or "slow"
  freed      \* drop_slow has run

vars == <<holder, count, published, seen, made, stage, freed>>

Alive == {h \in Handles : holder[h] # Nobody}
Holders == {holder[h] : h \in Alive}

(* A new object has one Arc. *)
Init ==
  /\ \E h \in Handles, t \in Threads :
       holder = [g \in Handles |-> IF g = h THEN t ELSE Nobody]
  /\ count = 1
  /\ published = {}
  /\ seen = [t \in Threads |-> {}]
  /\ made = {}
  /\ stage = [t \in Threads |-> "out"]
  /\ freed = FALSE

------------------------------------------------------------------------------
(* A thread between two operations. *)
Outside(t) == stage[t] = "out"

(* Deref: the object is read. *)
Access(t, a) ==
  /\ Outside(t)
  /\ t \in Holders
  /\ a \in Accesses \ made
  /\ made' = made \cup {a}
  /\ seen' = [seen EXCEPT ![t] = @ \cup {a}]
  /\ UNCHANGED <<holder, count, published, stage, freed>>

(* Mutant: the count is loaded and stored, and another increment comes between. *)
LostIncrement == count

Incremented == count + 1

(* Clone: a Relaxed increment, which publishes nothing. *)
Clone(t, h) ==
  /\ Outside(t)
  /\ t \in Holders
  /\ h \notin Alive
  /\ count' = Incremented
  /\ holder' = [holder EXCEPT ![h] = t]
  /\ UNCHANGED <<published, seen, made, stage, freed>>

(* An Arc is sent to another thread, by a channel or a lock that synchronizes. *)
Send(h, t, u) ==
  /\ Outside(t) /\ Outside(u)
  /\ holder[h] = t
  /\ holder' = [holder EXCEPT ![h] = u]
  /\ seen' = [seen EXCEPT ![u] = @ \cup seen[t]]
  /\ UNCHANGED <<count, published, made, stage, freed>>

(* Mutant: the decrement is Relaxed. *)
PublishNothing(t) == published

(* The Release decrement publishes what its thread has seen. *)
Publish(t) == published \cup seen[t]

(* Mutant: the last Arc is recognized by the new value being one. *)
OldIsTwo == count = 2

OldIsOne == count = 1

(* Drop, up to the test of the old count. *)
Decrement(h, t) ==
  /\ Outside(t)
  /\ holder[h] = t
  /\ holder' = [holder EXCEPT ![h] = Nobody]
  /\ count' = count - 1
  /\ published' = Publish(t)
  /\ stage' = [stage EXCEPT ![t] = IF OldIsOne THEN "load" ELSE "out"]
  /\ UNCHANGED <<seen, made, freed>>

Acquired(t) == seen[t] \cup published

(* The Acquire load of the count before the destructor. *)
Load(t) ==
  /\ stage[t] = "load"
  /\ seen' = [seen EXCEPT ![t] = Acquired(t)]
  /\ stage' = [stage EXCEPT ![t] = "slow"]
  /\ UNCHANGED <<holder, count, published, made, freed>>

DropSlow(t) ==
  /\ stage[t] = "slow"
  /\ freed' = TRUE
  /\ stage' = [stage EXCEPT ![t] = "out"]
  /\ UNCHANGED <<holder, count, published, seen, made>>

Next ==
  \E t \in Threads :
    \/ \E a \in Accesses : Access(t, a)
    \/ \E h \in Handles : Clone(t, h)
    \/ \E h \in Handles, u \in Threads \ {t} : Send(h, t, u)
    \/ \E h \in Handles : Decrement(h, t)
    \/ Load(t)
    \/ DropSlow(t)

(* A drop that began goes on. *)
Fairness == \A t \in Threads : WF_vars(Load(t)) /\ WF_vars(DropSlow(t))

Spec == Init /\ [][Next]_vars
FairSpec == Spec /\ Fairness

------------------------------------------------------------------------------
(***************************************************************************)
(* Properties.                                                             *)
(***************************************************************************)
(* The count is the number of Arcs, in the face of any interleaving. *)
CountExact == count = Cardinality(Alive)

(***************************************************************************)
(* The destructor runs only when no Arc is left and after every access of  *)
(* every thread: there is no data race between a read and the free.        *)
(***************************************************************************)
FreedLast ==
  \A t \in Threads : stage[t] = "slow" => Alive = {} /\ made \subseteq seen[t]

(* The destructor runs once: one thread at most is in the slow path, and none is after it. *)
FreedOnce ==
  \A t, u \in Threads :
    stage[t] # "out" => ~freed /\ (stage[u] # "out" => t = u)

(* An object without Arcs is freed, if drops that began go on. *)
Reclaimed == (Alive = {}) ~> freed
=============================================================================

------------------------------ MODULE TreeWalk ------------------------------
(***************************************************************************)
(* Preorder and PreorderWithTokens (cursor.rs): walks over the subtree of  *)
(* a node, in place of a loop over its children.  Between two events the   *)
(* client may call skip_subtree and, in a mutable tree, detach the element *)
(* of the event or another one.                                            *)
(***************************************************************************)
EXTENDS ChildLoop

CONSTANT MaxSkips   \* bound on the calls of skip_subtree

VARIABLE
  walk   \* kinds: what the walk yields; enters: the sort of the event in NextVar;
         \* skip: skip_subtree was called; skips: how often it was;
         \* early: it was before the first event;
         \* parted: an element was detached that the walk had not left

walkVars == <<vars, loopVars, walk>>

NoWalk == [kinds |-> {}, enters |-> FALSE, skip |-> FALSE, skips |-> 0,
           early |-> FALSE, parted |-> FALSE]

WalkInit == LoopInit /\ walk = NoWalk

Event(enters, n) == [enters |-> enters, kind |-> heap[red[n].green].kind]

(* The events of a walk nobody disturbs. *)
Whole(n, K) ==
  LET events[g \in Greens] ==
        LET kids == Those(heap[g].kids, K)
        IN  <<[enters |-> TRUE, kind |-> heap[g].kind]>>
            \o FlattenSeq([i \in DOMAIN kids |-> events[kids[i]]])
            \o <<[enters |-> FALSE, kind |-> heap[g].kind]>>
  IN  events[red[n].green]

(* preorder, preorder_with_tokens: `start` is kept in ParentVar, the next event in NextVar. *)
Begin(h, K) ==
  LET n == handle[h]
  IN  /\ Goto("iterator", "walk")
      /\ User
      /\ n # NULL /\ IsNode(n)
      /\ red' = [red EXCEPT ![n].rc = @ + 2]
      /\ handle' = [handle EXCEPT ![ParentVar] = n, ![NextVar] = n]
      /\ walk' = [NoWalk EXCEPT !.kinds = K, !.enters = TRUE]
      /\ expected' = Whole(n, K)
      /\ UNCHANGED <<heap, kept, spine, dying, drops, todo, stolen, forgotten, edits, loop, visited>>

SkipSubtree ==
  /\ pc = "walk"
  /\ User
  /\ walk.skips < MaxSkips
  /\ walk' = [walk EXCEPT !.skip = TRUE, !.skips = @ + 1, !.early = @ \/ (visited = <<>>)]
  /\ UNCHANGED <<vars, loopVars>>

(***************************************************************************)
(* Iterator::next.  do_skip: an element about to be entered is left out    *)
(* with its siblings, and the element above it is left instead.            *)
(***************************************************************************)
Upcoming == handle[NextVar]
Skipping == pc = "walk" /\ walk.skip /\ User /\ pc' = "skipped"

(* Mutant: the element above is left although the event leaves one already. *)
GoesUpAlways == Upcoming # NULL

GoesUp == Upcoming # NULL /\ walk.enters

(* Mutant: only the element itself is left out, as if it had been entered. *)
LandOnItself(n) == n

Land(n) == red[n].parent

SkipUp ==
  LET n == Upcoming
  IN  /\ Skipping
      /\ GoesUp
      /\ red[n].parent # NULL
      /\ handle' = [handle EXCEPT ![NextVar] = Land(n)]
      /\ Release([red EXCEPT ![Land(n)].rc = @ + 1], n)
      /\ walk' = [walk EXCEPT !.enters = FALSE, !.skip = FALSE]
      /\ UNCHANGED <<heap, kept, spine, drops, todo, stolen, forgotten, edits, loop, expected, visited>>

SkipNothing ==
  /\ Skipping
  /\ ~ GoesUp
  /\ walk' = [walk EXCEPT !.skip = FALSE]
  /\ UNCHANGED <<vars, loop, expected, visited>>

(* parent().unwrap() on an element that has none. *)
SkipPanic ==
  /\ Goto("walk", "panicked")
  /\ walk.skip /\ User
  /\ GoesUp
  /\ red[Upcoming].parent = NULL
  /\ UNCHANGED <<vars, loop, expected, visited, walk>>

(***************************************************************************)
(* The event is handed to the client, and the one after it is looked up:   *)
(* c is its element, r the reds with the new reference to it.              *)
(***************************************************************************)
Asked == (pc = "skipped" \/ (pc = "walk" /\ ~ walk.skip)) /\ Upcoming # NULL
Entering == Asked /\ walk.enters
Exiting == Asked /\ ~ walk.enters

Hand(r, c, enters) ==
  /\ pc' = "event"
  /\ User
  /\ red' = r
  /\ handle' = [handle EXCEPT ![ItemVar] = Upcoming, ![NextVar] = c]
  /\ visited' = Append(visited, Event(walk.enters, Upcoming))
  /\ walk' = [walk EXCEPT !.enters = enters]
  /\ UNCHANGED <<heap, kept, spine, dying, drops, todo, stolen, forgotten, edits, loop, expected>>

Again(n) == [red EXCEPT ![n].rc = @ + 1]

EnterChild ==
  /\ Entering
  /\ IsNode(Upcoming)
  /\ \E i \in Lowest(Wanted(Upcoming, walk.kinds)), c \in Reds :
       IsChild(Upcoming, i, c) /\ Hand(WithChild(Upcoming, i, c), c, TRUE)

EnterLeaf ==
  /\ Entering
  /\ Wanted(Upcoming, walk.kinds) = {}
  /\ Hand(Again(Upcoming), Upcoming, FALSE)

(* Mutant: the walk goes on to the siblings of its start. *)
NeverStart(n) == FALSE

(* node == &self.start compares the green element and the offset. *)
IsStart(n) == Key(n) = Key(handle[ParentVar])

LeaveStart == Exiting /\ IsStart(Upcoming) /\ Hand(red, NULL, FALSE)

Leaving == Exiting /\ ~ IsStart(Upcoming)

LeaveToSibling ==
  /\ Leaving
  /\ \E i \in Lowest(After(Upcoming, walk.kinds)), c \in Reds :
       LET p == red[Upcoming].parent
       IN  IsChild(p, i, c) /\ Hand(WithChild(p, i, c), c, TRUE)

LeaveToParent ==
  /\ Leaving
  /\ After(Upcoming, walk.kinds) = {}
  /\ red[Upcoming].parent # NULL
  /\ Hand(Again(red[Upcoming].parent), red[Upcoming].parent, FALSE)

(* A detached element: parent()? ends the walk. *)
LeaveRoot ==
  /\ Leaving
  /\ red[Upcoming].parent = NULL
  /\ Hand(red, NULL, FALSE)

Over ==
  /\ \/ Goto("walk", "over") /\ ~ walk.skip
     \/ Goto("skipped", "over")
  /\ User
  /\ Upcoming = NULL
  /\ Drop(ParentVar)
  /\ UNCHANGED <<loop, expected, visited, walk>>

(***************************************************************************)
(* The client.                                                             *)
(***************************************************************************)
EventDetach ==
  /\ Goto("event", "end of event")
  /\ Detach(ItemVar)
  /\ walk' = [walk EXCEPT !.parted = @ \/ Last(visited).enters]
  /\ UNCHANGED <<loop, expected, visited>>

(* Another element, wherever the walk stands. *)
EventDetachOther(h) ==
  /\ Goto("event", "event")
  /\ Detach(h)
  /\ walk' = [walk EXCEPT !.parted = TRUE]
  /\ UNCHANGED <<loop, expected, visited>>

EventKeep(h) ==
  /\ Goto("event", "walk")
  /\ Keep(h)
  /\ UNCHANGED <<loop, expected, visited, walk>>

EventDrop ==
  /\ Goto("event", "walk") \/ Goto("end of event", "walk")
  /\ User
  /\ Drop(ItemVar)
  /\ UNCHANGED <<loop, expected, visited, walk>>

WalkNext ==
  \/ LoopNext /\ UNCHANGED walk
  \/ \E h \in KeptVars \cup {NodeVar}, K \in {NodeKinds, Kinds} : Begin(h, K)
  \/ SkipSubtree \/ SkipUp \/ SkipNothing \/ SkipPanic
  \/ EnterChild \/ EnterLeaf \/ LeaveStart \/ LeaveToSibling \/ LeaveToParent \/ LeaveRoot \/ Over
  \/ EventDetach \/ EventDrop
  \/ \E h \in KeptVars : EventDetachOther(h) \/ EventKeep(h)

WalkSpec == WalkInit /\ [][WalkNext]_walkVars

(* The client goes on with its loop or its walk. *)
FairWalkSpec == WalkSpec /\ WF_walkVars(WalkNext)

-----------------------------------------------------------------------------
Walking == walk # NoWalk

(***************************************************************************)
(* A walk without skips visits every element of the subtree, in the order  *)
(* of the text, its events around those of its children, even if the       *)
(* client detaches elements as soon as it has left them (Preorder,         *)
(* PreorderWithTokens).                                                    *)
(***************************************************************************)
VisitsWhole ==
  Walking /\ walk.skips = 0 /\ ~ walk.parted =>
    IsPrefix(visited, expected) /\ (pc = "over" => visited = expected)

(***************************************************************************)
(* Whatever is skipped after the first event and whatever is detached, the *)
(* events nest: one that leaves an element belongs to the last one still   *)
(* open, and all are left in the end unless one was detached that the walk *)
(* was in or before.                                                       *)
(***************************************************************************)
OpenAfter(events) ==
  FoldLeft(LAMBDA open, e : IF e.enters THEN Append(open, e.kind)
                            ELSE IF open # <<>> /\ Last(open) = e.kind THEN Front(open)
                            ELSE Append(open, "left unentered"), <<>>, events)

Nests ==
  Walking /\ ~ walk.early =>
    /\ \A i \in DOMAIN OpenAfter(visited) : OpenAfter(visited)[i] # "left unentered"
    /\ pc = "over" /\ ~ walk.parted => OpenAfter(visited) = <<>>

(* A skip right after an element was entered leaves it next (skip_subtree). *)
SkipsWhatWasEntered ==
  [][pc = "skipped" /\ visited' # visited /\ visited # <<>> /\ Last(visited).enters
       => Last(visited') = [Last(visited) EXCEPT !.enters = FALSE]]_walkVars

(***************************************************************************)
(* A client that goes on comes to the end of its loop or walk, whatever it *)
(* detaches; there is a panic only if it skips before the first event or   *)
(* has detached what the walk was about to enter (do_skip).                *)
(***************************************************************************)
Ends == <>(pc \in {"done", "over"} \/ (pc = "panicked" /\ (walk.early \/ walk.parted)))
=============================================================================

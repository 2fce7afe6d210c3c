----------------------------- MODULE SyntaxText -----------------------------
(***************************************************************************)
(* SyntaxText (syntax_text.rs): the text of a node, or a slice of it, read *)
(* from its tokens without building a string.  A view is a node with a     *)
(* range that was fixed when the view was made; the node itself changes    *)
(* when its mutable tree is edited.                                        *)
(*                                                                         *)
(* A text is a sequence of bytes.  A byte in Tails continues a character,  *)
(* and a string that is cut in front of one panics.  The comparison of two *)
(* views is a loop; a turn of the loop is a step.                          *)
(***************************************************************************)
EXTENDS Integers, SequencesExt

CONSTANTS
  Nodes,     \* the nodes of the trees
  Editable,  \* those in a mutable tree
  Texts,     \* the texts of tokens that are put in
  Tails,     \* the bytes that continue a character
  Documents, \* bound: of each node, what it may contain at first
  Starts,    \* bound: how long the text before a node may get
  Views,     \* the user's variables of type SyntaxText
  NULL,      \* no view
  MaxEdits   \* bound: how often a tree is edited

(* The texts of tokens, and what they are made of. *)
Strings == Texts \cup UNION {Range(doc) : doc \in UNION {Documents[n] : n \in Nodes}}
Bytes == UNION {Range(t) : t \in Strings}

ASSUME TextsAssumption ==
  /\ Strings \subseteq Seq(Bytes)
  /\ \A n \in Nodes : Documents[n] \subseteq Seq(Strings)
ASSUME StartsAssumption == Starts \subseteq Nat
ASSUME ViewsAssumption == NULL \notin [node : Nodes, first : Nat, last : Nat]

VARIABLES
  inside,    \* of each node, the texts of the tokens below it
  start,     \* and the length of the text before it
  view,      \* the views: [node, first, last]
  meant,     \* the text a view was made for (history)
  fresh,     \* the views whose node did not change since (history)
  zip,       \* the comparison in progress
  edits      \* how many edits were made (a bound)

vars == <<inside, start, view, meant, fresh, zip, edits>>

NoZip == [pc |-> "idle", left |-> NULL, right |-> NULL, xs |-> <<>>, ys |-> <<>>, equal |-> FALSE]

Init ==
  /\ inside \in {f \in [Nodes -> UNION Range(Documents)] : \A n \in Nodes : f[n] \in Documents[n]}
  /\ start = [n \in Nodes |-> 0]
  /\ view = [v \in Views |-> NULL]
  /\ meant = [v \in Views |-> <<>>]
  /\ fresh = {}
  /\ zip = NoZip
  /\ edits = 0

Text(n) == FlattenSeq(inside[n])

Made == {v \in Views : view[v] # NULL}
Length(v) == view[v].last - view[v].first

-----------------------------------------------------------------------------
(***************************************************************************)
(* SyntaxNode::text and SyntaxText::slice.                                 *)
(***************************************************************************)
New(v, n) ==
  /\ zip = NoZip
  /\ view' = [view EXCEPT ![v] = [node |-> n, first |-> start[n], last |-> start[n] + Len(Text(n))]]
  /\ meant' = [meant EXCEPT ![v] = Text(n)]
  /\ fresh' = fresh \cup {v}
  /\ UNCHANGED <<inside, start, zip, edits>>

(* Mutant: the slice is taken from the start of the node. *)
FromNode(v, first) == start[view[v].node] + first

From(v, first) == view[v].first + first

Slice(v, w, first, last) ==
  /\ zip = NoZip
  /\ v \in Made
  /\ first <= last
  /\ last <= Length(v)
  /\ view' = [view EXCEPT ![w] = [node |-> view[v].node, first |-> From(v, first),
                                  last |-> From(v, first) + (last - first)]]
  /\ meant' = [meant EXCEPT ![w] = SubSeq(meant[v], first + 1, last)]
  /\ fresh' = IF v \in fresh THEN fresh \cup {w} ELSE fresh \ {w}
  /\ UNCHANGED <<inside, start, zip, edits>>

-----------------------------------------------------------------------------
(***************************************************************************)
(* SyntaxText::tokens_with_ranges: the part of each token that lies in the *)
(* range.  A token that only touches the range gives an empty chunk.       *)
(***************************************************************************)
TokenStart(n, i) == start[n] + Len(FlattenSeq(SubSeq(inside[n], 1, i - 1)))

Part(v, i) ==
  LET n == view[v].node
      at == TokenStart(n, i)
  IN  [text |-> inside[n][i], lo |-> Max({view[v].first, at}) - at,
       hi |-> Min({view[v].last, at + Len(inside[n][i])}) - at]

Chunk(v, i) == LET c == Part(v, i) IN IF c.lo <= c.hi THEN <<c>> ELSE <<>>
Chunks(v) == FlattenSeq([i \in DOMAIN inside[view[v].node] |-> Chunk(v, i)])

IsEmpty(c) == c.lo = c.hi
Cut(c) == SubSeq(c.text, c.lo + 1, c.hi)

(* str::is_char_boundary, and what str indexing asserts. *)
Boundary(text, o) == o = Len(text) \/ (o < Len(text) /\ text[o + 1] \notin Tails)
CutsWell(c) == Boundary(c.text, c.lo) /\ Boundary(c.text, c.hi)

(***************************************************************************)
(* UTF-8: the first byte of a character says how many follow.  So equal    *)
(* bytes from the beginning of a character end in both texts with one, or  *)
(* in both within one.                                                     *)
(***************************************************************************)
ASSUME CharactersAssumption ==
  \A t, u \in Strings : \A i \in 0 .. Len(t), j \in 0 .. Len(u) :
    \A n \in 0 .. Min({Len(t) - i, Len(u) - j}) :
      Boundary(t, i) /\ Boundary(u, j) /\ SubSeq(t, i + 1, i + n) = SubSeq(u, j + 1, j + n)
        => (Boundary(t, i + n) <=> Boundary(u, j + n))

-----------------------------------------------------------------------------
(***************************************************************************)
(* try_fold_chunks, and the loops over the chunks it serves.  Each ends    *)
(* with the first of its answers: a value, "panic" for a chunk that is not *)
(* cut well, or "none".                                                    *)
(***************************************************************************)
Found(answer, value) == [answer |-> answer, value |-> value]

TryFoldChunks(v, f(_, _)) ==
  LET chunks == Chunks(v)
      acc[n \in 0 .. Len(chunks)] ==
        IF n = 0 THEN Found("none", 0)
        ELSE IF acc[n - 1].answer # "none" THEN acc[n - 1]
        ELSE IF ~CutsWell(chunks[n]) THEN Found("panic", 0)
        ELSE f(acc[n - 1], chunks[n])
  IN  acc[Len(chunks)]

(* The first position in the text, from 0, of the character c. *)
FirstAt(text, c) == {o - 1 : o \in {o \in DOMAIN text : text[o] = c /\ ~\E p \in 1 .. o - 1 : text[p] = c}}

(* Mutant: the length of the chunks before is forgotten. *)
FindInChunk(v, c) ==
  TryFoldChunks(v, LAMBDA acc, k : IF FirstAt(Cut(k), c) = {} THEN acc
                                   ELSE Found("some", Max(FirstAt(Cut(k), c))))

FindChar(v, c) ==
  TryFoldChunks(v, LAMBDA acc, k : IF FirstAt(Cut(k), c) = {} THEN [acc EXCEPT !.value = @ + Len(Cut(k))]
                                   ELSE Found("some", acc.value + Max(FirstAt(Cut(k), c))))

ContainsChar(v, c) ==
  TryFoldChunks(v, LAMBDA acc, k : IF FirstAt(Cut(k), c) = {} THEN acc ELSE Found("some", 0))

CharAt(v, offset) ==
  TryFoldChunks(v, LAMBDA acc, k :
              LET begin == acc.value
                  end == begin + Len(Cut(k))
              IN  IF ~(begin <= offset /\ offset < end) THEN Found("none", end)
                  ELSE IF ~Boundary(Cut(k), offset - begin) THEN Found("panic", 0)
                  ELSE Found("some", Cut(k)[offset - begin + 1]))

(* Mutant: what is left of the string is not looked at. *)
EqStrPrefix(v, text) ==
  LET rest == TryFoldChunks(v, LAMBDA acc, k :
                          IF IsPrefix(Cut(k), SubSeq(text, acc.value + 1, Len(text)))
                          THEN [acc EXCEPT !.value = @ + Len(Cut(k))]
                          ELSE Found("differs", 0))
  IN  IF rest.answer = "none" THEN "equal" ELSE "differs"

(* PartialEq<str>: each chunk is taken off the string compared with. *)
EqStr(v, text) ==
  LET rest == TryFoldChunks(v, LAMBDA acc, k :
                          IF IsPrefix(Cut(k), SubSeq(text, acc.value + 1, Len(text)))
                          THEN [acc EXCEPT !.value = @ + Len(Cut(k))]
                          ELSE Found("differs", 0))
  IN  IF rest.answer = "panic" THEN "panic"
      ELSE IF rest.answer = "none" /\ rest.value = Len(text) THEN "equal" ELSE "differs"

-----------------------------------------------------------------------------
(***************************************************************************)
(* PartialEq for two views, with zip_texts: xs and ys hold the current     *)
(* chunks and those to come.  When one side has no further chunk, what is  *)
(* left of the other side's current one is not looked at any more.         *)
(***************************************************************************)
AllEmpty(chunks) == \A i \in DOMAIN chunks : IsEmpty(chunks[i])

EndZip(equal) == zip' = [zip EXCEPT !.pc = "done", !.equal = equal, !.xs = <<>>, !.ys = <<>>]

(* Mutant: the lengths are not compared first. *)
AnyLengths(v, w) == TRUE

SameLength(v, w) == Length(v) = Length(w)

Compare(v, w) ==
  /\ zip = NoZip
  /\ v \in Made /\ w \in Made
  /\ zip' = IF SameLength(v, w)
            THEN [NoZip EXCEPT !.pc = "start", !.left = v, !.right = w, !.xs = Chunks(v), !.ys = Chunks(w)]
            ELSE [NoZip EXCEPT !.pc = "done", !.left = v, !.right = w]
  /\ UNCHANGED <<inside, start, view, meant, fresh, edits>>

(* The first chunks of both sides; no further one ends the loop. *)
ZipStart ==
  /\ zip.pc = "start"
  /\ IF zip.xs = <<>> THEN EndZip(AllEmpty(zip.ys))
     ELSE IF zip.ys = <<>> THEN EndZip(AllEmpty(Tail(zip.xs)))
     ELSE zip' = [zip EXCEPT !.pc = "loop"]

ZipSkipLeft ==
  /\ zip.pc = "loop"
  /\ IsEmpty(Head(zip.xs))
  /\ IF Len(zip.xs) = 1 THEN EndZip(AllEmpty(Tail(zip.ys)))
                        ELSE zip' = [zip EXCEPT !.xs = Tail(@)]

ZipSkipRight ==
  /\ zip.pc = "loop"
  /\ ~IsEmpty(Head(zip.xs))
  /\ IsEmpty(Head(zip.ys))
  /\ IF Len(zip.ys) = 1 THEN EndZip(AllEmpty(Tail(zip.xs)))
                        ELSE zip' = [zip EXCEPT !.ys = Tail(@)]

Advanced(chunks, by) == ReplaceAt(chunks, 1, [Head(chunks) EXCEPT !.lo = @ + by])

(* Mutant: the chunks stay as they are. *)
AdvanceNothing(x, y) == 0

Advance(x, y) == Min({Len(Cut(x)), Len(Cut(y))})

ZipCompare ==
  LET x == Head(zip.xs)
      y == Head(zip.ys)
      by == Advance(x, y)
  IN  /\ zip.pc = "loop"
      /\ ~IsEmpty(x) /\ ~IsEmpty(y)
      /\ IF ~CutsWell(x) \/ ~CutsWell(y) THEN zip' = [zip EXCEPT !.pc = "panicked"]
         ELSE IF IsPrefix(Cut(x), Cut(y)) \/ IsPrefix(Cut(y), Cut(x))
         THEN zip' = [zip EXCEPT !.xs = Advanced(@, by), !.ys = Advanced(@, by)]
         ELSE EndZip(FALSE)

ZipTurn ==
  /\ ZipStart \/ ZipSkipLeft \/ ZipSkipRight \/ ZipCompare
  /\ UNCHANGED <<inside, start, view, meant, fresh, edits>>

(* The user has seen the answer. *)
Answered ==
  /\ zip.pc \in {"done", "panicked"}
  /\ zip' = NoZip
  /\ UNCHANGED <<inside, start, view, meant, fresh, edits>>

-----------------------------------------------------------------------------
(***************************************************************************)
(* Edits of the tree of a node (detach, attach_child) take a token away,   *)
(* put one in, or change the text before the node.  Views are not told.    *)
(***************************************************************************)
Edited(n) ==
  /\ zip = NoZip
  /\ n \in Editable
  /\ edits < MaxEdits
  /\ edits' = edits + 1
  /\ fresh' = {v \in fresh : view[v].node # n}
  /\ UNCHANGED <<view, meant, zip>>

TakeOut(n, i) ==
  /\ Edited(n)
  /\ inside' = [inside EXCEPT ![n] = RemoveAt(@, i)]
  /\ UNCHANGED start

PutIn(n, i, text) ==
  /\ Edited(n)
  /\ inside' = [inside EXCEPT ![n] = InsertAt(@, i, text)]
  /\ UNCHANGED start

Move(n, s) ==
  /\ Edited(n)
  /\ s # start[n]
  /\ start' = [start EXCEPT ![n] = s]
  /\ UNCHANGED inside

Next ==
  \/ \E v \in Views, n \in Nodes : New(v, n)
  \/ \E v \in Made, w \in Views :
       \E first, last \in 0 .. Length(v) : Slice(v, w, first, last)
  \/ \E v, w \in Made : Compare(v, w)
  \/ ZipTurn \/ Answered
  \/ \E n \in Nodes :
       \/ \E i \in DOMAIN inside[n] : TakeOut(n, i)
       \/ \E i \in 1 .. Len(inside[n]) + 1, text \in Texts : PutIn(n, i, text)
       \/ \E s \in Starts : Move(n, s)

Spec == Init /\ [][Next]_vars
FairSpec == Spec /\ WF_vars(ZipTurn)

-----------------------------------------------------------------------------
(***************************************************************************)
(* Properties.                                                             *)
(***************************************************************************)
Shown(v) == FlattenSeq([i \in DOMAIN Chunks(v) |-> Cut(Chunks(v)[i])])
Readable(v) == \A i \in DOMAIN Chunks(v) : CutsWell(Chunks(v)[i])

(* The part of the text of the node that now lies in the range of the view. *)
Window(v) ==
  LET n == view[v].node
  IN  SubSeq(Text(n), Max({view[v].first - start[n], 0}) + 1,
                      Min({view[v].last - start[n], Len(Text(n))}))

(***************************************************************************)
(* The chunks put together are the text the view was made for, slice after *)
(* slice; and once the tree was edited, the text that came to lie in its   *)
(* range: never a byte twice, from elsewhere or out of order.              *)
(***************************************************************************)
ShowsText ==
  zip = NoZip =>
    \A v \in Made : /\ Shown(v) = Window(v)
                    /\ v \in fresh => Shown(v) = meant[v] /\ Len(Shown(v)) = Length(v)

(***************************************************************************)
(* The searches answer as they would for the text in one piece: find_char, *)
(* contains_char and char_at, which panics within a character only.        *)
(***************************************************************************)
CharsFound ==
  \A v \in Made : zip = NoZip /\ Readable(v) =>
    /\ \A c \in Bytes \ Tails :
         LET at == FirstAt(Shown(v), c)
         IN  /\ FindChar(v, c).answer = IF at = {} THEN "none" ELSE "some"
             /\ at # {} => FindChar(v, c).value \in at
             /\ ContainsChar(v, c).answer = FindChar(v, c).answer
    /\ \A o \in 0 .. Length(v) :
         CharAt(v, o) = IF o >= Len(Shown(v)) THEN Found("none", Len(Shown(v)))
                        ELSE IF Shown(v)[o + 1] \in Tails THEN Found("panic", 0)
                        ELSE Found("some", Shown(v)[o + 1])

(***************************************************************************)
(* Two views are equal exactly if their texts are, wherever the tokens of  *)
(* both begin and end; of a view whose tree was edited only the answer     *)
(* "different" can be relied on.  Comparing panics only if a view itself   *)
(* begins or ends within a character.                                      *)
(***************************************************************************)
ComparesTexts ==
  LET v == zip.left
      w == zip.right
  IN  /\ zip.pc = "done" =>
           /\ ~zip.equal => Length(v) # Length(w) \/ Shown(v) # Shown(w)
           /\ zip.equal /\ {v, w} \subseteq fresh => Shown(v) = Shown(w)
      /\ zip.pc = "panicked" => ~Readable(v) \/ ~Readable(w)

(* A view is equal to a string exactly if its text is. *)
ComparesStrings ==
  \A v \in Made : zip = NoZip /\ Readable(v) =>
    \A n \in Nodes : EqStr(v, Text(n)) = IF Shown(v) = Text(n) THEN "equal" ELSE "differs"

(* The loop of zip_texts ends, empty chunks or not. *)
ZipEnds == zip # NoZip ~> zip.pc \in {"done", "panicked"}
=============================================================================

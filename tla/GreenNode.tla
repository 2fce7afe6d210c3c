----------------------------- MODULE GreenNode -----------------------------
(***************************************************************************)
(* Green elements (green/node.rs, green/token.rs, green/element.rs):       *)
(* immutable, reference counted, without parent pointers.  A heap maps     *)
(* every address to the element stored there; an address whose count is    *)
(* zero is free.  The operators are pure: each takes a heap and returns    *)
(* the heap the operation leaves behind.                                   *)
(***************************************************************************)
EXTENDS SyntaxKinds, Integers, SequencesExt

CONSTANTS
  Greens,  \* addresses of green elements
  Vacant   \* the kind of an address nothing is stored at

ASSUME AddressesAssumption == Greens \subseteq Nat /\ IsFiniteSet(Greens)

Free == [kind |-> Vacant, kids |-> <<>>, len |-> 0, cnt |-> 0]

HeapType(heap) ==
  /\ DOMAIN heap = Greens
  /\ \A g \in Greens : /\ DOMAIN heap[g] = DOMAIN Free
                       /\ heap[g].kind \in Kinds \cup {Vacant}
                       /\ heap[g].kids \in Seq(Greens)
                       /\ heap[g].cnt \in Nat

FreeGreens(heap) == {g \in Greens : heap[g].cnt = 0}
Blank(heap) == \A g \in FreeGreens(heap) : heap[g] = Free

IsToken(heap, g) == heap[g].kind \in TokenKinds

(***************************************************************************)
(* Child slots are numbered from 0, as the Rust slices are.                *)
(***************************************************************************)
Slots(heap, g) == 0 .. Len(heap[g].kids) - 1
Kid(heap, g, i) == heap[g].kids[i + 1]
HasKid(heap, g, k) == \E i \in DOMAIN heap[g].kids : heap[g].kids[i] = k

(***************************************************************************)
(* GreenNodeData::text_len, and GreenChild::rel_offset: where a child      *)
(* starts inside its parent.                                               *)
(***************************************************************************)
Lens(heap, kids) == [i \in DOMAIN kids |-> heap[kids[i]].len]

TextLen(heap, kids) == FoldLeft(LAMBDA sum, len : sum + len, 0, Lens(heap, kids))

RelOffset(heap, g, i) == TextLen(heap, SubSeq(heap[g].kids, 1, i))

(***************************************************************************)
(* References: how often an element occurs in a sequence, and the child    *)
(* slots it is in; whoever owns an element besides is counted with One.    *)
(***************************************************************************)
Times(g, seq) == Cardinality({i \in DOMAIN seq : seq[i] = g})

SlotsOf(heap, g) ==
  UNION {{<<k, i>> : i \in {j \in DOMAIN heap[k].kids : heap[k].kids[j] = g}} : k \in Greens}

One(condition) == IF condition THEN 1 ELSE 0

(***************************************************************************)
(* to_owned / clone of every element of a sequence: one more owner for     *)
(* each occurrence.                                                        *)
(***************************************************************************)
Share(heap, seq) ==
  [g \in Greens |-> [heap[g] EXCEPT !.cnt = @ + Times(g, seq)]]

(* Mutant: the new owner is not counted. *)
ShareUncounted(heap, g) == heap

ShareOne(heap, g) == [heap EXCEPT ![g].cnt = @ + 1]

(***************************************************************************)
(* GreenNode::new at the free address a.  The node takes over one          *)
(* reference to each child from its caller.                                *)
(***************************************************************************)
NewNode(heap, a, kind, kids) ==
  [heap EXCEPT ![a] =
     [kind |-> kind, kids |-> kids, len |-> TextLen(heap, kids), cnt |-> 1]]

(***************************************************************************)
(* The three structural edits build a copy of node g at address a: the     *)
(* kept children gain an owner, the inserted one moves in.                 *)
(***************************************************************************)
ReplaceChild(heap, a, g, i, new) ==
  LET kids == heap[g].kids
  IN  NewNode(Share(heap, RemoveAt(kids, i + 1)), a, heap[g].kind, ReplaceAt(kids, i + 1, new))

InsertChild(heap, a, g, i, new) ==
  LET kids == heap[g].kids
  IN  NewNode(Share(heap, kids), a, heap[g].kind, InsertAt(kids, i + 1, new))

RemoveChild(heap, a, g, i) ==
  LET kids == RemoveAt(heap[g].kids, i + 1)
  IN  NewNode(Share(heap, kids), a, heap[g].kind, kids)

(***************************************************************************)
(* One step of dropping the references in the stack `drops`: the last      *)
(* owner frees the element and drops its references to the children.       *)
(***************************************************************************)
DropGreen(heap, g) ==
  IF heap[g].cnt = 1 THEN [heap EXCEPT ![g] = Free]
                     ELSE [heap EXCEPT ![g].cnt = @ - 1]

(* Mutant: a freed node leaks its children. *)
DropsNothing(heap, g) == <<>>

DropsOf(heap, g) == IF heap[g].cnt = 1 THEN heap[g].kids ELSE <<>>
=============================================================================

------------------------------ MODULE Answers ------------------------------
(***************************************************************************)
(* What disconnect_colab_runtime reads in the answers of a notebook: how   *)
(* many cells there are (cellCount), where the new cell goes, and the id   *)
(* of the cell with the marker of the call (findMarkedCellID), which is    *)
(* run.  The shape of an answer is not agreed on: both walk whatever JSON  *)
(* they find, and Go visits the fields of an object in any order.  The     *)
(* answer of add_code_cell is walked for ids too (candidateCellID), which  *)
(* are trusted when get_cells does not help.                               *)
(*                                                                         *)
(* An answer is its JSON values in the order they are read.  A value is a  *)
(* text, a list of values or an object, a set of fields whose keys are     *)
(* compared without case: two fields of an object can have one key.  What  *)
(* is not JSON is prose, and the cell ids it speaks of.  A step of a walk  *)
(* is one call of its recursive function: what the call goes on with comes *)
(* before what its callers have left.                                      *)
(***************************************************************************)
EXTENDS Naturals, Sequences, FiniteSets

CONSTANTS
  Blank,   \* the empty string
  Code,    \* a text with the marker of the call in it
  Shapes,  \* the answers a notebook gives
  Inside(_, _) \* what there is inside each value, in lists too or not

VARIABLES
  answer,   \* the answer of get_cells or add_code_cell
  reading,  \* what it is read for: "count", "locate" or "offer"
  todo,     \* the values the walk has still to visit
  found,    \* what cellCount or findMarkedCellID has found
  explicit, bare, textual \* the ids candidateCellID has recorded

idVars == <<explicit, bare, textual>>
answerVars == <<answer, reading, todo, found, idVars>>

Text(w)        == [kind |-> "text", of |-> w]
List(q)        == [kind |-> "list", of |-> q]
Object(fields) == [kind |-> "object", of |-> fields]
Field(k, v)    == [key |-> k, val |-> v]
Prose(S)       == [kind |-> "prose", of |-> S]

FieldsOf(v, k) == {f \in v.of : f.key = k}

\* The values a value is made of.
Parts(v, inLists) ==
  CASE v.kind = "object" -> {f.val : f \in v.of}
    [] v.kind = "list"   -> IF inLists THEN {v.of[i] : i \in DOMAIN v.of} ELSE {}
    [] OTHER -> {}

ASSUME InsideAssumption ==
  \A a \in Shapes :
    /\ a \in Seq({a[i] : i \in DOMAIN a})
    /\ \A i \in DOMAIN a :
         /\ a[i] \in Inside(a[i], TRUE)
         /\ \A v \in Inside(a[i], TRUE) :
              /\ Parts(v, TRUE) \subseteq Inside(a[i], TRUE)
              /\ \A inLists \in BOOLEAN :
                   Inside(v, inLists) = {v} \cup UNION {Inside(w, inLists) : w \in Parts(v, inLists)}

\* It is JSON all the way down, but for prose as a whole of its own.
ASSUME JSONAssumption ==
  \A a \in Shapes : \A i \in DOMAIN a : \A v \in Inside(a[i], TRUE) :
    /\ v.kind \in {"text", "list", "object", "prose"}
    /\ v.kind = "list" => v.of \in Seq(Parts(v, TRUE))
    /\ v.kind = "object" => IsFiniteSet(v.of)
    /\ \A w \in Parts(v, TRUE) : w.kind # "prose"

\* A result is the value found, or none.
NotFound == <<>>
Found(x) == <<x>>

\* A value to visit, and whether it is a part of the answer itself.
Item(v, top) == [val |-> v, top |-> top]
Meets(kinds) == todo # <<>> /\ Head(todo).val.kind \in kinds
Here == Head(todo).val

\* The walk ends with a result, or goes on with these values.
Return(x) == found' = Found(x) /\ todo' = <<>>
GoOn(q) == /\ todo' = [i \in DOMAIN q |-> Item(q[i], FALSE)] \o Tail(todo)
           /\ UNCHANGED found

\* The orders in which the fields of an object are visited.
Orders(fields) == LET vals == {f.val : f \in fields}
                  IN {q \in [1..Cardinality(vals) -> vals] : \A v \in vals : \E i \in DOMAIN q : q[i] = v}

-----------------------------------------------------------------------------
(* cellCount                                                               *)

\* Fault: any list is taken for the cells.
TakesAnyList(item) == TRUE

TakesList(item) == item.top

CountList == /\ Meets({"list"})
             /\ IF TakesList(Head(todo)) THEN Return(Len(Here.of)) ELSE GoOn(<<>>)

\* Whatever is called cells ends the search of its object, a list or not.
CountCells == /\ Meets({"object"})
              /\ \E f \in FieldsOf(Here, "cells") :
                   IF f.val.kind = "list" THEN Return(Len(f.val.of)) ELSE GoOn(<<>>)

CountFields == /\ Meets({"object"}) /\ FieldsOf(Here, "cells") = {}
               /\ \E q \in Orders(Here.of) : GoOn(q)

CountOther == Meets({"text", "prose"}) /\ GoOn(<<>>)

cellCount == /\ reading = "count"
             /\ CountList \/ CountCells \/ CountFields \/ CountOther
             /\ UNCHANGED <<answer, reading, idVars>>

-----------------------------------------------------------------------------
(* findMarkedCellID                                                        *)

IsMarked(v) == v = Text(Code)

containsMarker(v) ==
  \E f \in FieldsOf(v, "source") :
    IsMarked(f.val) \/ (f.val.kind = "list" /\ \E i \in DOMAIN f.val.of : IsMarked(f.val.of[i]))

\* idFromMap: the texts under the first of the keys that has any.
IdsUnder(v, k) == {f.val.of : f \in {g \in FieldsOf(v, k) : g.val.kind = "text"}} \ {Blank}
idFromMap(v) == LET keys == <<"cellId", "cell_id", "id">>
                    used == {k \in 1..3 : IdsUnder(v, keys[k]) # {}}
                IN UNION {IdsUnder(v, keys[k]) : k \in {j \in used : \A l \in used : j <= l}}

VisitMarked == /\ Meets({"object"}) /\ containsMarker(Here)
               /\ \E i \in idFromMap(Here) : Return(i)

\* Fault: the search of an object ends with its own marker, id or not.
VisitOnce == /\ Meets({"object"})
             /\ IF containsMarker(Here) THEN idFromMap(Here) = {} /\ GoOn(<<>>)
                ELSE \E q \in Orders(Here.of) : GoOn(q)

VisitFields == /\ Meets({"object"})
               /\ ~(containsMarker(Here) /\ idFromMap(Here) # {})
               /\ \E q \in Orders(Here.of) : GoOn(q)

VisitList == Meets({"list"}) /\ GoOn(Here.of)

VisitOther == Meets({"text", "prose"}) /\ GoOn(<<>>)

findMarkedCellID == /\ reading = "locate"
                    /\ VisitMarked \/ VisitFields \/ VisitList \/ VisitOther
                    /\ UNCHANGED <<answer, reading, idVars>>

-----------------------------------------------------------------------------
(* candidateCellID                                                         *)

\* walkStrings calls record with every text that is the value of a key.
RecordFields == /\ Meets({"object"})
                /\ explicit' = explicit \cup IdsUnder(Here, "cellId") \cup IdsUnder(Here, "cell_id")
                /\ bare' = bare \cup IdsUnder(Here, "id")
                /\ \E q \in Orders({f \in Here.of : f.val.kind # "text"}) : GoOn(q)
                /\ UNCHANGED textual

RecordList == VisitList /\ UNCHANGED idVars

RecordProse == /\ Meets({"prose"}) /\ GoOn(<<>>)
               /\ textual' = textual \cup Here.of
               /\ UNCHANGED <<explicit, bare>>

RecordOther == Meets({"text"}) /\ GoOn(<<>>) /\ UNCHANGED idVars

walkStrings == /\ reading = "offer"
               /\ RecordFields \/ RecordList \/ RecordProse \/ RecordOther
               /\ UNCHANGED <<answer, reading>>

\* Fault: a tier with several ids is passed over for one with a single id.
CandidateUnique(tiers) ==
  LET used == {k \in 1..3 : \E i \in tiers[k] : tiers[k] = {i}}
  IN UNION {tiers[k] : k \in {j \in used : \A l \in used : j <= l}}

\* The ids of the first tier that has any: none, the result, or ambiguous.
candidateCellID(tiers) ==
  LET used == {k \in 1..3 : tiers[k] # {}}
  IN UNION {tiers[k] : k \in {j \in used : \A l \in used : j <= l}}

-----------------------------------------------------------------------------
AnswerInit == /\ answer \in Shapes
              /\ reading \in {"count", "locate", "offer"}
              /\ todo = [i \in DOMAIN answer |-> Item(answer[i], TRUE)]
              /\ found = NotFound
              /\ explicit = {} /\ bare = {} /\ textual = {}

AnswerNext == cellCount \/ findMarkedCellID \/ walkStrings

AnswerSpec == AnswerInit /\ [][AnswerNext]_answerVars

-----------------------------------------------------------------------------
(* Properties                                                              *)

\* The objects of an answer, those inside lists too or not.
All(inLists) == UNION {Inside(answer[i], inLists) : i \in DOMAIN answer}
Objects(inLists) == {v \in All(inLists) : v.kind = "object"}

\* disconnect.go:118 (the lookup "proves the id belongs to the cell this call
\* just added"): in whatever order an answer is walked and however deep the
\* cell is in it, the id is one of an object whose own code has the marker,
\* and such an object is not missed.
LookupExact ==
  LET ids == UNION {idFromMap(o) : o \in {p \in Objects(TRUE) : containsMarker(p)}}
  IN reading = "locate" /\ todo = <<>> =>
       IF ids = {} THEN found = NotFound ELSE \E i \in ids : found = Found(i)

\* disconnect.go:329 ("guessing an index could modify the notebook at an
\* unintended location"): a count is the length of a list that is the whole
\* answer or is called cells, so with one such list it does not depend on the
\* order of the walk; and it is found unless something else is called cells.
CountExact ==
  LET called == UNION {{f.val : f \in FieldsOf(o, "cells")} : o \in Objects(FALSE)}
      lists  == {v \in called \cup {answer[i] : i \in DOMAIN answer} : v.kind = "list"}
  IN reading = "count" /\ todo = <<>> =>
       IF found = NotFound THEN lists = {} \/ \E v \in called : v.kind # "list"
       ELSE \E v \in lists : found = Found(Len(v.of))

\* disconnect.go:404 ("reported as ambiguous rather than guessed at"): an id is
\* taken only if nothing in the answer, in whichever part and however deep, gives
\* another one in a way as explicit; and an answer with an id offers one.
NoGuessedCell ==
  LET under(k)  == UNION {IdsUnder(o, k) : o \in Objects(TRUE)}
      named     == under("cellId") \cup under("cell_id")
      spoken    == UNION {v.of : v \in {answer[i] : i \in {j \in DOMAIN answer : answer[j].kind = "prose"}}}
      others(i) == (named \cup (IF i \in named THEN {} ELSE under("id"))
                    \cup (IF i \in named \cup under("id") THEN {} ELSE spoken)) \ {i}
      offered   == candidateCellID(<<explicit, bare, textual>>)
  IN reading = "offer" /\ todo = <<>> =>
       /\ \A i \in offered : offered = {i} => others(i) = {}
       /\ offered = {} => named \cup under("id") \cup spoken = {}
       /\ offered \subseteq named \cup under("id") \cup spoken
=============================================================================

--------------------------- MODULE Answers_proofs ---------------------------
(***************************************************************************)
(* Machine-checked proofs about Answers, for any answers of a notebook,    *)
(* however deep, and any order in which their objects are walked: what a   *)
(* walk finds is what there is to find.  Each walk keeps that whatever it  *)
(* has not dealt with is inside a value it has still to visit.             *)
(***************************************************************************)
EXTENDS Answers, SequenceTheorems, FiniteSetTheorems, TLAPS

\* The parts of the answer, the values still to visit, and all there is inside
\* them.
Whole == Range(answer)
Pending == Range(todo)
Left(inLists) == UNION {Inside(item.val, inLists) : item \in Pending}

Walk == Seq([val : All(TRUE), top : BOOLEAN])

ATypeOK == /\ answer \in Shapes
           /\ reading \in {"count", "locate", "offer"}
           /\ todo \in Walk
           /\ \A item \in Pending : IF item.top THEN item.val \in Whole
                                    ELSE item.val.kind # "prose"

-----------------------------------------------------------------------------
(* A step of a walk                                                        *)

\* What is inside an answer: what a part of it is made of is inside it too.
LEMMA InsideAnswer ==
  ASSUME answer \in Shapes, NEW v \in All(TRUE)
  PROVE  /\ v.kind \in {"text", "list", "object", "prose"}
         /\ v.kind = "list" => v.of \in Seq(Parts(v, TRUE))
         /\ v.kind = "object" => IsFiniteSet(v.of)
         /\ \A w \in Parts(v, TRUE) : w \in All(TRUE) /\ w.kind # "prose"
         /\ \A inLists \in BOOLEAN :
              Inside(v, inLists) = {v} \cup UNION {Inside(w, inLists) : w \in Parts(v, inLists)}
<1>1. PICK i \in DOMAIN answer : v \in Inside(answer[i], TRUE)
  BY DEF All
<1>2. /\ Parts(v, TRUE) \subseteq Inside(answer[i], TRUE)
      /\ \A inLists \in BOOLEAN :
           Inside(v, inLists) = {v} \cup UNION {Inside(w, inLists) : w \in Parts(v, inLists)}
  <2>1. \A u \in Inside(answer[i], TRUE) :
          /\ Parts(u, TRUE) \subseteq Inside(answer[i], TRUE)
          /\ \A inLists \in BOOLEAN :
               Inside(u, inLists) = {u} \cup UNION {Inside(w, inLists) : w \in Parts(u, inLists)}
    BY InsideAssumption
  <2> QED
    BY <1>1, <2>1
<1>4. Parts(v, TRUE) \subseteq All(TRUE)
  BY <1>2 DEF All
<1>3. /\ v.kind \in {"text", "list", "object", "prose"}
      /\ v.kind = "list" => v.of \in Seq(Parts(v, TRUE))
      /\ v.kind = "object" => IsFiniteSet(v.of)
      /\ \A w \in Parts(v, TRUE) : w.kind # "prose"
  BY <1>1, JSONAssumption
<1> QED
  BY <1>2, <1>3, <1>4

\* The answer is inside itself.
LEMMA InsideWhole ==
  ASSUME answer \in Shapes
  PROVE  answer \in Seq(Whole) /\ \A v \in Whole, inLists \in BOOLEAN : v \in All(inLists)
<1>1. answer \in Seq(Whole)
  BY InsideAssumption DEF Whole, Range
<1>2. ASSUME NEW i \in DOMAIN answer, NEW inLists \in BOOLEAN
      PROVE  answer[i] \in Inside(answer[i], inLists)
  BY InsideAssumption
<1> QED
  BY <1>1, <1>2 DEF Whole, All, Range

\* The elements of two sequences put together are those of both.
LEMMA ConcatRange ==
  \A S : \A s, u \in Seq(S) :
    /\ s \o u \in Seq(S)
    /\ Range(s \o u) = Range(s) \cup Range(u)
<1> TAKE S
<1> TAKE s, u \in Seq(S)
<1> QED
  BY ConcatProperties, RangeConcatenation

LEMMA ElementsOfSeq == \A S : \A s \in Seq(S) : \A i \in DOMAIN s : s[i] \in S
BY ElementOfSeq

LEMMA SeqWider == \A S, T : S \subseteq T => Seq(S) \subseteq Seq(T)
BY SeqMonotonic

\* What a walk has left is its next value, and the rest.
LEMMA NextOfPending ==
  ASSUME ATypeOK, todo # <<>>
  PROVE  /\ Head(todo) \in Pending /\ Here \in All(TRUE)
         /\ Tail(todo) \in Walk
         /\ Pending = {Head(todo)} \cup Range(Tail(todo))
<1> DEFINE T == [val : All(TRUE), top : BOOLEAN]
<1>1. todo \in Seq(T) /\ Len(todo) \in Nat \ {0}
  BY DEF ATypeOK, Walk
<1> HIDE DEF T
<1>2. /\ Head(todo) = todo[1] /\ todo[1] \in T
      /\ Tail(todo) \in Seq(T)
      /\ Len(Tail(todo)) = Len(todo) - 1
      /\ \A i \in 1..Len(todo) - 1 : Tail(todo)[i] = todo[i + 1]
  BY <1>1
<1>3. {todo[i] : i \in DOMAIN todo} = {todo[1]} \cup {todo[i + 1] : i \in 1..Len(todo) - 1}
  <2>1. DOMAIN todo = 1..Len(todo)
    BY <1>1
  <2>2. \A i \in 1..Len(todo) : i = 1 \/ (i - 1 \in 1..Len(todo) - 1 /\ i = (i - 1) + 1)
    BY <1>1
  <2>3. 1 \in 1..Len(todo) /\ \A i \in 1..Len(todo) - 1 : i + 1 \in 1..Len(todo)
    BY <1>1
  <2>4. ASSUME NEW x \in {todo[i] : i \in DOMAIN todo}
        PROVE  x \in {todo[1]} \cup {todo[i + 1] : i \in 1..Len(todo) - 1}
    BY <2>1, <2>2
  <2>5. ASSUME NEW x \in {todo[1]} \cup {todo[i + 1] : i \in 1..Len(todo) - 1}
        PROVE  x \in {todo[i] : i \in DOMAIN todo}
    BY <2>1, <2>3
  <2> QED
    BY <2>4, <2>5
<1>4. {Tail(todo)[i] : i \in DOMAIN Tail(todo)} = {todo[i + 1] : i \in 1..Len(todo) - 1}
  <2>1. DOMAIN Tail(todo) = 1..Len(todo) - 1
    BY <1>1, <1>2
  <2> QED
    BY <1>2, <2>1
<1> QED
  BY <1>1, <1>2, <1>3, <1>4 DEF Pending, Range, Walk, Here, T

\* What is inside the next value.
LEMMA InsideHere ==
  ASSUME ATypeOK, todo # <<>>
  PROVE  \A inLists \in BOOLEAN :
           Inside(Here, inLists)
             = {Here} \cup UNION {Inside(w, inLists) : w \in Parts(Here, inLists)}
<1>1. answer \in Shapes /\ Here \in All(TRUE)
  BY NextOfPending DEF ATypeOK
<1> QED
  BY <1>1, InsideAnswer

\* Going on replaces the next value by others.
LEMMA GoesOn ==
  ASSUME ATypeOK, todo # <<>>, NEW q \in Seq(Parts(Here, TRUE)), GoOn(q), UNCHANGED <<answer, reading>>
  PROVE  /\ ATypeOK'
         /\ \A item \in Pending : item = Head(todo) \/ item \in Pending'
         /\ \A item \in Pending' : item \in Pending \/ \E i \in DOMAIN q : item = Item(q[i], FALSE)
         /\ \A i \in DOMAIN q : Item(q[i], FALSE) \in Pending'
<1> DEFINE T == [val : All(TRUE), top : BOOLEAN]
           new == [i \in DOMAIN q |-> Item(q[i], FALSE)]
           rest == Tail(todo)
<1>1. \A w \in Parts(Here, TRUE) : w \in All(TRUE) /\ w.kind # "prose"
  BY NextOfPending, InsideAnswer DEF ATypeOK
<1>8. \A i \in DOMAIN q : q[i] \in Parts(Here, TRUE)
  BY ElementsOfSeq
<1>2. new \in Seq(T) /\ DOMAIN new = DOMAIN q
  <2>1. \A i \in DOMAIN q : new[i] \in T
    BY <1>1, <1>8 DEF Item
  <2>2. DOMAIN q = 1..Len(q) /\ Len(q) \in Nat
    OBVIOUS
  <2> QED
    <3>1. new \in [1..Len(q) -> T]
      BY <2>1, <2>2
    <3>2. new \in UNION {[1..n -> T] : n \in Nat}
      BY <2>2, <3>1
    <3> QED
      BY <3>2, SeqDef
<1>3. rest \in Seq(T) /\ todo' = new \o rest
  BY NextOfPending DEF GoOn, Walk
<1> HIDE DEF T, new, rest
<1>4. /\ todo' \in Seq(T)
      /\ Range(todo') = Range(new) \cup Range(rest)
  BY <1>2, <1>3, ConcatRange
<1>5. Pending' = {Item(q[i], FALSE) : i \in DOMAIN q} \cup Range(rest)
  <2>1. Range(new) = {Item(q[i], FALSE) : i \in DOMAIN q}
    BY <1>2 DEF Range, new
  <2> QED
    BY <1>4, <2>1 DEF Pending, Range
<1>6. Pending = {Head(todo)} \cup Range(rest)
  BY NextOfPending DEF rest
<1>7. Walk' = Walk /\ Whole' = Whole
  BY DEF Walk, Whole, All, Range
<1>9. ATypeOK'
  <2>1. todo' \in Walk'
    BY <1>4, <1>7 DEF Walk, T
  <2>2. ASSUME NEW item \in Pending'
        PROVE  IF item.top THEN item.val \in Whole ELSE item.val.kind # "prose"
    <3>1. CASE item \in Pending
      BY <3>1 DEF ATypeOK
    <3>2. ASSUME NEW i \in DOMAIN q, item = Item(q[i], FALSE)
          PROVE  item.top = FALSE /\ item.val.kind # "prose"
      BY <1>1, <1>8, <3>2 DEF Item
    <3> QED
      BY <1>5, <1>6, <3>1, <3>2
  <2> QED
    BY <1>7, <2>1, <2>2 DEF ATypeOK
<1> QED
  BY <1>5, <1>6, <1>9
\* What was inside the values left still is, but for the value visited and for
\* what is inside those of its parts the walk does not go on with.
LEMMA LeftStep ==
  ASSUME ATypeOK, todo # <<>>, NEW q \in Seq(Parts(Here, TRUE)), GoOn(q), UNCHANGED <<answer, reading>>,
         NEW inLists \in BOOLEAN, NEW o \in Left(inLists)
  PROVE  \/ o = Here
         \/ o \in Left(inLists)'
         \/ \E w \in Parts(Here, inLists) : w \notin Range(q) /\ o \in Inside(w, inLists)
<1>1. PICK item \in Pending : o \in Inside(item.val, inLists)
  BY DEF Left
<1>2. CASE item \in Pending'
  BY <1>1, <1>2 DEF Left
<1>3. CASE item = Head(todo)
  <2>1. o \in Inside(Here, inLists)
    BY <1>1, <1>3 DEF Here
  <2>2. Inside(Here, inLists) = {Here} \cup UNION {Inside(w, inLists) : w \in Parts(Here, inLists)}
    BY InsideHere
  <2>3. ASSUME NEW w \in Range(q), o \in Inside(w, inLists)
        PROVE  o \in Left(inLists)'
    <3>1. PICK i \in DOMAIN q : w = q[i]
      BY <2>3 DEF Range
    <3>2. Item(q[i], FALSE) \in Pending' /\ Item(q[i], FALSE).val = w
      BY <3>1, GoesOn DEF Item
    <3> QED
      BY <2>3, <3>2 DEF Left
  <2> QED
    BY <2>1, <2>2, <2>3
<1> QED
  BY <1>1, <1>2, <1>3, GoesOn

\* A walk that goes on with all the parts of a value, or that comes to one that
\* has none, has dealt with that value only.
LEMMA WholeStep ==
  ASSUME ATypeOK, todo # <<>>, NEW q \in Seq(Parts(Here, TRUE)), GoOn(q), UNCHANGED <<answer, reading>>,
         NEW inLists \in BOOLEAN, Parts(Here, inLists) \subseteq Range(q), NEW o \in Left(inLists)
  PROVE  o = Here \/ o \in Left(inLists)'
BY LeftStep

\* The orders of the fields of an object are orders of its parts.
LEMMA OrdersOfParts ==
  \A fields : IsFiniteSet(fields) => \A q \in Orders(fields) :
    /\ q \in Seq({f.val : f \in fields})
    /\ Range(q) = {f.val : f \in fields}
<1> TAKE fields
<1> HAVE IsFiniteSet(fields)
<1> TAKE q \in Orders(fields)
<1> DEFINE V == {f.val : f \in fields}
           n == Cardinality(V)
<1>1. q \in [1..n -> V] /\ \A v \in V : \E i \in DOMAIN q : q[i] = v
  BY DEF Orders
<1>2. n \in Nat
  <2>1. [f \in fields |-> f.val] \in Surjection(fields, V)
    BY DEF Surjection
  <2> QED
    BY <2>1, FS_Surjection, FS_CardinalityType
<1> HIDE DEF V, n
<1>3. q \in UNION {[1..k -> V] : k \in Nat}
  BY <1>1, <1>2
<1>4. q \in Seq(V) /\ Range(q) = V
  BY <1>1, <1>3, SeqDef DEF Range
<1> QED
  BY <1>4 DEF V


\* A walk starts with the whole answer.
LEMMA WalkInit ==
  ASSUME AnswerInit
  PROVE  /\ ATypeOK
         /\ Pending = {Item(v, TRUE) : v \in Whole}
         /\ \A inLists \in BOOLEAN : All(inLists) \subseteq Left(inLists)
<1>1. answer \in Seq(Whole) /\ \A v \in Whole, inLists \in BOOLEAN : v \in All(inLists)
  BY InsideWhole DEF AnswerInit
<1>2. Pending = {Item(v, TRUE) : v \in Whole}
  BY DEF AnswerInit, Pending, Whole, Range
<1>3. todo \in Walk
  <2> DEFINE T == [val : All(TRUE), top : BOOLEAN]
  <2>1. DOMAIN answer = 1..Len(answer) /\ Len(answer) \in Nat
    BY <1>1
  <2>2. \A i \in DOMAIN answer : Item(answer[i], TRUE) \in T
    BY <1>1 DEF Whole, Range, Item
  <2>3. todo \in [1..Len(answer) -> T]
    BY <2>1, <2>2 DEF AnswerInit
  <2> HIDE DEF T
  <2>4. todo \in UNION {[1..n -> T] : n \in Nat}
    BY <2>1, <2>3
  <2> QED
    BY <2>4, SeqDef DEF Walk, T
<1>4. ATypeOK
  BY <1>2, <1>3 DEF AnswerInit, ATypeOK, Item
<1>5. ASSUME NEW inLists \in BOOLEAN
      PROVE  All(inLists) \subseteq Left(inLists)
  <2> SUFFICES ASSUME NEW o \in All(inLists)
               PROVE  o \in Left(inLists)
    OBVIOUS
  <2>1. PICK v \in Whole : o \in Inside(v, inLists)
    BY DEF All, Whole, Range
  <2>2. Item(v, TRUE) \in Pending /\ Item(v, TRUE).val = v
    BY <1>2 DEF Item
  <2> QED
    BY <2>1, <2>2 DEF Left
<1> QED
  BY <1>2, <1>4, <1>5

\* The same of the fields of the next value.
LEMMA OrdersOfHere ==
  ASSUME ATypeOK, todo # <<>>, Here.kind = "object"
  PROVE  \A q \in Orders(Here.of) : q \in Seq(Parts(Here, TRUE)) /\ Range(q) = Parts(Here, TRUE)
<1>1. IsFiniteSet(Here.of)
  BY NextOfPending, InsideAnswer DEF ATypeOK
<1>2. Parts(Here, TRUE) = {f.val : f \in Here.of}
  BY DEF Parts
<1> QED
  BY <1>1, <1>2, OrdersOfParts

\* Of the fields of an object that are not texts.
LEMMA NestedOfHere ==
  ASSUME ATypeOK, todo # <<>>, Here.kind = "object"
  PROVE  \A q \in Orders({f \in Here.of : f.val.kind # "text"}) :
           /\ q \in Seq(Parts(Here, TRUE))
           /\ \A w \in Parts(Here, TRUE) : w \in Range(q) \/ w.kind = "text"
<1> DEFINE nested == {f \in Here.of : f.val.kind # "text"}
           V == {f.val : f \in nested}
<1>1. IsFiniteSet(nested)
  BY NextOfPending, InsideAnswer, FS_Subset DEF ATypeOK
<1>2. Parts(Here, TRUE) = {f.val : f \in Here.of}
  BY DEF Parts
<1> SUFFICES ASSUME NEW q \in Orders(nested)
             PROVE  /\ q \in Seq(Parts(Here, TRUE))
                    /\ \A w \in Parts(Here, TRUE) : w \in Range(q) \/ w.kind = "text"
  OBVIOUS
<1>3. q \in Seq(V) /\ Range(q) = V
  BY <1>1, OrdersOfParts
<1>4. V \subseteq Parts(Here, TRUE) /\ \A w \in Parts(Here, TRUE) : w \in V \/ w.kind = "text"
  BY <1>2
<1> HIDE DEF V
<1> QED
  BY <1>3, <1>4, SeqWider

\* And of the values of a list.
LEMMA ItemsOfHere ==
  ASSUME ATypeOK, todo # <<>>, Here.kind = "list"
  PROVE  Here.of \in Seq(Parts(Here, TRUE)) /\ Range(Here.of) = Parts(Here, TRUE)
BY NextOfPending, InsideAnswer DEF ATypeOK, Parts, Range

-----------------------------------------------------------------------------
(* cellCount                                                               *)

Called == UNION {{f.val : f \in FieldsOf(o, "cells")} : o \in Objects(FALSE)}
CellLists == {v \in Called \cup Whole : v.kind = "list"}

\* What is called cells is the value of such a field.
LEMMA CalledFields ==
  \A v : v \in Called <=> \E o \in Objects(FALSE) : \E f \in FieldsOf(o, "cells") : v = f.val
<1> TAKE v
<1>1. v \in Called <=> \E o \in Objects(FALSE) : v \in {f.val : f \in FieldsOf(o, "cells")}
  BY Zenon DEF Called
<1> QED
  BY <1>1

\* Until it is found, no object that has a field called cells and no list that
\* is a part of the answer is behind the walk, unless it has met something else
\* that is called cells.
CountInv ==
  reading = "count" =>
    /\ Left(FALSE) \subseteq All(FALSE)
    /\ IF found = NotFound
       THEN \/ \E v \in Called : v.kind # "list"
            \/ /\ \A o \in Objects(FALSE) : FieldsOf(o, "cells") = {} \/ o \in Left(FALSE)
               /\ \A v \in Whole : v.kind = "list" => Item(v, TRUE) \in Pending
       ELSE todo = <<>> /\ \E v \in CellLists : found = Found(Len(v.of))


LEMMA CountInit == AnswerInit => CountInv
<1> SUFFICES ASSUME AnswerInit
             PROVE  CountInv
  OBVIOUS
<1>1. Left(FALSE) \subseteq All(FALSE)
  <2>1. \A v \in Whole : Inside(v, FALSE) \subseteq All(FALSE)
    BY DEF Whole, Range, All
  <2> SUFFICES ASSUME NEW item \in Pending, NEW o \in Inside(item.val, FALSE)
               PROVE  o \in All(FALSE)
    BY DEF Left
  <2>2. item.val \in Whole
    BY WalkInit DEF Item
  <2> QED
    BY <2>1, <2>2
<1>2. \A o \in Objects(FALSE) : o \in Left(FALSE)
  BY WalkInit DEF Objects
<1>3. found = NotFound
  BY DEF AnswerInit
<1> QED
  BY <1>1, <1>2, <1>3, WalkInit DEF CountInv

\* What cellCount has returned is the length of a list of cells.
LEMMA CountReturns ==
  ASSUME ATypeOK, reading = "count", UNCHANGED <<answer, reading>>,
         NEW v \in CellLists, Return(Len(v.of))
  PROVE  ATypeOK' /\ CountInv'
<1>1. Pending' = {} /\ Left(FALSE)' = {} /\ todo' \in Walk' /\ todo' = <<>>
  BY DEF Return, Pending, Range, Walk, Left
<1>2. CellLists' = CellLists /\ Whole' = Whole
  BY DEF CellLists, Called, Whole, Objects, All
<1>3. found' # NotFound /\ found' = Found(Len(v.of))
  BY DEF Return, Found, NotFound
<1> QED
  BY <1>1, <1>2, <1>3 DEF ATypeOK, CountInv

\* A walk that goes on with parts of a value that are not only for lists stays
\* where it counts.
LEMMA CountGoesOn ==
  ASSUME ATypeOK, CountInv, reading = "count", todo # <<>>, UNCHANGED <<answer, reading>>,
         NEW q \in Seq(Parts(Here, TRUE)), GoOn(q), Here.kind # "list" \/ q = <<>>,
         \/ \E v \in Called : v.kind # "list"
         \/ /\ Parts(Here, FALSE) \subseteq Range(q)
            /\ FieldsOf(Here, "cells") = {} \/ Here.kind # "object"
            /\ ~(Head(todo).top /\ Here.kind = "list")
  PROVE  CountInv'
<1> USE DEF CountInv
<1>1. found = NotFound /\ found' = NotFound
  BY DEF GoOn
<1>2. Called' = Called /\ Whole' = Whole /\ Objects(FALSE)' = Objects(FALSE) /\ All(FALSE)' = All(FALSE)
  BY DEF Called, Whole, Objects, All
<1>3. Left(FALSE)' \subseteq All(FALSE)
  <2> SUFFICES ASSUME NEW item \in Pending', NEW o \in Inside(item.val, FALSE)
               PROVE  o \in All(FALSE)
    BY DEF Left
  <2>1. CASE item \in Pending
    BY <2>1 DEF Left
  <2>2. ASSUME NEW i \in DOMAIN q, item = Item(q[i], FALSE)
        PROVE  o \in All(FALSE)
    <3>1. item.val = q[i] /\ q[i] \in Parts(Here, TRUE) /\ Here.kind # "list"
      <4>1. q[i] \in Parts(Here, TRUE)
        BY ElementsOfSeq
      <4>2. q # <<>>
        BY <2>2
      <4> QED
        BY <2>2, <4>1, <4>2 DEF Item
    <3>2. q[i] \in Parts(Here, FALSE)
      BY <3>1 DEF Parts
    <3>3. o \in Inside(Here, FALSE)
      BY <3>1, <3>2, InsideHere
    <3> QED
      BY <3>3, NextOfPending DEF Left, Here
  <2> QED
    BY <2>1, <2>2, GoesOn
<1>4. CASE \E v \in Called : v.kind # "list"
  BY <1>1, <1>2, <1>3, <1>4
<1>5. CASE /\ ~\E v \in Called : v.kind # "list"
           /\ Parts(Here, FALSE) \subseteq Range(q)
           /\ FieldsOf(Here, "cells") = {} \/ Here.kind # "object"
           /\ ~(Head(todo).top /\ Here.kind = "list")
  <2>1. ASSUME NEW o \in Objects(FALSE), FieldsOf(o, "cells") # {}
        PROVE  o \in Left(FALSE)'
    <3>1. o \in Left(FALSE) /\ o # Here
      BY <1>1, <1>5, <2>1 DEF Objects
    <3> QED
      BY <1>5, <3>1, WholeStep
  <2>2. ASSUME NEW v \in Whole, v.kind = "list"
        PROVE  Item(v, TRUE) \in Pending'
    <3>1. Item(v, TRUE) \in Pending
      BY <1>1, <1>5, <2>2
    <3>2. Item(v, TRUE) # Head(todo)
      <4>1. Item(v, TRUE).top /\ Item(v, TRUE).val = v
        BY DEF Item
      <4> QED
        BY <1>5, <2>2, <4>1 DEF Here
    <3> QED
      BY <3>1, <3>2, GoesOn
  <2> QED
    BY <1>1, <1>2, <1>3, <2>1, <2>2
<1> QED
  BY <1>4, <1>5

\* The next value of a count is one that the count may reach.
LEMMA CountHere ==
  ASSUME ATypeOK, CountInv, reading = "count", todo # <<>>
  PROVE  Here \in All(FALSE) /\ (Head(todo).top => Here \in Whole)
<1>1. Here \in Left(FALSE)
  BY NextOfPending, InsideHere DEF Left, Here
<1> QED
  BY <1>1, NextOfPending DEF CountInv, ATypeOK, Here

LEMMA CountStep ==
  ASSUME ATypeOK, CountInv, cellCount
  PROVE  ATypeOK' /\ CountInv'
<1> USE DEF Meets
<1>1. reading = "count" /\ todo # <<>> /\ UNCHANGED <<answer, reading>>
  BY DEF cellCount, CountList, CountCells, CountFields, CountOther
<1>2. <<>> \in Seq(Parts(Here, TRUE)) /\ Range(<<>>) = {}
  BY DEF Range
<1>3. CASE CountList
  <2>1. CASE Head(todo).top
    <3>1. Here \in CellLists /\ Return(Len(Here.of))
      BY <1>1, <1>3, <2>1, CountHere DEF CellLists, CountList, TakesList, Here
    <3> QED
      BY <1>1, <3>1, CountReturns
  <2>2. CASE ~Head(todo).top
    <3>1. GoOn(<<>>) /\ Here.kind = "list"
      BY <1>3, <2>2 DEF CountList, TakesList, Here
    <3>2. Parts(Here, FALSE) = {}
      BY <3>1 DEF Parts
    <3> QED
      BY <1>1, <1>2, <2>2, <3>1, <3>2, CountGoesOn, GoesOn
  <2> QED
    BY <2>1, <2>2
<1>4. CASE CountCells
  <2>1. PICK f \in FieldsOf(Here, "cells") : IF f.val.kind = "list" THEN Return(Len(f.val.of)) ELSE GoOn(<<>>)
    BY <1>4 DEF CountCells
  <2>2. Here.kind = "object" /\ Here \in Objects(FALSE)
    BY <1>1, <1>4, CountHere DEF CountCells, Objects, Here
  <2>3. f.val \in Called
    BY <2>1, <2>2, CalledFields
  <2>4. CASE f.val.kind = "list"
    BY <1>1, <2>1, <2>3, <2>4, CountReturns DEF CellLists
  <2>5. CASE f.val.kind # "list"
    BY <1>1, <1>2, <2>1, <2>2, <2>3, <2>5, CountGoesOn, GoesOn
  <2> QED
    BY <2>4, <2>5
<1>5. CASE CountFields
  <2>1. PICK q \in Orders(Here.of) : GoOn(q)
    BY <1>5 DEF CountFields
  <2>2. Here.kind = "object" /\ FieldsOf(Here, "cells") = {}
    BY <1>5 DEF CountFields, Here
  <2>3. q \in Seq(Parts(Here, TRUE)) /\ Range(q) = Parts(Here, TRUE)
    BY <1>1, <2>2, OrdersOfHere
  <2>4. Parts(Here, FALSE) = Parts(Here, TRUE)
    BY <2>2 DEF Parts
  <2> QED
    BY <1>1, <2>1, <2>2, <2>3, <2>4, CountGoesOn, GoesOn
<1>6. CASE CountOther
  <2>1. GoOn(<<>>) /\ Here.kind \in {"text", "prose"}
    BY <1>6 DEF CountOther, Here
  <2>2. Parts(Here, FALSE) = {}
    BY <2>1 DEF Parts
  <2> QED
    BY <1>1, <1>2, <2>1, <2>2, CountGoesOn, GoesOn
<1> QED
  BY <1>3, <1>4, <1>5, <1>6 DEF cellCount

\* A count comes to an end with a list of cells if there is one.
LEMMA CountEnd == ATypeOK /\ CountInv => CountExact
<1> SUFFICES ASSUME ATypeOK, CountInv, reading = "count", todo = <<>>
             PROVE  IF found = NotFound THEN CellLists = {} \/ \E v \in Called : v.kind # "list"
                    ELSE \E v \in CellLists : found = Found(Len(v.of))
  BY DEF CountExact, CellLists, Called, Whole, Range
<1>1. Pending = {} /\ Left(FALSE) = {}
  BY DEF Pending, Left, Range
<1>2. CASE found = NotFound /\ ~\E v \in Called : v.kind # "list"
  <2>1. Called = {}
    <3>1. \A o \in Objects(FALSE) : FieldsOf(o, "cells") = {}
      BY <1>1, <1>2 DEF CountInv
    <3> QED
      BY <3>1, CalledFields
  <2> QED
    BY <1>1, <1>2, <2>1 DEF CountInv, CellLists
<1> QED
  BY <1>2 DEF CountInv

-----------------------------------------------------------------------------
(* findMarkedCellID                                                        *)

\* An object that the search is for.
HasMarkedId(o) == containsMarker(o) /\ idFromMap(o) # {}

\* Until an id is found, no such object is behind the walk.
LocateInv ==
  reading = "locate" =>
    IF found = NotFound THEN \A o \in Objects(TRUE) : HasMarkedId(o) => o \in Left(TRUE)
    ELSE /\ todo = <<>>
         /\ \E o \in Objects(TRUE) : containsMarker(o) /\ \E i \in idFromMap(o) : found = Found(i)

LEMMA LocateInit == AnswerInit => LocateInv
<1> SUFFICES ASSUME AnswerInit
             PROVE  LocateInv
  OBVIOUS
<1>1. \A o \in Objects(TRUE) : o \in Left(TRUE)
  BY WalkInit DEF Objects
<1> QED
  BY <1>1 DEF LocateInv, AnswerInit

\* A walk that goes on with all the parts of a value keeps what there is to
\* find before it.
LEMMA LocateGoesOn ==
  ASSUME ATypeOK, LocateInv, reading = "locate", todo # <<>>, UNCHANGED <<answer, reading>>,
         NEW q \in Seq(Parts(Here, TRUE)), GoOn(q), Parts(Here, TRUE) = Range(q),
         ~(Here.kind = "object" /\ HasMarkedId(Here))
  PROVE  ATypeOK' /\ LocateInv'
<1>1. found = NotFound /\ found' = NotFound
  BY DEF GoOn, LocateInv
<1>2. Objects(TRUE)' = Objects(TRUE)
  BY DEF Objects, All
<1>3. ASSUME NEW o \in Objects(TRUE), HasMarkedId(o)
      PROVE  o \in Left(TRUE)'
  <2>1. o \in Left(TRUE) /\ o # Here
    BY <1>1, <1>3 DEF LocateInv, Objects
  <2> QED
    BY <2>1, WholeStep
<1> QED
  BY <1>1, <1>2, <1>3, GoesOn DEF LocateInv

LEMMA LocateStep ==
  ASSUME ATypeOK, LocateInv, findMarkedCellID
  PROVE  ATypeOK' /\ LocateInv'
<1> USE DEF Meets
<1>1. reading = "locate" /\ todo # <<>> /\ UNCHANGED <<answer, reading>>
  BY DEF findMarkedCellID, VisitMarked, VisitFields, VisitList, VisitOther
<1>2. CASE VisitMarked
  <2>1. PICK i \in idFromMap(Here) : Return(i)
    BY <1>2 DEF VisitMarked
  <2>2. Here \in Objects(TRUE) /\ containsMarker(Here)
    BY <1>1, <1>2, NextOfPending DEF VisitMarked, Objects, Here
  <2>3. Objects(TRUE)' = Objects(TRUE)
    BY <1>1 DEF Objects, All
  <2>4. Pending' = {} /\ todo' \in Walk' /\ todo' = <<>> /\ found' # NotFound /\ found' = Found(i)
    BY <2>1 DEF Return, Pending, Range, Walk, Found, NotFound
  <2> QED
    BY <1>1, <2>2, <2>3, <2>4 DEF ATypeOK, LocateInv
<1>3. CASE VisitFields
  <2>1. PICK q \in Orders(Here.of) : GoOn(q)
    BY <1>3 DEF VisitFields
  <2>2. Here.kind = "object" /\ ~HasMarkedId(Here)
    BY <1>3 DEF VisitFields, Here, HasMarkedId
  <2> QED
    BY <1>1, <2>1, <2>2, OrdersOfHere, LocateGoesOn
<1>4. CASE VisitList
  <2>1. GoOn(Here.of) /\ Here.kind = "list"
    BY <1>4 DEF VisitList, Here
  <2> QED
    BY <1>1, <2>1, ItemsOfHere, LocateGoesOn
<1>5. CASE VisitOther
  <2>1. GoOn(<<>>) /\ Here.kind \in {"text", "prose"}
    BY <1>5 DEF VisitOther, Here
  <2>2. <<>> \in Seq(Parts(Here, TRUE)) /\ Range(<<>>) = {} /\ Parts(Here, TRUE) = {}
    BY <2>1 DEF Range, Parts
  <2> QED
    BY <1>1, <2>1, <2>2, LocateGoesOn
<1> QED
  BY <1>2, <1>3, <1>4, <1>5 DEF findMarkedCellID

\* The search comes to an end with the id of an object that has the marker, if
\* there is one.
LEMMA LocateEnd == ATypeOK /\ LocateInv => LookupExact
<1> DEFINE marked == {p \in Objects(TRUE) : containsMarker(p)}
           ids == UNION {idFromMap(o) : o \in marked}
<1> SUFFICES ASSUME ATypeOK, LocateInv, reading = "locate", todo = <<>>
             PROVE  IF ids = {} THEN found = NotFound ELSE \E i \in ids : found = Found(i)
  BY DEF LookupExact
<1>1. Left(TRUE) = {}
  BY DEF Pending, Left, Range
<1>2. \A i : i \in ids <=> \E o \in marked : i \in idFromMap(o)
  OBVIOUS
<1> HIDE DEF ids
<1>3. CASE found = NotFound
  <2>1. \A o \in marked : idFromMap(o) = {}
    BY <1>1, <1>3 DEF LocateInv, HasMarkedId
  <2> QED
    BY <1>2, <1>3, <2>1
<1>4. CASE found # NotFound
  BY <1>2, <1>4 DEF LocateInv
<1> QED
  BY <1>3, <1>4

-----------------------------------------------------------------------------
(* candidateCellID                                                         *)

Under(k) == UNION {IdsUnder(o, k) : o \in Objects(TRUE)}
Named == Under("cellId") \cup Under("cell_id")
Spoken == UNION {v.of : v \in {answer[i] : i \in {j \in DOMAIN answer : answer[j].kind = "prose"}}}

Recorded(o) == /\ IdsUnder(o, "cellId") \cup IdsUnder(o, "cell_id") \subseteq explicit
               /\ IdsUnder(o, "id") \subseteq bare

\* What is recorded is in the answer, and what is not is before the walk.
OfferInv ==
  reading = "offer" =>
    /\ explicit \subseteq Named /\ bare \subseteq Under("id") /\ textual \subseteq Spoken
    /\ \A o \in Objects(TRUE) : Recorded(o) \/ o \in Left(TRUE)
    /\ \A v \in Whole : v.kind = "prose" => v.of \subseteq textual \/ Item(v, TRUE) \in Pending

\* Where the ids come from.
LEMMA UnderObjects ==
  \A k, i : i \in Under(k) <=> \E o \in Objects(TRUE) : i \in IdsUnder(o, k)
BY DEF Under

LEMMA SpokenOf ==
  \A i : i \in Spoken <=> \E v \in Whole : v.kind = "prose" /\ i \in v.of
BY DEF Spoken, Whole, Range

LEMMA OfferInit == AnswerInit => OfferInv
<1> SUFFICES ASSUME AnswerInit
             PROVE  OfferInv
  OBVIOUS
<1>1. \A o \in Objects(TRUE) : o \in Left(TRUE)
  BY WalkInit DEF Objects
<1>2. \A v \in Whole : Item(v, TRUE) \in Pending
  BY WalkInit
<1> QED
  BY <1>1, <1>2 DEF OfferInv, AnswerInit

\* A walk goes on past a value when its ids are recorded, and leaves out of its
\* parts at most texts, in which there is no object.
LEMMA OfferGoesOn ==
  ASSUME ATypeOK, OfferInv, reading = "offer", todo # <<>>, UNCHANGED <<answer, reading>>,
         NEW q \in Seq(Parts(Here, TRUE)), GoOn(q),
         \A w \in Parts(Here, TRUE) : w \in Range(q) \/ w.kind = "text",
         explicit \subseteq explicit', bare \subseteq bare', textual \subseteq textual',
         explicit' \subseteq Named, bare' \subseteq Under("id"), textual' \subseteq Spoken,
         Here.kind = "object" =>
           /\ IdsUnder(Here, "cellId") \cup IdsUnder(Here, "cell_id") \subseteq explicit'
           /\ IdsUnder(Here, "id") \subseteq bare',
         Here.kind = "prose" => Here.of \subseteq textual'
  PROVE  ATypeOK' /\ OfferInv'
<1>1. /\ Objects(TRUE)' = Objects(TRUE) /\ Whole' = Whole /\ Spoken' = Spoken
      /\ Named' = Named /\ Under("id")' = Under("id")
  BY DEF Objects, All, Whole, Spoken, Named, Under
<1>2. ASSUME NEW o \in Objects(TRUE)
      PROVE  Recorded(o)' \/ o \in Left(TRUE)'
  <2>1. CASE Recorded(o)
    BY <2>1 DEF Recorded
  <2>2. CASE o = Here
    BY <2>2 DEF Objects, Recorded
  <2>3. CASE o \in Left(TRUE) /\ o # Here
    <3>1. ASSUME NEW w \in Parts(Here, TRUE), w.kind = "text", o \in Inside(w, TRUE)
          PROVE  FALSE
      <4>1. w \in All(TRUE) /\ answer \in Shapes
        BY NextOfPending, InsideAnswer DEF ATypeOK
      <4>2. Inside(w, TRUE) = {w} \cup UNION {Inside(u, TRUE) : u \in Parts(w, TRUE)}
        BY <4>1, InsideAnswer
      <4>3. Parts(w, TRUE) = {}
        BY <3>1 DEF Parts
      <4> QED
        BY <3>1, <4>2, <4>3 DEF Objects
    <3> QED
      BY <2>3, <3>1, LeftStep
  <2> QED
    BY <2>1, <2>2, <2>3 DEF OfferInv
<1>3. ASSUME NEW v \in Whole, v.kind = "prose"
      PROVE  v.of \subseteq textual' \/ Item(v, TRUE) \in Pending'
  <2>1. CASE v.of \subseteq textual
    BY <2>1
  <2>2. CASE Item(v, TRUE) \in Pending
    <3>1. CASE Item(v, TRUE) = Head(todo)
      BY <1>3, <3>1 DEF Item, Here
    <3> QED
      BY <2>2, <3>1, GoesOn
  <2> QED
    BY <1>3, <2>1, <2>2 DEF OfferInv
<1> QED
  BY <1>1, <1>2, <1>3, GoesOn DEF OfferInv

LEMMA OfferStep ==
  ASSUME ATypeOK, OfferInv, walkStrings
  PROVE  ATypeOK' /\ OfferInv'
<1> USE DEF Meets
<1>1. reading = "offer" /\ todo # <<>> /\ UNCHANGED <<answer, reading>>
  BY DEF walkStrings, RecordFields, RecordList, VisitList, RecordProse, RecordOther
<1>2. explicit \subseteq Named /\ bare \subseteq Under("id") /\ textual \subseteq Spoken
  BY <1>1 DEF OfferInv
<1>3. CASE RecordFields
  <2> DEFINE nested == {f \in Here.of : f.val.kind # "text"}
  <2>1. PICK q \in Orders(nested) : GoOn(q)
    BY <1>3 DEF RecordFields
  <2>2. Here.kind = "object" /\ Here \in Objects(TRUE)
    BY <1>1, <1>3, NextOfPending DEF RecordFields, Here, Objects
  <2>3. q \in Seq(Parts(Here, TRUE)) /\ \A w \in Parts(Here, TRUE) : w \in Range(q) \/ w.kind = "text"
    BY <1>1, <2>2, NestedOfHere
  <2>4. /\ explicit' = explicit \cup IdsUnder(Here, "cellId") \cup IdsUnder(Here, "cell_id")
        /\ bare' = bare \cup IdsUnder(Here, "id")
        /\ textual' = textual
    BY <1>3 DEF RecordFields
  <2>5. explicit' \subseteq Named /\ bare' \subseteq Under("id")
    BY <1>2, <2>2, <2>4, UnderObjects DEF Named
  <2> QED
    BY <1>1, <1>2, <2>1, <2>2, <2>3, <2>4, <2>5, OfferGoesOn
<1>4. CASE RecordList
  <2>1. GoOn(Here.of) /\ Here.kind = "list" /\ UNCHANGED idVars
    BY <1>4 DEF RecordList, VisitList, Here
  <2> QED
    BY <1>1, <1>2, <2>1, ItemsOfHere, OfferGoesOn DEF idVars
<1>5. CASE RecordProse \/ RecordOther
  <2>1. /\ GoOn(<<>>) /\ Here.kind \in {"text", "prose"} /\ UNCHANGED <<explicit, bare>>
        /\ textual' = IF Here.kind = "prose" THEN textual \cup Here.of ELSE textual
    BY <1>5 DEF RecordProse, RecordOther, Here, idVars
  <2>2. <<>> \in Seq(Parts(Here, TRUE)) /\ Parts(Here, TRUE) = {}
    BY <2>1 DEF Parts
  <2>3. Here.kind = "prose" => Here \in Whole
    BY <1>1, NextOfPending DEF ATypeOK, Here
  <2>4. textual' \subseteq Spoken
    BY <1>2, <2>1, <2>3, SpokenOf
  <2> QED
    BY <1>1, <1>2, <2>1, <2>2, <2>4, OfferGoesOn
<1> QED
  BY <1>3, <1>4, <1>5 DEF walkStrings

\* The ids of the first of the tiers that has any.
LEMMA FirstTier ==
  \A E, B, T : candidateCellID(<<E, B, T>>) = IF E # {} THEN E ELSE IF B # {} THEN B ELSE T
<1> TAKE E, B, T
<1> DEFINE tiers == <<E, B, T>>
           used == {k \in 1..3 : tiers[k] # {}}
           first == {j \in used : \A l \in used : j <= l}
<1>1. candidateCellID(tiers) = UNION {tiers[k] : k \in first}
  BY Zenon DEF candidateCellID
<1>2. tiers[1] = E /\ tiers[2] = B /\ tiers[3] = T
  OBVIOUS
<1>3. \A k : k \in used <=> k \in {1, 2, 3} /\ tiers[k] # {}
  OBVIOUS
<1> HIDE DEF tiers, used
<1>4. CASE E # {}
  <2>1. first = {1}
    BY <1>2, <1>3, <1>4
  <2> QED
    BY <1>1, <1>2, <1>4, <2>1 DEF tiers
<1>5. CASE E = {} /\ B # {}
  <2>1. first = {2}
    BY <1>2, <1>3, <1>5
  <2> QED
    BY <1>1, <1>2, <1>5, <2>1 DEF tiers
<1>6. CASE E = {} /\ B = {} /\ T # {}
  <2>1. first = {3}
    BY <1>2, <1>3, <1>6
  <2> QED
    BY <1>1, <1>2, <1>6, <2>1 DEF tiers
<1>7. CASE E = {} /\ B = {} /\ T = {}
  <2>1. first = {}
    BY <1>2, <1>3, <1>7
  <2> QED
    BY <1>1, <1>2, <1>7, <2>1 DEF tiers
<1> QED
  BY <1>4, <1>5, <1>6, <1>7

\* At its end the walk has recorded all the ids there are, and no other.
LEMMA OfferEnd == ATypeOK /\ OfferInv => NoGuessedCell
<1> DEFINE others(i) == (Named \cup (IF i \in Named THEN {} ELSE Under("id"))
                         \cup (IF i \in Named \cup Under("id") THEN {} ELSE Spoken)) \ {i}
           offered == candidateCellID(<<explicit, bare, textual>>)
<1> SUFFICES ASSUME ATypeOK, OfferInv, reading = "offer", todo = <<>>
             PROVE  /\ \A i \in offered : offered = {i} => others(i) = {}
                    /\ offered = {} => Named \cup Under("id") \cup Spoken = {}
                    /\ offered \subseteq Named \cup Under("id") \cup Spoken
  BY Zenon DEF NoGuessedCell, Named, Under, Spoken
<1>1. Pending = {} /\ Left(TRUE) = {}
  BY DEF Pending, Left, Range
<1>2. explicit = Named /\ bare = Under("id")
  <2>1. \A o \in Objects(TRUE) : Recorded(o)
    BY <1>1 DEF OfferInv
  <2>2. Named \subseteq explicit /\ Under("id") \subseteq bare
    BY <2>1, UnderObjects DEF Named, Recorded
  <2> QED
    BY <2>2 DEF OfferInv
<1>3. textual = Spoken
  BY <1>1, SpokenOf DEF OfferInv
<1>4. offered = IF Named # {} THEN Named ELSE IF Under("id") # {} THEN Under("id") ELSE Spoken
  BY <1>2, <1>3, FirstTier
<1> HIDE DEF offered
<1> QED
  BY <1>4

-----------------------------------------------------------------------------
(* The walks                                                               *)

AnswersInv == ATypeOK /\ CountInv /\ LocateInv /\ OfferInv

\* The walk of one reading leaves the others as they are.
LEMMA AnswersStep == AnswersInv /\ [AnswerNext]_answerVars => AnswersInv'
<1> SUFFICES ASSUME AnswersInv, [AnswerNext]_answerVars
             PROVE  AnswersInv'
  OBVIOUS
<1> USE DEF AnswersInv
<1>1. CASE UNCHANGED answerVars
  <2> USE <1>1 DEF answerVars, idVars
  <2>1. /\ Pending' = Pending /\ Whole' = Whole /\ Walk' = Walk
        /\ \A inLists \in BOOLEAN : All(inLists)' = All(inLists) /\ Left(inLists)' = Left(inLists)
    BY DEF Pending, Whole, Walk, All, Left
  <2>2. ATypeOK'
    BY <2>1 DEF ATypeOK
  <2>3. CountInv'
    BY <2>1 DEF CountInv, CellLists, Called, Objects
  <2>4. LocateInv'
    BY <2>1 DEF LocateInv, Objects
  <2>5. OfferInv'
    <3>1. /\ Objects(TRUE)' = Objects(TRUE) /\ Spoken' = Spoken
          /\ Named' = Named /\ Under("id")' = Under("id")
      BY <2>1 DEF Named, Under, Spoken, Objects
    <3> QED
      BY <2>1, <3>1 DEF OfferInv, Recorded
  <2> QED
    BY <2>2, <2>3, <2>4, <2>5
<1>2. CASE cellCount
  <2>1. reading' = "count"
    BY <1>2 DEF cellCount
  <2> QED
    BY <1>2, <2>1, CountStep DEF LocateInv, OfferInv
<1>3. CASE findMarkedCellID
  <2>1. reading' = "locate"
    BY <1>3 DEF findMarkedCellID
  <2> QED
    BY <1>3, <2>1, LocateStep DEF CountInv, OfferInv
<1>4. CASE walkStrings
  <2>1. reading' = "offer"
    BY <1>4 DEF walkStrings
  <2> QED
    BY <1>4, <2>1, OfferStep DEF CountInv, LocateInv
<1> QED
  BY <1>1, <1>2, <1>3, <1>4 DEF AnswerNext

\* AnswersInv holds in every state of every walk.
THEOREM AnswersInvariance == AnswerSpec => []AnswersInv
<1>1. AnswerInit => AnswersInv
  BY WalkInit, CountInit, LocateInit, OfferInit DEF AnswersInv
<1> QED
  BY <1>1, AnswersStep, PTL DEF AnswerSpec

\* The lookup of the cell that is run (disconnect.go:453-476) finds the id of an
\* object with the marker, and misses none, in any answer and any order.
THEOREM LookupFinds == AnswerSpec => []LookupExact
<1>1. AnswersInv => LookupExact
  BY LocateEnd DEF AnswersInv
<1> QED
  BY <1>1, AnswersInvariance, PTL

\* The insertion index (disconnect.go:378-400) is the length of a list of cells,
\* and is found unless something else is called cells.
THEOREM CountFinds == AnswerSpec => []CountExact
<1>1. AnswersInv => CountExact
  BY CountEnd DEF AnswersInv
<1> QED
  BY <1>1, AnswersInvariance, PTL

\* An id taken from the add result (disconnect.go:409-445) is the only one that is
\* given in so explicit a way, anywhere in the result.
THEOREM CandidateIsOnly == AnswerSpec => []NoGuessedCell
<1>1. AnswersInv => NoGuessedCell
  BY OfferEnd DEF AnswersInv
<1> QED
  BY <1>1, AnswersInvariance, PTL

=============================================================================

---------------------------- MODULE MCCalls -------------------------------
(* The calls over a session, side by side: a behaviour is one of           *)
(* Disconnect or one of Forwarding, or the plan made for one notebook, or  *)
(* the reading of one answer, which share no state.                        *)
EXTENDS Disconnect, Forwarding, Planner, Answers, TLC

VARIABLE part

CInit == /\ DInit /\ ToolsInit
         /\ \/ /\ part \in {"disconnect", "plan", "answer"}
               /\ localToken = [f \in Forwards |-> NoToken]
            \/ part = "forward"
         /\ IF part = "plan" THEN PlanInit ELSE toolbox = <<>> /\ planned = NotPlanned
         /\ IF part = "answer" THEN AnswerInit
            ELSE answer = <<>> /\ reading = "nothing" /\ todo = <<>> /\ found = NotFound
               /\ explicit = {} /\ bare = {} /\ textual = {}

\* Bound: the client cancels one of the two disconnect calls, or the session ends.
OneInterrupts == Cardinality(cancelled') + (IF ended' THEN 1 ELSE 0) <= 1

\* Bound: two disconnect calls make one plan, of one notebook's tools, or one of
\* them adds its cell without reading the others.
OnePlan == \A c, d \in Calls : plan'[c] = plan'[d] \/ NoPlan \in {plan'[c], plan'[d]}

CNext == /\ UNCHANGED part
         /\ \/ part = "disconnect" /\ DNext /\ OneInterrupts /\ OnePlan
               /\ UNCHANGED <<toolVars, planVars, answerVars>>
            \/ part = "forward" /\ ToolsNext /\ UNCHANGED <<dvars, planVars, answerVars>>
            \/ part = "plan" /\ PlanNext /\ UNCHANGED <<dvars, toolVars, answerVars>>
            \/ part = "answer" /\ AnswerNext /\ UNCHANGED <<dvars, toolVars, planVars>>

CSpec == CInit /\ [][CNext]_<<part, dvars, toolVars, planVars, answerVars>>

\* A tool takes any of the arguments the planner knows it by, or none, and
\* requires some of them, or one the planner does not know.
Schema(names) ==
  {NoTool} \cup UNION {[props : {p}, required : SUBSET (p \cup {"other"})] :
                         p \in SUBSET names}
NotebookSchemas == [add_code_cell |-> Schema({"code", "cellIndex", "language"}),
                    get_cells     |-> Schema({}),
                    run_code_cell |-> Schema({"code", "cellId"}),
                    execute_cell  |-> Schema({"code", "cell_id"})]

\* A cell has an id, under one key or two, or none, and code, in lines or not;
\* an answer is up to two cells in an envelope, with something else beside
\* them, or two such envelopes.
Texts == {Text(w) : w \in Ids \cup {Blank, Code}}
CodeCells == {Object({Field("id", Text(i)), Field("source", s)}) :
                i \in Ids \cup {Blank}, s \in {Text(Code), Text(Blank), List(<<Text(Code)>>)}}
             \cup {Object({Field("id", Text(i)), Field("cellId", Text(j)),
                           Field("source", Text(Code))}) : i, j \in Ids}
CellLists == {List(<<>>)} \cup {List(<<c>>) : c \in CodeCells}
             \cup {List(<<c, d>>) : c, d \in CodeCells}
Beside == [key : {"cells"}, val : {Text(Blank), List(<<>>)}]
          \cup [key : {"source"}, val : {Text(Code), List(<<Text(Code)>>)}]
          \cup [key : {"id"}, val : {Text(i) : i \in Ids \cup {Blank}}]
Envelopes == {Object({Field(k, l), f}) : k \in {"cells", "other"}, l \in CellLists, f \in Beside}
OneCell == {Object({Field(k, List(<<c>>))}) : k \in {"cells", "other"}, c \in CodeCells}
Nested == {Object({Field("other", v), Field(k, w)}) :
             v, w \in OneCell \cup CodeCells, k \in {"other", "source"}}
\* What add_code_cell may answer: ids, one inside the other or not, and prose.
NewCells == {Object({Field("id", Text(i)), Field(k, v)}) :
               i \in Ids \cup {Blank}, k \in {"cell_id", "other"},
               v \in {Text(j) : j \in Ids} \cup {List(<<w>>) : w \in OneCell}}
AddAnswers == {<<Prose(S)>> : S \in SUBSET Ids}
              \cup {<<v, Prose(S)>> : v \in NewCells, S \in SUBSET Ids}
AnswerShapes == {<<v>> : v \in Texts \cup CellLists \cup Envelopes \cup Nested}
                \cup {<<v, w>> : v, w \in OneCell} \cup AddAnswers

RECURSIVE NestedIn(_, _)
NestedIn(v, inLists) == {v} \cup UNION {NestedIn(w, inLists) : w \in Parts(v, inLists)}

Symmetry == Permutations(Calls) \cup Permutations(Ids)
=============================================================================

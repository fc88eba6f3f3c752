------------------------------ MODULE Planner ------------------------------
(***************************************************************************)
(* How disconnect_colab_runtime decides what to ask of a notebook it knows *)
(* only by its tools (findExecutionPlan, findAddCellPlan and schemaAccepts *)
(* of internal/proxy/disconnect.go).  Nothing has been sent to the         *)
(* notebook yet: a plan that does not fit its tools fails in the middle of *)
(* changing it.  A schema is the names of its properties and of those it   *)
(* requires.                                                               *)
(***************************************************************************)
EXTENDS Naturals, Sequences

CONSTANTS
  NoTool,   \* no such tool, or one whose input schema cannot be read
  Schemas   \* bound: what a notebook may give as the schema of each tool

VARIABLES
  toolbox,  \* the schema of each tool of the notebook
  planned   \* the executionPlan, once findExecutionPlan has returned

planVars == <<toolbox, planned>>

\* Fault: what a schema requires is not looked at.
SchemaOffers(schema, provided) == schema # NoTool /\ provided \subseteq schema.props

SchemaAccepts(schema, provided) == /\ schema # NoTool
                                   /\ provided \subseteq schema.props
                                   /\ schema.required \subseteq provided

CanGet(tools) == SchemaAccepts(tools["get_cells"], {})

\* Fault: the fullest set of arguments is tried first.
VariantsReversed == <<{"code", "cellIndex", "language"}, {"code", "cellIndex"},
                      {"code", "language"}, {"code"}>>

\* What add_code_cell can be given, in the order it is tried.
Variants == <<{"code"}, {"code", "language"}, {"code", "cellIndex"},
              {"code", "cellIndex", "language"}>>

AddVariants(tools) ==
  {i \in 1..4 : /\ SchemaAccepts(tools["add_code_cell"], Variants[i])
                /\ "cellIndex" \in Variants[i] => CanGet(tools)}

\* findAddCellPlan: the arguments of add_code_cell, none if it is of no use.
AddArgs(tools) ==
  LET able == AddVariants(tools)
  IN IF able = {} THEN {} ELSE Variants[CHOOSE i \in able : \A j \in able : i <= j]

\* The ways to run the code, in the order of runToolNames and cellIDArgNames: by a runner that takes the code, or by
\* one that takes the id of a cell added before.
Way(tool, arg) == [tool |-> tool, arg |-> arg]
Ways == <<Way("run_code_cell", "code"), Way("run_code_cell", "cellId"),
          Way("run_code_cell", "cell_id"), Way("execute_cell", "code"),
          Way("execute_cell", "cellId"), Way("execute_cell", "cell_id")>>

Usable(tools, way) == /\ SchemaAccepts(tools[way.tool], {way.arg})
                      /\ way.arg = "code" \/ AddArgs(tools) # {}

PlanFor(tools, way) == [tool |-> way.tool, arg |-> way.arg,
                        add  |-> IF way.arg = "code" THEN {} ELSE AddArgs(tools),
                        get  |-> CanGet(tools)]

NoUsablePlan == [tool |-> "none", arg |-> "none", add |-> {}, get |-> FALSE]
NotPlanned == [NoUsablePlan EXCEPT !.tool = "unknown"]

FindExecutionPlan(tools) ==
  LET usable == {k \in 1..6 : Usable(tools, Ways[k])}
  IN IF usable = {} THEN NoUsablePlan
     ELSE PlanFor(tools, Ways[CHOOSE k \in usable : \A j \in usable : k <= j])

PlanInit ==
  /\ toolbox \in [add_code_cell : Schemas.add_code_cell, get_cells : Schemas.get_cells,
                  run_code_cell : Schemas.run_code_cell, execute_cell : Schemas.execute_cell]
  /\ planned = NotPlanned

\* session.Tools, and what is made of it.
PlanNext == /\ planned = NotPlanned
            /\ planned' = FindExecutionPlan(toolbox)
            /\ UNCHANGED toolbox

PlanSpec == PlanInit /\ [][PlanNext]_planVars

-----------------------------------------------------------------------------
(* Properties                                                              *)

\* The tool calls a plan comes to in disconnectColabRuntime: what is called,
\* and the arguments it is given.
PlanCalls(p) ==
  {[tool |-> p.tool, args |-> {p.arg}]}
  \cup (IF p.arg = "code" THEN {} ELSE {[tool |-> "add_code_cell", args |-> p.add]})
  \cup (IF "cellIndex" \in p.add THEN {[tool |-> "get_cells", args |-> {}]} ELSE {})

Fits(call) == LET schema == toolbox[call.tool]
              IN /\ schema # NoTool
                 /\ schema.required \subseteq call.args
                 /\ call.args \subseteq schema.props

\* Every plan there could be: a runner of code, or of the id of a cell that is
\* added with the code and anything else the planner knows of.
PossiblePlans ==
  [tool : {"run_code_cell", "execute_cell"}, arg : {"code"}, add : {{}}, get : {FALSE}]
  \cup [tool : {"run_code_cell", "execute_cell"}, arg : {"cellId", "cell_id"},
        add : {{"code"} \cup more : more \in SUBSET {"cellIndex", "language"}}, get : {FALSE}]

\* disconnect.go:240 and 273 (fail-closed): no call of a plan is one its tool
\* can refuse for its arguments, and a plan is found whenever some calls are
\* accepted, whatever order priorities and variants are tried in.
PlanIsExact ==
  /\ planned = NoUsablePlan =>
       ~ \E p \in PossiblePlans : \A call \in PlanCalls(p) : Fits(call)
  /\ planned \notin {NotPlanned, NoUsablePlan} =>
       \A call \in PlanCalls(planned) : Fits(call)

\* TestDisconnectRuntimePriorityPrefersRunCodeCell, and "guessing an index could
\* modify the notebook at an unintended location" (disconnect.go:329): a cell is
\* given a place or a language only when the notebook insists, a notebook that
\* can run the code with its first runner is not changed at all, and the second
\* runner is used only when the first is of no use with what can be added.
NothingNeedless ==
  planned \notin {NotPlanned, NoUsablePlan} =>
    /\ \A a \in planned.add \ {"code"} : a \in toolbox["add_code_cell"].required
    /\ planned.arg # "code" => ~Fits([tool |-> planned.tool, args |-> {"code"}])
    /\ planned.tool = "execute_cell" =>
         \A p \in PossiblePlans : p.tool = "run_code_cell" =>
           \E call \in PlanCalls(p) : ~Fits(call)
=============================================================================

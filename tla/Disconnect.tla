----------------------------- MODULE Disconnect -----------------------------
(***************************************************************************)
(* The injected tool disconnect_colab_runtime (internal/proxy): calls of   *)
(* Manager.disconnectColabRuntime over one browser session, which may end  *)
(* at any time.  A call picks a plan from the notebook's tools, adds a     *)
(* cell with a marker of its own, looks up the id of that cell, and runs   *)
(* it; the code in the cell releases the runtime.                          *)
(*                                                                         *)
(* Each remote tool call (session.CallTool) is a request the notebook      *)
(* carries out later or never, and an answer that is read, or not: a call  *)
(* that is cancelled returns, and its request stays on the wire.  The user *)
(* edits the notebook meanwhile.  A cell is its id and the call whose cell *)
(* (or a copy of whose cell) it is; an answer is the cell ids it mentions. *)
(***************************************************************************)
EXTENDS Naturals, FiniteSets

CONSTANTS
  Calls,   \* calls of disconnect_colab_runtime
  NoCall,  \* no call's marker: an ordinary cell
  Ids,     \* bound: the cell ids the notebook hands out
  NoId     \* the empty string

ASSUME CallsAssumption == NoCall \notin Calls
ASSUME IdsAssumption == NoId \notin Ids /\ IsFiniteSet(Ids)

Cell == [id : Ids, mark : Calls \cup {NoCall}]

\* executionPlan: the runner takes code (direct), or a cell is added first;
\* then get_cells may be callable (get), and add_code_cell may ask for the
\* cell count (index), which get_cells gives.
Plans == {p \in [direct : BOOLEAN, get : BOOLEAN, index : BOOLEAN] :
            (p.get => ~p.direct) /\ (p.index => p.get)}

VARIABLES
  disconnecting,  \* Manager.disconnecting
  pc,             \* where disconnectColabRuntime is, per call
  plan,           \* the executionPlan of a call
  sent,           \* the request of the remote call pc names is written
  wire,           \* the request of a call, or what became of it
  ids,            \* the cell ids in the last answer to a call
  candidates,     \* the distinct ids candidateCellID found in the add result
  target,         \* cellID
  verified,       \* lookupSucceeded
  result,         \* what the call returned
  cancelled,      \* calls whose context is done
  ended,          \* the session is over
  cells,          \* the cells of the notebook
  used,           \* cell ids handed out so far
  issued,         \* calls that wrote the request to run the unassign code
  ran             \* <<call, m>>: the run request of that call ran the code of m

notebookVars == <<cells, used, ran>>
contextVars  == <<cancelled, ended>>
lookupVars   == <<candidates, target, verified>>
dvars == <<disconnecting, pc, plan, sent, wire, ids, lookupVars, result,
           contextVars, notebookVars, issued>>

Requests == {"count", "add", "lookup", "run"}

\* The types of the variables; the runner is called with the code (direct) or
\* with a cell id, never with an empty one.
DTypeOK ==
  /\ disconnecting \in BOOLEAN
  /\ pc \in [Calls -> {"idle", "begin", "choose", "issue", "returned"} \cup Requests]
  /\ plan \in [Calls -> Plans]
  /\ sent \in [Calls -> BOOLEAN]
  /\ wire \in [Calls -> {"none", "answered", "failed"} \cup Requests]
  /\ ids \in [Calls -> SUBSET Ids]
  /\ candidates \in [Calls -> SUBSET Ids]
  /\ target \in [Calls -> Ids \cup {NoId}]
  /\ verified \in [Calls -> BOOLEAN]
  /\ result \in [Calls -> {"none", "error", "completed", "unknown"}]
  /\ cancelled \subseteq Calls
  /\ ended \in BOOLEAN
  /\ cells \subseteq Cell
  /\ used \subseteq Ids
  /\ issued \subseteq Calls
  /\ ran \subseteq Calls \X (Calls \cup {NoCall})
  /\ \A c \in Calls : pc[c] \in {"issue", "run"} => (target[c] = NoId <=> plan[c].direct)

NoPlan == [direct |-> FALSE, get |-> FALSE, index |-> FALSE]

DInit ==
  /\ disconnecting = FALSE
  /\ pc = [c \in Calls |-> "idle"]
  /\ plan = [c \in Calls |-> NoPlan]
  /\ sent = [c \in Calls |-> FALSE]
  /\ wire = [c \in Calls |-> "none"]
  /\ ids = [c \in Calls |-> {}]
  /\ candidates = [c \in Calls |-> {}]
  /\ target = [c \in Calls |-> NoId]
  /\ verified = [c \in Calls |-> FALSE]
  /\ result = [c \in Calls |-> "none"]
  /\ cancelled = {}
  /\ ended = FALSE
  /\ cells = {}
  /\ used = {}
  /\ issued = {}
  /\ ran = {}

-----------------------------------------------------------------------------
(* The steps of a call                                                     *)

PcAt(c, from, to) == pc[c] = from /\ pc' = [pc EXCEPT ![c] = to]

\* A return with the deferred disconnecting.Store(false).
Returns(c, outcome) == /\ pc' = [pc EXCEPT ![c] = "returned"]
                       /\ result' = [result EXCEPT ![c] = outcome]
                       /\ disconnecting' = FALSE

\* disconnecting.CompareAndSwap(false, true)
Begins(c) == /\ ~disconnecting
             /\ disconnecting' = TRUE
             /\ PcAt(c, "idle", "begin")
             /\ UNCHANGED <<plan, sent, wire, ids, lookupVars, result, contextVars,
                            notebookVars, issued>>

\* Fault: the deferred Store(false) is there before the flag is tested.
RejectedReleases(c) ==
  /\ disconnecting /\ pc[c] = "idle"
  /\ Returns(c, "error")
  /\ UNCHANGED <<plan, sent, wire, ids, lookupVars, contextVars, notebookVars, issued>>

Rejected(c) ==
  /\ disconnecting
  /\ PcAt(c, "idle", "returned")
  /\ result' = [result EXCEPT ![c] = "error"]
  /\ UNCHANGED <<disconnecting, plan, sent, wire, ids, lookupVars, contextVars,
                 notebookVars, issued>>

\* Connected, and the tools of the notebook have a usable plan.
FindsPlan(c) ==
  /\ ~ended /\ c \notin cancelled
  /\ \E p \in Plans :
       /\ PcAt(c, "begin", IF p.direct THEN "issue" ELSE IF p.index THEN "count" ELSE "add")
       /\ plan' = [plan EXCEPT ![c] = p]
  /\ UNCHANGED <<disconnecting, sent, wire, ids, lookupVars, result, contextVars,
                 notebookVars, issued>>

\* Not connected, the listing failed, or no plan is usable.
FindsNoPlan(c) ==
  /\ pc[c] = "begin"
  /\ Returns(c, "error")
  /\ UNCHANGED <<plan, sent, wire, ids, lookupVars, contextVars, notebookVars, issued>>

\* session.CallTool writes the request.  The writer may be past its look at the
\* context when that is cancelled; whether it is before or after the call has
\* returned makes no difference to the notebook.
Sends(c) ==
  /\ pc[c] \in Requests /\ ~sent[c]
  /\ ~ended
  /\ sent' = [sent EXCEPT ![c] = TRUE]
  /\ wire' = [wire EXCEPT ![c] = pc[c]]
  /\ issued' = IF pc[c] = "run" THEN issued \cup {c} ELSE issued
  /\ UNCHANGED <<disconnecting, pc, plan, ids, lookupVars, result, contextVars, notebookVars>>

\* session.CallTool returns what the notebook answered ...
Answered(c, request) == /\ pc[c] = request
                        /\ sent[c] /\ wire[c] = "answered"
                        /\ sent' = [sent EXCEPT ![c] = FALSE]
                        /\ wire' = [wire EXCEPT ![c] = "none"]

\* ... or an error, or an error result.  A request that was written and not
\* answered is still carried out, if the session lasts.
Fails(c, request) == /\ pc[c] = request
                     /\ (sent[c] /\ wire[c] = "failed") \/ ended \/ c \in cancelled
                     /\ sent' = [sent EXCEPT ![c] = FALSE]
                     /\ wire' = [wire EXCEPT ![c] = IF @ = "failed" THEN "none" ELSE @]

CountKnown(c) ==
  /\ Answered(c, "count")
  /\ pc' = [pc EXCEPT ![c] = "add"]
  /\ UNCHANGED <<disconnecting, plan, ids, lookupVars, result, contextVars, notebookVars, issued>>

CellAdded(c) ==
  /\ Answered(c, "add")
  /\ pc' = [pc EXCEPT ![c] = IF plan[c].get THEN "lookup" ELSE "choose"]
  /\ candidates' = [candidates EXCEPT ![c] = ids[c]]
  /\ UNCHANGED <<disconnecting, plan, ids, target, verified, result, contextVars,
                 notebookVars, issued>>

\* No cell count, or the cell was not added.
PreparationFails(c) ==
  /\ Fails(c, "count") \/ Fails(c, "add")
  /\ Returns(c, "error")
  /\ UNCHANGED <<plan, ids, lookupVars, contextVars, notebookVars, issued>>

\* findMarkedCellID: some cell that has the marker of this call.
FindsMarked(c) ==
  /\ Answered(c, "lookup")
  /\ pc' = [pc EXCEPT ![c] = "issue"]
  /\ \E i \in ids[c] : target' = [target EXCEPT ![c] = i]
  /\ verified' = [verified EXCEPT ![c] = TRUE]
  /\ UNCHANGED <<disconnecting, plan, ids, candidates, result, contextVars, notebookVars, issued>>

\* Fault: an answer without a marked cell counts as no answer.
FindsUnmarked(c) ==
  /\ Answered(c, "lookup") /\ ids[c] = {}
  /\ pc' = [pc EXCEPT ![c] = "choose"]
  /\ verified' = [verified EXCEPT ![c] = TRUE]
  /\ UNCHANGED <<disconnecting, plan, ids, candidates, target, result, contextVars,
                 notebookVars, issued>>

\* get_cells answered, and no cell in it has the marker.
FindsNone(c) ==
  /\ Answered(c, "lookup") /\ ids[c] = {}
  /\ Returns(c, "error")
  /\ verified' = [verified EXCEPT ![c] = TRUE]
  /\ UNCHANGED <<plan, ids, candidates, target, contextVars, notebookVars, issued>>

LookupFails(c) ==
  /\ Fails(c, "lookup")
  /\ pc' = [pc EXCEPT ![c] = "choose"]
  /\ UNCHANGED <<disconnecting, plan, ids, lookupVars, result, contextVars, notebookVars, issued>>

\* Without a lookup the id comes from the add result, if there is just one.
ChoosesCandidate(c) ==
  /\ PcAt(c, "choose", "issue")
  /\ \E i \in Ids : candidates[c] = {i} /\ target' = [target EXCEPT ![c] = i]
  /\ UNCHANGED <<disconnecting, plan, sent, wire, ids, candidates, verified, result,
                 contextVars, notebookVars, issued>>

NoCandidate(c) ==
  /\ pc[c] = "choose" /\ Cardinality(candidates[c]) # 1
  /\ Returns(c, "error")
  /\ UNCHANGED <<plan, sent, wire, ids, lookupVars, contextVars, notebookVars, issued>>

-----------------------------------------------------------------------------
(* issueUnassign                                                           *)

Issues(c) ==
  /\ c \notin cancelled
  /\ PcAt(c, "issue", "run")
  /\ UNCHANGED <<disconnecting, plan, sent, wire, ids, lookupVars, result, contextVars,
                 notebookVars, issued>>

CancelledBeforeIssue(c) ==
  /\ pc[c] = "issue" /\ c \in cancelled
  /\ Returns(c, "error")
  /\ UNCHANGED <<plan, sent, wire, ids, lookupVars, contextVars, notebookVars, issued>>

RunCompletes(c) ==
  /\ Answered(c, "run")
  /\ Returns(c, "completed")
  /\ UNCHANGED <<plan, ids, lookupVars, contextVars, notebookVars, issued>>

\* Fault: a cancelled context is an error whenever it is noticed.
RunCancelledIsError(c) ==
  /\ Fails(c, "run")
  /\ Returns(c, IF c \in cancelled THEN "error" ELSE "unknown")
  /\ UNCHANGED <<plan, ids, lookupVars, contextVars, notebookVars, issued>>

\* Fault: an error result counts as completed.
RunErrorCompletes(c) ==
  /\ Fails(c, "run")
  /\ Returns(c, IF wire[c] = "failed" THEN "completed" ELSE "unknown")
  /\ UNCHANGED <<plan, ids, lookupVars, contextVars, notebookVars, issued>>

\* Fault: a run that failed is tried again.
RunRetries(c) ==
  /\ Fails(c, "run")
  /\ UNCHANGED <<disconnecting, pc, plan, ids, lookupVars, result, contextVars, notebookVars,
                 issued>>

RunFails(c) ==
  /\ Fails(c, "run")
  /\ Returns(c, "unknown")
  /\ UNCHANGED <<plan, ids, lookupVars, contextVars, notebookVars, issued>>

\* Fault: only the caller's context bounds the run.
RunWaits(c) == c \in cancelled /\ RunFails(c)

\* unassignRunTimeout, 30 s.  The request is written by then, or the session is
\* over: one write takes 2 s at most (connection.go:16), and closes it if it fails.
RunTimesOut(c) ==
  /\ pc[c] = "run" /\ sent[c]
  /\ Returns(c, "unknown")
  /\ UNCHANGED <<plan, sent, wire, ids, lookupVars, contextVars, notebookVars, issued>>

-----------------------------------------------------------------------------
(* The caller, the session, and the notebook with its user                 *)

CallerCancels(c) ==
  /\ pc[c] # "returned" /\ c \notin cancelled
  /\ cancelled' = cancelled \cup {c}
  /\ UNCHANGED <<disconnecting, pc, plan, sent, wire, ids, lookupVars, result, ended,
                 notebookVars, issued>>

SessionEnds ==
  /\ ~ended
  /\ ended' = TRUE
  /\ UNCHANGED <<disconnecting, pc, plan, sent, wire, ids, lookupVars, result, cancelled,
                 notebookVars, issued>>

\* The notebook carries out a request and answers.
Answers(c, request, outcome) ==
  /\ ~ended
  /\ wire[c] = request
  /\ wire' = [wire EXCEPT ![c] = outcome]
  /\ UNCHANGED <<disconnecting, pc, plan, sent, lookupVars, result, contextVars, issued>>

Refuses(c) == /\ \E request \in Requests : Answers(c, request, "failed")
              /\ UNCHANGED <<ids, notebookVars>>

Counts(c) == Answers(c, "count", "answered") /\ UNCHANGED <<ids, notebookVars>>

\* The new cell has a new id; the answer may mention any ids.
AddsCell(c) ==
  /\ \E outcome \in {"answered", "failed"} : Answers(c, "add", outcome)
  /\ \E i \in Ids \ used : /\ cells' = cells \cup {[id |-> i, mark |-> c]}
                           /\ used' = used \cup {i}
  /\ \E S \in SUBSET Ids : ids' = [ids EXCEPT ![c] = S]
  /\ UNCHANGED ran

\* The cells with the marker of the call: the user may have edited it out of
\* some, and an answer may be in a form they cannot be found in.
ListsCells(c) ==
  /\ Answers(c, "lookup", "answered")
  /\ \E S \in SUBSET {cell.id : cell \in {d \in cells : d.mark = c}} :
       ids' = [ids EXCEPT ![c] = S]
  /\ UNCHANGED notebookVars

\* The runner runs the code, or the cell with the id; releasing the runtime
\* ends the kernel, so the answer may be an error.
Runs(c) ==
  /\ \E outcome \in {"answered", "failed"} : Answers(c, "run", outcome)
  /\ \E m \in Calls \cup {NoCall} :
       /\ IF plan[c].direct THEN m = c ELSE [id |-> target[c], mark |-> m] \in cells
       /\ ran' = ran \cup {<<c, m>>}
  /\ UNCHANGED <<ids, cells, used>>

\* The user adds a cell, possibly a copy of another one, or deletes one.
UserAdds ==
  /\ \E i \in Ids \ used, m \in {NoCall} \cup {cell.mark : cell \in cells} :
       /\ cells' = cells \cup {[id |-> i, mark |-> m]}
       /\ used' = used \cup {i}
  /\ UNCHANGED <<disconnecting, pc, plan, sent, wire, ids, lookupVars, result, contextVars,
                 issued, ran>>

UserDeletes ==
  /\ \E cell \in cells : cells' = cells \ {cell}
  /\ UNCHANGED <<disconnecting, pc, plan, sent, wire, ids, lookupVars, result, contextVars,
                 issued, used, ran>>

-----------------------------------------------------------------------------
CallStep(c) == \/ Begins(c) \/ Rejected(c) \/ FindsPlan(c) \/ FindsNoPlan(c)
               \/ Sends(c) \/ CountKnown(c) \/ CellAdded(c) \/ PreparationFails(c)
               \/ FindsMarked(c) \/ FindsNone(c) \/ LookupFails(c)
               \/ ChoosesCandidate(c) \/ NoCandidate(c)
               \/ Issues(c) \/ CancelledBeforeIssue(c)
               \/ RunCompletes(c) \/ RunFails(c) \/ RunTimesOut(c)

NotebookStep == \/ \E c \in Calls : \/ Refuses(c) \/ Counts(c) \/ AddsCell(c)
                                    \/ ListsCells(c) \/ Runs(c)
                \/ UserAdds \/ UserDeletes

DNext == \/ \E c \in Calls : CallStep(c) \/ CallerCancels(c)
         \/ SessionEnds
         \/ NotebookStep

DSpec == DInit /\ [][DNext]_dvars

\* A call that has begun goes on, and finds nothing once there is no session to
\* ask; the timer of the run expires.  The notebook and the caller owe nothing.
CallGoesOn(c) == \/ pc[c] \notin {"idle", "begin"} /\ CallStep(c)
                 \/ (ended \/ c \in cancelled) /\ FindsNoPlan(c)

DFairSpec == DSpec /\ \A c \in Calls : WF_dvars(CallGoesOn(c))

-----------------------------------------------------------------------------
(* Properties                                                              *)

InProgress(c) == pc[c] \notin {"idle", "returned"}

\* TestDisconnectRuntimeConcurrentCallRejected: a call is refused while
\* another one is in progress, and the flag is free once it is over: one call
\* at a time, and the flag tells whether there is one.
OneCallAtATime ==
  /\ \A c, d \in Calls : InProgress(c) /\ InProgress(d) => c = d
  /\ disconnecting <=> \E c \in Calls : InProgress(c)

\* disconnect.go:154: "Once the request has been dispatched there is no failure
\* that proves the cell did not execute".  A call that returned a tool error
\* has released no runtime, and nothing it left on the wire will.
ErrorMeansNotRun ==
  \A c \in Calls : result[c] = "error" =>
    /\ wire[c] # "run"
    /\ \A m \in Calls \cup {NoCall} : <<c, m>> \notin ran

\* disconnect.go:118: when get_cells answered, the marker proves "the id belongs
\* to the cell this call just added".  Whatever add_code_cell said, and
\* whatever cells the user and earlier calls add, copy and delete meanwhile, such
\* a call never runs another cell.
VerifiedCellRun ==
  \A c \in Calls, m \in Calls \cup {NoCall} :
    <<c, m>> \in ran /\ verified[c] => m = c

\* A "completed" call ran its code, unless it trusted an id nobody verified.
CompletedRan ==
  \A c \in Calls :
    result[c] = "completed" /\ (plan[c].direct \/ verified[c]) => <<c, c>> \in ran

\* README.md:251: "failures before the unassign cell is issued are reported as
\* tool errors"; every other result says "issued": true, and its request was
\* written.
IssuedMeansSent ==
  \A c \in Calls : result[c] \in {"completed", "unknown"} => c \in issued

\* The call in progress, if there is one.
Working == IF \E c \in Calls : InProgress(c) THEN CHOOSE c \in Calls : InProgress(c)
                                              ELSE NoCall

HasRun(c) == \E r \in ran : r[1] = c

\* What became of a call's request to run the code.
RunRequest == [c \in Calls |-> IF wire[c] = "run" THEN "issued"
                               ELSE IF HasRun(c) THEN "executed"
                               ELSE IF c \in issued THEN "declined" ELSE "none"]

Promise == INSTANCE Unassign WITH working <- Working, verdict <- result,
                                  request <- RunRequest

\* disconnect.go:152: "an error or timeout from this call is the expected shape
\* of success".  So the request is written once and never retried: whatever the
\* plan, the notebook, the session and the caller do, a call runs something at
\* most once, and says an error only if it runs nothing.
ImplementsUnassign == Promise!UnassignSpec

\* A call ends, which frees the flag for the next one, once it has come to the
\* run, the session is over or its caller gives up, whatever the notebook does
\* with the requests it has.  (Before the run nothing else ends it.)
CallEnds ==
  \A c \in Calls :
    InProgress(c) /\ (pc[c] = "run" \/ ended \/ c \in cancelled) ~> ~InProgress(c)
=============================================================================

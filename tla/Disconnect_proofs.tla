------------------------- MODULE Disconnect_proofs -------------------------
(***************************************************************************)
(* Machine-checked proofs about Disconnect, for any calls and cell ids: a  *)
(* call that returned an error has not run anything and will not; there is *)
(* one call at a time; a call whose cell was looked up runs that cell and  *)
(* no other; a completed call has run it.  And about Planner, for any      *)
(* schemas: a plan fits the notebook's tools, is found if there is one,    *)
(* and is among those that a call of Disconnect picks from.                *)
(***************************************************************************)
EXTENDS Disconnect, Planner, TLAPS

-----------------------------------------------------------------------------
(* The inductive invariant                                                 *)

\* A call has no result before it returns.
NoResultYet == \A c \in Calls : pc[c] # "returned" => result[c] = "none"

\* The run request of a call exists, or has run, only from its run step on,
\* and then no outcome is an error.
NotDispatched ==
  \A c \in Calls :
    wire[c] = "run" \/ HasRun(c) =>
      pc[c] = "run" \/ (pc[c] = "returned" /\ result[c] # "error")

\* What is on the wire of a call that waits belongs to the request it waits for.
Pending ==
  \A c \in Calls : sent[c] =>
    \/ pc[c] = "returned"
    \/ pc[c] \in Requests /\ wire[c] \in {pc[c], "answered", "failed"}

\* Cell ids are handed out once.
UniqueIds ==
  /\ \A d \in cells : d.id \in used
  /\ \A d, e \in cells : d.id = e.id => d = e

\* An id that, in this notebook and all later ones, is that of a cell of call
\* c or of none.
Marked(c, i) == i \in used /\ \A d \in cells : d.id = i => d.mark = c

\* The answer to a lookup has marked cells only.
LookupIds ==
  \A c \in Calls : pc[c] = "lookup" /\ sent[c] /\ wire[c] = "answered" =>
    \A i \in ids[c] : Marked(c, i)

\* A verified id is a marked one as long as it can be run.
VerifiedTarget ==
  \A c \in Calls : verified[c] =>
    /\ pc[c] \in {"issue", "run", "returned"}
    /\ pc[c] \in {"issue", "run"} \/ wire[c] = "run" => Marked(c, target[c])

\* A plan is made once, at the beginning.
Trusted(c) == plan[c].direct \/ verified[c]

TrustedRan ==
  \A c \in Calls, m \in Calls \cup {NoCall} : <<c, m>> \in ran /\ Trusted(c) => m = c

\* The runner answers when it has run something.
AnsweredRan ==
  \A c \in Calls :
    (pc[c] = "run" /\ sent[c] /\ wire[c] = "answered") \/ result[c] = "completed" => HasRun(c)

\* No call has an id before it looked for one, and a direct one never has.
NoIdYet ==
  \A c \in Calls :
    /\ pc[c] \in {"idle", "begin", "count", "add", "lookup", "choose"} => target[c] = NoId
    /\ pc[c] \in {"count", "add", "lookup", "choose"} => ~plan[c].direct

DInv == /\ DTypeOK
        /\ NoIdYet
        /\ OneCallAtATime
        /\ NoResultYet
        /\ NotDispatched
        /\ Pending
        /\ UniqueIds
        /\ LookupIds
        /\ VerifiedTarget
        /\ TrustedRan
        /\ AnsweredRan

\* The initial state satisfies the inductive invariant.
LEMMA DInvInit == DInit => DInv
<1> SUFFICES ASSUME DInit PROVE DInv
  OBVIOUS
<1>1. NoPlan \in Plans
  BY DEF NoPlan, Plans
<1>2. DTypeOK
  BY <1>1 DEF DInit, DTypeOK
<1> QED
  BY <1>2 DEF DInit, DInv, OneCallAtATime, InProgress, NoResultYet, NotDispatched, HasRun,
              Pending, UniqueIds, LookupIds, VerifiedTarget, TrustedRan, AnsweredRan, NoIdYet

-----------------------------------------------------------------------------
(* Each part is kept by every step                                         *)

\* Any step keeps the types, and the runner gets an id exactly when it needs one.
LEMMA DTypeStep == DTypeOK /\ NoIdYet /\ DNext => DTypeOK' /\ NoIdYet'
<1> SUFFICES ASSUME DTypeOK, NoIdYet, DNext PROVE DTypeOK' /\ NoIdYet'
  OBVIOUS
<1> USE IdsAssumption DEF DTypeOK, NoIdYet, Requests, notebookVars, contextVars, lookupVars
<1>1. ASSUME NEW c \in Calls, Begins(c) \/ Rejected(c) \/ FindsNoPlan(c)
      PROVE  DTypeOK' /\ NoIdYet'
  <2>1. CASE Begins(c)
    BY <2>1 DEF Begins, PcAt
  <2>2. CASE Rejected(c)
    BY <2>2 DEF Rejected, PcAt
  <2>3. CASE FindsNoPlan(c)
    BY <2>3 DEF FindsNoPlan, Returns
  <2> QED
    BY <1>1, <2>1, <2>2, <2>3
<1>2. ASSUME NEW c \in Calls, FindsPlan(c) PROVE DTypeOK' /\ NoIdYet'
  BY <1>2 DEF FindsPlan, PcAt, Plans
<1>3. ASSUME NEW c \in Calls, Sends(c) \/ CountKnown(c) PROVE DTypeOK' /\ NoIdYet'
  <2>1. CASE Sends(c)
    BY <2>1 DEF Sends
  <2>2. CASE CountKnown(c)
    BY <2>2 DEF CountKnown, Answered
  <2> QED
    BY <1>3, <2>1, <2>2
<1>4. ASSUME NEW c \in Calls, CellAdded(c) PROVE DTypeOK' /\ NoIdYet'
  BY <1>4 DEF CellAdded, Answered
<1>5. ASSUME NEW c \in Calls, PreparationFails(c) \/ LookupFails(c) \/ RunFails(c)
      PROVE  DTypeOK' /\ NoIdYet'
  <2>1. /\ sent' \in [Calls -> BOOLEAN]
        /\ wire' \in [Calls -> {"none", "answered", "failed"} \cup Requests]
    BY <1>5 DEF PreparationFails, LookupFails, RunFails, Fails
  <2>2. CASE PreparationFails(c)
    BY <2>1, <2>2 DEF PreparationFails, Returns, Fails
  <2>3. CASE LookupFails(c)
    BY <2>1, <2>3 DEF LookupFails, Fails
  <2>4. CASE RunFails(c)
    <3>1. pc[c] = "run"
      BY <2>4 DEF RunFails, Fails
    <3> QED
      BY <2>1, <2>4, <3>1 DEF RunFails, Returns
  <2> QED
    BY <1>5, <2>2, <2>3, <2>4
<1>6. ASSUME NEW c \in Calls, FindsMarked(c) PROVE DTypeOK' /\ NoIdYet'
  BY <1>6 DEF FindsMarked, Answered
<1>7. ASSUME NEW c \in Calls, FindsNone(c) \/ RunCompletes(c) \/ RunTimesOut(c)
      PROVE  DTypeOK' /\ NoIdYet'
  <2>1. CASE FindsNone(c)
    BY <2>1 DEF FindsNone, Answered, Returns
  <2>2. CASE RunCompletes(c)
    BY <2>2 DEF RunCompletes, Answered, Returns
  <2>3. CASE RunTimesOut(c)
    BY <2>3 DEF RunTimesOut, Returns
  <2> QED
    BY <1>7, <2>1, <2>2, <2>3
<1>8. ASSUME NEW c \in Calls, ChoosesCandidate(c) PROVE DTypeOK' /\ NoIdYet'
  BY <1>8 DEF ChoosesCandidate, PcAt
<1>9. ASSUME NEW c \in Calls, NoCandidate(c) \/ Issues(c) \/ CancelledBeforeIssue(c)
      PROVE  DTypeOK' /\ NoIdYet'
  <2>1. CASE NoCandidate(c)
    BY <2>1 DEF NoCandidate, Returns
  <2>2. CASE Issues(c)
    BY <2>2 DEF Issues, PcAt
  <2>3. CASE CancelledBeforeIssue(c)
    BY <2>3 DEF CancelledBeforeIssue, Returns
  <2> QED
    BY <1>9, <2>1, <2>2, <2>3
<1>10. ASSUME NEW c \in Calls, CallerCancels(c) PROVE DTypeOK' /\ NoIdYet'
  BY <1>10 DEF CallerCancels
<1>11. ASSUME NEW c \in Calls, Refuses(c) \/ Counts(c) PROVE DTypeOK' /\ NoIdYet'
  <2>1. CASE Refuses(c)
    BY <2>1 DEF Refuses, Answers
  <2>2. CASE Counts(c)
    BY <2>2 DEF Counts, Answers
  <2> QED
    BY <1>11, <2>1, <2>2
<1>12. ASSUME NEW c \in Calls, AddsCell(c) PROVE DTypeOK' /\ NoIdYet'
  BY <1>12 DEF AddsCell, Answers, Cell
<1>13. ASSUME NEW c \in Calls, ListsCells(c) PROVE DTypeOK' /\ NoIdYet'
  <2>1. PICK S \in SUBSET {cell.id : cell \in {d \in cells : d.mark = c}} :
               ids' = [ids EXCEPT ![c] = S]
    BY <1>13 DEF ListsCells
  <2>2. S \subseteq Ids
    BY <2>1 DEF Cell
  <2> QED
    BY <1>13, <2>1, <2>2 DEF ListsCells, Answers
<1>14. ASSUME NEW c \in Calls, Runs(c) PROVE DTypeOK' /\ NoIdYet'
  BY <1>14 DEF Runs, Answers
<1>15. CASE UserAdds
  <2>1. PICK i \in Ids \ used, m \in {NoCall} \cup {cell.mark : cell \in cells} :
               /\ cells' = cells \cup {[id |-> i, mark |-> m]}
               /\ used' = used \cup {i}
    BY <1>15 DEF UserAdds
  <2>2. [id |-> i, mark |-> m] \in Cell
    BY <2>1 DEF Cell
  <2> QED
    BY <1>15, <2>1, <2>2 DEF UserAdds
<1>16. CASE UserDeletes
  BY <1>16 DEF UserDeletes
<1>17. CASE SessionEnds
  BY <1>17 DEF SessionEnds
<1> QED
  BY <1>1, <1>2, <1>3, <1>4, <1>5, <1>6, <1>7, <1>8, <1>9, <1>10, <1>11, <1>12, <1>13,
     <1>14, <1>15, <1>16, <1>17 DEF DNext, CallStep, NotebookStep

\* The flag is set by the one call that is in progress, and cleared by it.
LEMMA OneCallStep == DTypeOK /\ OneCallAtATime /\ DNext => OneCallAtATime'
<1> SUFFICES ASSUME DTypeOK, OneCallAtATime, DNext PROVE OneCallAtATime'
  OBVIOUS
<1> USE DEF DTypeOK, Requests, notebookVars, contextVars, lookupVars, OneCallAtATime, InProgress
<1>1. ASSUME NEW c \in Calls, Begins(c) PROVE OneCallAtATime'
  BY <1>1 DEF Begins, PcAt
<1>2. ASSUME NEW c \in Calls, Rejected(c) PROVE OneCallAtATime'
  BY <1>2 DEF Rejected, PcAt
<1>3. ASSUME NEW c \in Calls, FindsPlan(c) PROVE OneCallAtATime'
  BY <1>3 DEF FindsPlan, PcAt
<1>4. ASSUME NEW c \in Calls, FindsNoPlan(c) \/ NoCandidate(c) \/ CancelledBeforeIssue(c)
      PROVE  OneCallAtATime'
  BY <1>4 DEF FindsNoPlan, NoCandidate, CancelledBeforeIssue, Returns
<1>5. ASSUME NEW c \in Calls, Sends(c) PROVE OneCallAtATime'
  BY <1>5 DEF Sends
<1>6. ASSUME NEW c \in Calls, CountKnown(c) \/ CellAdded(c) PROVE OneCallAtATime'
  BY <1>6 DEF CountKnown, CellAdded, Answered
<1>7. ASSUME NEW c \in Calls, PreparationFails(c) \/ LookupFails(c)
      PROVE  OneCallAtATime'
  BY <1>7 DEF PreparationFails, LookupFails, Fails, Returns
<1>8. ASSUME NEW c \in Calls, RunFails(c) \/ RunTimesOut(c) PROVE OneCallAtATime'
  BY <1>8 DEF RunFails, RunTimesOut, Fails, Returns
<1>9. ASSUME NEW c \in Calls, FindsMarked(c) \/ FindsNone(c) PROVE OneCallAtATime'
  BY <1>9 DEF FindsMarked, FindsNone, Answered, Returns
<1>10. ASSUME NEW c \in Calls, RunCompletes(c) PROVE OneCallAtATime'
  BY <1>10 DEF RunCompletes, Answered, Returns
<1>11. ASSUME NEW c \in Calls, ChoosesCandidate(c) \/ Issues(c) PROVE OneCallAtATime'
  BY <1>11 DEF ChoosesCandidate, Issues, PcAt
<1>12. ASSUME NEW c \in Calls, Refuses(c) \/ Counts(c) PROVE OneCallAtATime'
  BY <1>12 DEF Refuses, Counts, Answers
<1>13. ASSUME NEW c \in Calls, AddsCell(c) PROVE OneCallAtATime'
  BY <1>13 DEF AddsCell, Answers
<1>14. ASSUME NEW c \in Calls, ListsCells(c) PROVE OneCallAtATime'
  BY <1>14 DEF ListsCells, Answers
<1>15. ASSUME NEW c \in Calls, Runs(c) PROVE OneCallAtATime'
  BY <1>15 DEF Runs, Answers
<1>16. ASSUME NEW c \in Calls, CallerCancels(c) PROVE OneCallAtATime'
  BY <1>16 DEF CallerCancels
<1>17. CASE SessionEnds \/ UserAdds \/ UserDeletes
  BY <1>17 DEF SessionEnds, UserAdds, UserDeletes
<1> QED
  BY <1>1, <1>2, <1>3, <1>4, <1>5, <1>6, <1>7, <1>8, <1>9, <1>10, <1>11, <1>12, <1>13,
     <1>14, <1>15, <1>16, <1>17
     DEF DNext, CallStep, NotebookStep

\* What has run has run, and only a request to run makes a call run.
LEMMA RanGrows ==
  DNext => \A c \in Calls : /\ HasRun(c) => HasRun(c)'
                            /\ HasRun(c)' => HasRun(c) \/ wire[c] = "run"
<1> DEFINE Goal == \A c \in Calls : /\ HasRun(c) => HasRun(c)'
                                    /\ HasRun(c)' => HasRun(c) \/ wire[c] = "run"
<1> SUFFICES ASSUME DNext PROVE Goal
  OBVIOUS
<1>a. ran' = ran => Goal
  BY DEF HasRun
<1>b. ASSUME NEW c \in Calls, NEW m \in Calls \cup {NoCall},
             wire[c] = "run", ran' = ran \cup {<<c, m>>}
      PROVE  Goal
  <2>1. ASSUME NEW d \in Calls, HasRun(d)', d # c PROVE HasRun(d)
    BY <1>b, <2>1 DEF HasRun
  <2>2. ASSUME NEW d \in Calls, HasRun(d) PROVE HasRun(d)'
    BY <1>b, <2>2 DEF HasRun
  <2> QED
    BY <1>b, <2>1, <2>2
<1> HIDE DEF Goal
<1> USE DEF notebookVars
<1>1. ASSUME NEW c \in Calls, CallStep(c) PROVE ran' = ran
  BY <1>1 DEF CallStep, Begins, Rejected, FindsPlan, FindsNoPlan, Sends, CountKnown,
              CellAdded, PreparationFails, FindsMarked, FindsNone, LookupFails,
              ChoosesCandidate, NoCandidate, Issues, CancelledBeforeIssue, RunCompletes,
              RunFails, RunTimesOut
<1>2. ASSUME NEW c \in Calls, CallerCancels(c) PROVE ran' = ran
  BY <1>2 DEF CallerCancels
<1>3. ASSUME NEW c \in Calls, Refuses(c) \/ Counts(c) \/ AddsCell(c) \/ ListsCells(c)
      PROVE  ran' = ran
  BY <1>3 DEF Refuses, Counts, AddsCell, ListsCells
<1>4. ASSUME NEW c \in Calls, Runs(c)
      PROVE  \E m \in Calls \cup {NoCall} : wire[c] = "run" /\ ran' = ran \cup {<<c, m>>}
  BY <1>4 DEF Runs, Answers
<1>5. CASE SessionEnds \/ UserAdds \/ UserDeletes
  BY <1>a, <1>5 DEF SessionEnds, UserAdds, UserDeletes
<1> QED
  BY <1>a, <1>b, <1>1, <1>2, <1>3, <1>4, <1>5 DEF DNext, NotebookStep

\* A call returns with its result.
LEMMA NoResultStep == DTypeOK /\ NoResultYet /\ DNext => NoResultYet'
<1> SUFFICES ASSUME DTypeOK, NoResultYet, DNext PROVE NoResultYet'
  OBVIOUS
<1> USE DEF DTypeOK, Requests, contextVars, lookupVars, NoResultYet
<1>1. ASSUME NEW c \in Calls, Begins(c) PROVE NoResultYet'
  BY <1>1 DEF Begins, PcAt
<1>2. ASSUME NEW c \in Calls, Rejected(c) PROVE NoResultYet'
  BY <1>2 DEF Rejected, PcAt
<1>3. ASSUME NEW c \in Calls, FindsPlan(c) PROVE NoResultYet'
  BY <1>3 DEF FindsPlan, PcAt
<1>4. ASSUME NEW c \in Calls, FindsNoPlan(c) \/ NoCandidate(c) \/ CancelledBeforeIssue(c)
      PROVE  NoResultYet'
  BY <1>4 DEF FindsNoPlan, NoCandidate, CancelledBeforeIssue, Returns
<1>5. ASSUME NEW c \in Calls, Sends(c) PROVE NoResultYet'
  BY <1>5 DEF Sends
<1>6. ASSUME NEW c \in Calls, CountKnown(c) \/ CellAdded(c) PROVE NoResultYet'
  BY <1>6 DEF CountKnown, CellAdded, Answered
<1>7. ASSUME NEW c \in Calls, PreparationFails(c) \/ LookupFails(c) PROVE NoResultYet'
  BY <1>7 DEF PreparationFails, LookupFails, Fails, Returns
<1>8. ASSUME NEW c \in Calls, RunFails(c) \/ RunTimesOut(c) PROVE NoResultYet'
  BY <1>8 DEF RunFails, RunTimesOut, Fails, Returns
<1>9. ASSUME NEW c \in Calls, FindsMarked(c) \/ FindsNone(c) PROVE NoResultYet'
  BY <1>9 DEF FindsMarked, FindsNone, Answered, Returns
<1>10. ASSUME NEW c \in Calls, RunCompletes(c) PROVE NoResultYet'
  BY <1>10 DEF RunCompletes, Answered, Returns
<1>11. ASSUME NEW c \in Calls, ChoosesCandidate(c) \/ Issues(c) PROVE NoResultYet'
  BY <1>11 DEF ChoosesCandidate, Issues, PcAt
<1>12. ASSUME NEW c \in Calls, Refuses(c) \/ Counts(c) PROVE NoResultYet'
  BY <1>12 DEF Refuses, Counts, Answers
<1>13. ASSUME NEW c \in Calls, AddsCell(c) PROVE NoResultYet'
  BY <1>13 DEF AddsCell, Answers
<1>14. ASSUME NEW c \in Calls, ListsCells(c) PROVE NoResultYet'
  BY <1>14 DEF ListsCells, Answers
<1>15. ASSUME NEW c \in Calls, Runs(c) PROVE NoResultYet'
  BY <1>15 DEF Runs, Answers
<1>16. ASSUME NEW c \in Calls, CallerCancels(c) PROVE NoResultYet'
  BY <1>16 DEF CallerCancels
<1>17. CASE SessionEnds \/ UserAdds \/ UserDeletes
  BY <1>17 DEF SessionEnds, UserAdds, UserDeletes
<1> QED
  BY <1>1, <1>2, <1>3, <1>4, <1>5, <1>6, <1>7, <1>8, <1>9, <1>10, <1>11, <1>12, <1>13,
     <1>14, <1>15, <1>16, <1>17
     DEF DNext, CallStep, NotebookStep

\* Nothing of a call runs before its run step, which returns no error.
LEMMA DispatchStep == DTypeOK /\ NoResultYet /\ NotDispatched /\ DNext => NotDispatched'
<1> SUFFICES ASSUME DTypeOK, NoResultYet, NotDispatched, DNext PROVE NotDispatched'
  OBVIOUS
<1>0. \A d \in Calls : HasRun(d)' => HasRun(d) \/ wire[d] = "run"
  BY RanGrows
<1> USE DEF DTypeOK, Requests, contextVars, lookupVars, NoResultYet, NotDispatched
<1>1. ASSUME NEW c \in Calls, Begins(c) PROVE NotDispatched'
  BY <1>0, <1>1 DEF Begins, PcAt
<1>2. ASSUME NEW c \in Calls, Rejected(c) PROVE NotDispatched'
  BY <1>0, <1>2 DEF Rejected, PcAt
<1>3. ASSUME NEW c \in Calls, FindsPlan(c) PROVE NotDispatched'
  BY <1>0, <1>3 DEF FindsPlan, PcAt
<1>4. ASSUME NEW c \in Calls, FindsNoPlan(c) \/ NoCandidate(c) \/ CancelledBeforeIssue(c)
      PROVE  NotDispatched'
  BY <1>0, <1>4 DEF FindsNoPlan, NoCandidate, CancelledBeforeIssue, Returns
<1>5. ASSUME NEW c \in Calls, Sends(c) PROVE NotDispatched'
  BY <1>0, <1>5 DEF Sends
<1>6. ASSUME NEW c \in Calls, CountKnown(c) \/ CellAdded(c) PROVE NotDispatched'
  BY <1>0, <1>6 DEF CountKnown, CellAdded, Answered
<1>7. ASSUME NEW c \in Calls, PreparationFails(c) \/ LookupFails(c)
      PROVE  NotDispatched'
  BY <1>0, <1>7 DEF PreparationFails, LookupFails, Fails, Returns
<1>8. ASSUME NEW c \in Calls, RunFails(c) \/ RunTimesOut(c) PROVE NotDispatched'
  BY <1>0, <1>8 DEF RunFails, RunTimesOut, Fails, Returns
<1>9. ASSUME NEW c \in Calls, FindsMarked(c) \/ FindsNone(c) PROVE NotDispatched'
  BY <1>0, <1>9 DEF FindsMarked, FindsNone, Answered, Returns
<1>10. ASSUME NEW c \in Calls, RunCompletes(c) PROVE NotDispatched'
  BY <1>0, <1>10 DEF RunCompletes, Answered, Returns
<1>11. ASSUME NEW c \in Calls, ChoosesCandidate(c) \/ Issues(c) PROVE NotDispatched'
  BY <1>0, <1>11 DEF ChoosesCandidate, Issues, PcAt
<1>12. ASSUME NEW c \in Calls, Refuses(c) \/ Counts(c) PROVE NotDispatched'
  BY <1>0, <1>12 DEF Refuses, Counts, Answers
<1>13. ASSUME NEW c \in Calls, AddsCell(c) PROVE NotDispatched'
  BY <1>0, <1>13 DEF AddsCell, Answers
<1>14. ASSUME NEW c \in Calls, ListsCells(c) PROVE NotDispatched'
  BY <1>0, <1>14 DEF ListsCells, Answers
<1>15. ASSUME NEW c \in Calls, Runs(c) PROVE NotDispatched'
  BY <1>0, <1>15 DEF Runs, Answers
<1>16. ASSUME NEW c \in Calls, CallerCancels(c) PROVE NotDispatched'
  BY <1>0, <1>16 DEF CallerCancels
<1>17. CASE SessionEnds \/ UserAdds \/ UserDeletes
  BY <1>0, <1>17 DEF SessionEnds, UserAdds, UserDeletes
<1> QED
  BY <1>1, <1>2, <1>3, <1>4, <1>5, <1>6, <1>7, <1>8, <1>9, <1>10, <1>11, <1>12, <1>13,
     <1>14, <1>15, <1>16, <1>17
     DEF DNext, CallStep, NotebookStep

\* A call waits for the request it wrote.
LEMMA PendingStep == DTypeOK /\ Pending /\ DNext => Pending'
<1> SUFFICES ASSUME DTypeOK, Pending, DNext PROVE Pending'
  OBVIOUS
<1> USE DEF DTypeOK, Requests, notebookVars, contextVars, lookupVars, Pending
<1>1. ASSUME NEW c \in Calls, Begins(c) PROVE Pending'
  BY <1>1 DEF Begins, PcAt
<1>2. ASSUME NEW c \in Calls, Rejected(c) PROVE Pending'
  BY <1>2 DEF Rejected, PcAt
<1>3. ASSUME NEW c \in Calls, FindsPlan(c) PROVE Pending'
  BY <1>3 DEF FindsPlan, PcAt
<1>4. ASSUME NEW c \in Calls, FindsNoPlan(c) \/ NoCandidate(c) \/ CancelledBeforeIssue(c)
      PROVE  Pending'
  BY <1>4 DEF FindsNoPlan, NoCandidate, CancelledBeforeIssue, Returns
<1>5. ASSUME NEW c \in Calls, Sends(c) PROVE Pending'
  BY <1>5 DEF Sends
<1>6. ASSUME NEW c \in Calls, CountKnown(c) \/ CellAdded(c) PROVE Pending'
  BY <1>6 DEF CountKnown, CellAdded, Answered
<1>7. ASSUME NEW c \in Calls, PreparationFails(c) \/ LookupFails(c) PROVE Pending'
  BY <1>7 DEF PreparationFails, LookupFails, Fails, Returns
<1>8. ASSUME NEW c \in Calls, RunFails(c) \/ RunTimesOut(c) PROVE Pending'
  BY <1>8 DEF RunFails, RunTimesOut, Fails, Returns
<1>9. ASSUME NEW c \in Calls, FindsMarked(c) \/ FindsNone(c) PROVE Pending'
  BY <1>9 DEF FindsMarked, FindsNone, Answered, Returns
<1>10. ASSUME NEW c \in Calls, RunCompletes(c) PROVE Pending'
  BY <1>10 DEF RunCompletes, Answered, Returns
<1>11. ASSUME NEW c \in Calls, ChoosesCandidate(c) \/ Issues(c) PROVE Pending'
  BY <1>11 DEF ChoosesCandidate, Issues, PcAt
<1>12. ASSUME NEW c \in Calls, Refuses(c) \/ Counts(c) PROVE Pending'
  BY <1>12 DEF Refuses, Counts, Answers
<1>13. ASSUME NEW c \in Calls, AddsCell(c) PROVE Pending'
  BY <1>13 DEF AddsCell, Answers
<1>14. ASSUME NEW c \in Calls, ListsCells(c) PROVE Pending'
  BY <1>14 DEF ListsCells, Answers
<1>15. ASSUME NEW c \in Calls, Runs(c) PROVE Pending'
  BY <1>15 DEF Runs, Answers
<1>16. ASSUME NEW c \in Calls, CallerCancels(c) PROVE Pending'
  BY <1>16 DEF CallerCancels
<1>17. CASE SessionEnds \/ UserAdds \/ UserDeletes
  BY <1>17 DEF SessionEnds, UserAdds, UserDeletes
<1> QED
  BY <1>1, <1>2, <1>3, <1>4, <1>5, <1>6, <1>7, <1>8, <1>9, <1>10, <1>11, <1>12, <1>13,
     <1>14, <1>15, <1>16, <1>17
     DEF DNext, CallStep, NotebookStep

\* The notebook loses cells, or gains one whose id is new.
LEMMA CellsStep ==
  DNext => \/ cells' \subseteq cells /\ used' = used
           \/ \E i \in Ids \ used, m \in Calls \cup {NoCall} \cup {cell.mark : cell \in cells} :
                /\ cells' = cells \cup {[id |-> i, mark |-> m]}
                /\ used' = used \cup {i}
<1> DEFINE Lost == cells' \subseteq cells /\ used' = used
           Gained == \E i \in Ids \ used,
                        m \in Calls \cup {NoCall} \cup {cell.mark : cell \in cells} :
                       /\ cells' = cells \cup {[id |-> i, mark |-> m]}
                       /\ used' = used \cup {i}
<1> SUFFICES ASSUME DNext PROVE Lost \/ Gained
  OBVIOUS
<1> USE DEF notebookVars
<1>1. ASSUME NEW c \in Calls, CallStep(c) PROVE Lost
  BY <1>1 DEF CallStep, Begins, Rejected, FindsPlan, FindsNoPlan, Sends, CountKnown,
              CellAdded, PreparationFails, FindsMarked, FindsNone, LookupFails,
              ChoosesCandidate, NoCandidate, Issues, CancelledBeforeIssue, RunCompletes,
              RunFails, RunTimesOut
<1>2. ASSUME NEW c \in Calls, CallerCancels(c) PROVE Lost
  BY <1>2 DEF CallerCancels
<1>3. ASSUME NEW c \in Calls, Refuses(c) \/ Counts(c) \/ ListsCells(c) \/ Runs(c)
      PROVE  Lost
  BY <1>3 DEF Refuses, Counts, ListsCells, Runs
<1>4. ASSUME NEW c \in Calls, AddsCell(c) PROVE Gained
  BY <1>4 DEF AddsCell
<1>5. CASE UserAdds
  BY <1>5 DEF UserAdds
<1>6. CASE UserDeletes \/ SessionEnds
  BY <1>6 DEF UserDeletes, SessionEnds
<1> QED
  BY <1>1, <1>2, <1>3, <1>4, <1>5, <1>6 DEF DNext, NotebookStep

\* No step gives two cells one id, or a marked id to a cell of another call.
LEMMA MarkedStays ==
  UniqueIds /\ DNext => /\ UniqueIds'
                        /\ \A c \in Calls, i \in Ids \cup {NoId} : Marked(c, i) => Marked(c, i)'
<1> SUFFICES ASSUME UniqueIds, DNext
             PROVE  /\ UniqueIds'
                    /\ \A c \in Calls, i \in Ids \cup {NoId} : Marked(c, i) => Marked(c, i)'
  OBVIOUS
<1>1. CASE cells' \subseteq cells /\ used' = used
  BY <1>1 DEF UniqueIds, Marked
<1>2. ASSUME NEW i \in Ids \ used, NEW m,
             cells' = cells \cup {[id |-> i, mark |-> m]}, used' = used \cup {i}
      PROVE  UniqueIds' /\ \A c \in Calls, j \in Ids \cup {NoId} : Marked(c, j) => Marked(c, j)'
  BY <1>2 DEF UniqueIds, Marked
<1> QED
  BY <1>1, <1>2, CellsStep

\* A lookup answers with ids that stay marked.
LEMMA LookupStep == DTypeOK /\ Pending /\ UniqueIds /\ LookupIds /\ DNext => LookupIds'
<1> SUFFICES ASSUME DTypeOK, Pending, UniqueIds, LookupIds, DNext PROVE LookupIds'
  OBVIOUS
<1>0. \A c \in Calls, i \in Ids \cup {NoId} : Marked(c, i) => Marked(c, i)'
  BY MarkedStays
<1> USE DEF DTypeOK, Requests, notebookVars, contextVars, lookupVars, Pending, LookupIds
<1>1. ASSUME NEW c \in Calls, Begins(c) PROVE LookupIds'
  BY <1>0, <1>1 DEF Begins, PcAt
<1>2. ASSUME NEW c \in Calls, Rejected(c) PROVE LookupIds'
  BY <1>0, <1>2 DEF Rejected, PcAt
<1>3. ASSUME NEW c \in Calls, FindsPlan(c) PROVE LookupIds'
  BY <1>0, <1>3 DEF FindsPlan, PcAt
<1>4. ASSUME NEW c \in Calls, FindsNoPlan(c) \/ NoCandidate(c) \/ CancelledBeforeIssue(c)
      PROVE  LookupIds'
  BY <1>0, <1>4 DEF FindsNoPlan, NoCandidate, CancelledBeforeIssue, Returns
<1>5. ASSUME NEW c \in Calls, Sends(c) PROVE LookupIds'
  BY <1>0, <1>5 DEF Sends
<1>6. ASSUME NEW c \in Calls, CountKnown(c) \/ CellAdded(c) PROVE LookupIds'
  BY <1>0, <1>6 DEF CountKnown, CellAdded, Answered
<1>7. ASSUME NEW c \in Calls, PreparationFails(c) \/ LookupFails(c) PROVE LookupIds'
  BY <1>0, <1>7 DEF PreparationFails, LookupFails, Fails, Returns
<1>8. ASSUME NEW c \in Calls, RunFails(c) \/ RunTimesOut(c) PROVE LookupIds'
  BY <1>0, <1>8 DEF RunFails, RunTimesOut, Fails, Returns
<1>9. ASSUME NEW c \in Calls, FindsMarked(c) \/ FindsNone(c) PROVE LookupIds'
  BY <1>0, <1>9 DEF FindsMarked, FindsNone, Answered, Returns
<1>10. ASSUME NEW c \in Calls, RunCompletes(c) PROVE LookupIds'
  BY <1>0, <1>10 DEF RunCompletes, Answered, Returns
<1>11. ASSUME NEW c \in Calls, ChoosesCandidate(c) \/ Issues(c) PROVE LookupIds'
  BY <1>0, <1>11 DEF ChoosesCandidate, Issues, PcAt
<1>12. ASSUME NEW c \in Calls, Refuses(c) \/ Counts(c) PROVE LookupIds'
  BY <1>0, <1>12 DEF Refuses, Counts, Answers
<1>13. ASSUME NEW c \in Calls, AddsCell(c) PROVE LookupIds'
  BY <1>0, <1>13 DEF AddsCell, Answers
<1>14. ASSUME NEW c \in Calls, ListsCells(c) PROVE LookupIds'
  <2>1. cells' = cells /\ used' = used
    BY <1>14 DEF ListsCells
  <2>2. \A i \in ids'[c] : Marked(c, i)'
    <3>1. PICK S \in SUBSET {cell.id : cell \in {d \in cells : d.mark = c}} :
                 ids' = [ids EXCEPT ![c] = S]
      BY <1>14 DEF ListsCells
    <3>2. \A i \in S : Marked(c, i)
      BY <3>1 DEF UniqueIds, Marked
    <3>3. ids'[c] = S
      BY <3>1
    <3> QED
      BY <2>1, <3>2, <3>3 DEF Marked
  <2>3. ASSUME NEW d \in Calls \ {c}, pc'[d] = "lookup", sent'[d], wire'[d] = "answered"
        PROVE  \A i \in ids'[d] : Marked(d, i)'
    <3>1. \A i \in ids[d] : Marked(d, i)
      BY <1>14, <2>3 DEF ListsCells, Answers
    <3>2. ids'[d] = ids[d]
      BY <1>14 DEF ListsCells
    <3> QED
      BY <1>0, <3>1, <3>2
  <2> QED
    BY <2>2, <2>3
<1>15. ASSUME NEW c \in Calls, Runs(c) PROVE LookupIds'
  BY <1>0, <1>15 DEF Runs, Answers
<1>16. ASSUME NEW c \in Calls, CallerCancels(c) PROVE LookupIds'
  BY <1>0, <1>16 DEF CallerCancels
<1>17. CASE SessionEnds \/ UserAdds \/ UserDeletes
  BY <1>0, <1>17 DEF SessionEnds, UserAdds, UserDeletes
<1> QED
  BY <1>1, <1>2, <1>3, <1>4, <1>5, <1>6, <1>7, <1>8, <1>9, <1>10, <1>11, <1>12, <1>13,
     <1>14, <1>15, <1>16, <1>17
     DEF DNext, CallStep, NotebookStep

\* The id a call runs is marked from the lookup on.
LEMMA VerifiedStep ==
  DTypeOK /\ NoIdYet /\ NotDispatched /\ LookupIds /\ UniqueIds /\ VerifiedTarget /\ DNext
  => VerifiedTarget'
<1> SUFFICES ASSUME DTypeOK, NoIdYet, NotDispatched, LookupIds, UniqueIds, VerifiedTarget, DNext
             PROVE  VerifiedTarget'
  OBVIOUS
<1>0. \A c \in Calls, i \in Ids \cup {NoId} : Marked(c, i) => Marked(c, i)'
  BY MarkedStays
<1> USE DEF DTypeOK, Requests, notebookVars, contextVars, lookupVars,
           NotDispatched, LookupIds, VerifiedTarget
<1>1. ASSUME NEW c \in Calls, Begins(c) PROVE VerifiedTarget'
  BY <1>0, <1>1 DEF Begins, PcAt
<1>2. ASSUME NEW c \in Calls, Rejected(c) PROVE VerifiedTarget'
  BY <1>0, <1>2 DEF Rejected, PcAt
<1>3. ASSUME NEW c \in Calls, FindsPlan(c) PROVE VerifiedTarget'
  BY <1>0, <1>3 DEF FindsPlan, PcAt
<1>4. ASSUME NEW c \in Calls, FindsNoPlan(c) \/ NoCandidate(c) \/ CancelledBeforeIssue(c)
      PROVE  VerifiedTarget'
  <2>1. /\ pc' = [pc EXCEPT ![c] = "returned"]
        /\ UNCHANGED <<verified, wire, target>>
    BY <1>4 DEF FindsNoPlan, NoCandidate, CancelledBeforeIssue, Returns
  <2> QED
    BY <1>0, <2>1
<1>5. ASSUME NEW c \in Calls, Sends(c) PROVE VerifiedTarget'
  BY <1>0, <1>5 DEF Sends
<1>6. ASSUME NEW c \in Calls, CountKnown(c) \/ CellAdded(c) PROVE VerifiedTarget'
  BY <1>0, <1>6 DEF CountKnown, CellAdded, Answered
<1>7. ASSUME NEW c \in Calls, PreparationFails(c) \/ LookupFails(c)
      PROVE  VerifiedTarget'
  BY <1>0, <1>7 DEF PreparationFails, LookupFails, Fails, Returns
<1>8. ASSUME NEW c \in Calls, RunFails(c) \/ RunTimesOut(c) PROVE VerifiedTarget'
  BY <1>0, <1>8 DEF RunFails, RunTimesOut, Fails, Returns
<1>9. ASSUME NEW c \in Calls, FindsMarked(c) \/ FindsNone(c) PROVE VerifiedTarget'
  BY <1>0, <1>9 DEF FindsMarked, FindsNone, Answered, Returns
<1>10. ASSUME NEW c \in Calls, RunCompletes(c) PROVE VerifiedTarget'
  BY <1>0, <1>10 DEF RunCompletes, Answered, Returns
<1>11. ASSUME NEW c \in Calls, ChoosesCandidate(c) \/ Issues(c) PROVE VerifiedTarget'
  BY <1>0, <1>11 DEF ChoosesCandidate, Issues, PcAt
<1>12. ASSUME NEW c \in Calls, Refuses(c) \/ Counts(c) PROVE VerifiedTarget'
  BY <1>0, <1>12 DEF Refuses, Counts, Answers
<1>13. ASSUME NEW c \in Calls, AddsCell(c) PROVE VerifiedTarget'
  BY <1>0, <1>13 DEF AddsCell, Answers
<1>14. ASSUME NEW c \in Calls, ListsCells(c) PROVE VerifiedTarget'
  BY <1>0, <1>14 DEF ListsCells, Answers
<1>15. ASSUME NEW c \in Calls, Runs(c) PROVE VerifiedTarget'
  BY <1>0, <1>15 DEF Runs, Answers
<1>16. ASSUME NEW c \in Calls, CallerCancels(c) PROVE VerifiedTarget'
  BY <1>0, <1>16 DEF CallerCancels
<1>17. CASE SessionEnds \/ UserAdds \/ UserDeletes
  BY <1>0, <1>17 DEF SessionEnds, UserAdds, UserDeletes
<1> QED
  BY <1>1, <1>2, <1>3, <1>4, <1>5, <1>6, <1>7, <1>8, <1>9, <1>10, <1>11, <1>12, <1>13,
     <1>14, <1>15, <1>16, <1>17
     DEF DNext, CallStep, NotebookStep

\* A call that runs code itself, or a marked cell, runs its own.
LEMMA TrustedStep ==
  DTypeOK /\ NotDispatched /\ VerifiedTarget /\ TrustedRan /\ DNext
  => TrustedRan'
<1> SUFFICES ASSUME DTypeOK, NotDispatched, VerifiedTarget, TrustedRan, DNext PROVE TrustedRan'
  OBVIOUS
<1> USE DEF DTypeOK, Requests, notebookVars, contextVars, lookupVars, HasRun,
           NotDispatched, Trusted, TrustedRan
<1>1. ASSUME NEW c \in Calls, Begins(c) PROVE TrustedRan'
  BY <1>1 DEF Begins, PcAt
<1>2. ASSUME NEW c \in Calls, Rejected(c) PROVE TrustedRan'
  BY <1>2 DEF Rejected, PcAt
<1>3. ASSUME NEW c \in Calls, FindsPlan(c) PROVE TrustedRan'
  BY <1>3 DEF FindsPlan, PcAt
<1>4. ASSUME NEW c \in Calls, FindsNoPlan(c) \/ NoCandidate(c) \/ CancelledBeforeIssue(c)
      PROVE  TrustedRan'
  BY <1>4 DEF FindsNoPlan, NoCandidate, CancelledBeforeIssue, Returns
<1>5. ASSUME NEW c \in Calls, Sends(c) PROVE TrustedRan'
  BY <1>5 DEF Sends
<1>6. ASSUME NEW c \in Calls, CountKnown(c) \/ CellAdded(c) PROVE TrustedRan'
  BY <1>6 DEF CountKnown, CellAdded, Answered
<1>7. ASSUME NEW c \in Calls, PreparationFails(c) \/ LookupFails(c) PROVE TrustedRan'
  BY <1>7 DEF PreparationFails, LookupFails, Fails, Returns
<1>8. ASSUME NEW c \in Calls, RunFails(c) \/ RunTimesOut(c) PROVE TrustedRan'
  BY <1>8 DEF RunFails, RunTimesOut, Fails, Returns
<1>9. ASSUME NEW c \in Calls, FindsMarked(c) \/ FindsNone(c) PROVE TrustedRan'
  BY <1>9 DEF FindsMarked, FindsNone, Answered, Returns
<1>10. ASSUME NEW c \in Calls, RunCompletes(c) PROVE TrustedRan'
  BY <1>10 DEF RunCompletes, Answered, Returns
<1>11. ASSUME NEW c \in Calls, ChoosesCandidate(c) \/ Issues(c) PROVE TrustedRan'
  BY <1>11 DEF ChoosesCandidate, Issues, PcAt
<1>12. ASSUME NEW c \in Calls, Refuses(c) \/ Counts(c) PROVE TrustedRan'
  BY <1>12 DEF Refuses, Counts, Answers
<1>13. ASSUME NEW c \in Calls, AddsCell(c) PROVE TrustedRan'
  BY <1>13 DEF AddsCell, Answers
<1>14. ASSUME NEW c \in Calls, ListsCells(c) PROVE TrustedRan'
  BY <1>14 DEF ListsCells, Answers
<1>15. ASSUME NEW c \in Calls, Runs(c) PROVE TrustedRan'
  <2>1. wire[c] = "run" /\ UNCHANGED <<plan, verified>>
    BY <1>15 DEF Runs, Answers
  <2>2. PICK m \in Calls \cup {NoCall} :
          /\ IF plan[c].direct THEN m = c ELSE [id |-> target[c], mark |-> m] \in cells
          /\ ran' = ran \cup {<<c, m>>}
    BY <1>15 DEF Runs
  <2>3. Trusted(c) => m = c
    BY <2>1, <2>2 DEF VerifiedTarget, Marked
  <2> QED
    BY <2>1, <2>2, <2>3
<1>16. ASSUME NEW c \in Calls, CallerCancels(c) PROVE TrustedRan'
  BY <1>16 DEF CallerCancels
<1>17. CASE SessionEnds \/ UserAdds \/ UserDeletes
  BY <1>17 DEF SessionEnds, UserAdds, UserDeletes
<1> QED
  BY <1>1, <1>2, <1>3, <1>4, <1>5, <1>6, <1>7, <1>8, <1>9, <1>10, <1>11, <1>12, <1>13,
     <1>14, <1>15, <1>16, <1>17
     DEF DNext, CallStep, NotebookStep

\* A run is answered, and completed, after it happened.
LEMMA AnsweredStep ==
  DTypeOK /\ NoResultYet /\ Pending /\ AnsweredRan /\ DNext
  => AnsweredRan'
<1> SUFFICES ASSUME DTypeOK, NoResultYet, Pending, AnsweredRan, DNext PROVE AnsweredRan'
  OBVIOUS
<1>0. \A c \in Calls : HasRun(c) => HasRun(c)'
  BY RanGrows
<1> USE DEF DTypeOK, Requests, notebookVars, contextVars, lookupVars,
           NoResultYet, Pending, AnsweredRan
<1>1. ASSUME NEW c \in Calls, Begins(c) PROVE AnsweredRan'
  BY <1>0, <1>1 DEF Begins, PcAt
<1>2. ASSUME NEW c \in Calls, Rejected(c) PROVE AnsweredRan'
  BY <1>0, <1>2 DEF Rejected, PcAt
<1>3. ASSUME NEW c \in Calls, FindsPlan(c) PROVE AnsweredRan'
  BY <1>0, <1>3 DEF FindsPlan, PcAt
<1>4. ASSUME NEW c \in Calls, FindsNoPlan(c) \/ NoCandidate(c) \/ CancelledBeforeIssue(c)
      PROVE  AnsweredRan'
  BY <1>0, <1>4 DEF FindsNoPlan, NoCandidate, CancelledBeforeIssue, Returns
<1>5. ASSUME NEW c \in Calls, Sends(c) PROVE AnsweredRan'
  BY <1>0, <1>5 DEF Sends
<1>6. ASSUME NEW c \in Calls, CountKnown(c) \/ CellAdded(c) PROVE AnsweredRan'
  BY <1>0, <1>6 DEF CountKnown, CellAdded, Answered
<1>7. ASSUME NEW c \in Calls, PreparationFails(c) \/ LookupFails(c) PROVE AnsweredRan'
  BY <1>0, <1>7 DEF PreparationFails, LookupFails, Fails, Returns
<1>8. ASSUME NEW c \in Calls, RunFails(c) \/ RunTimesOut(c) PROVE AnsweredRan'
  BY <1>0, <1>8 DEF RunFails, RunTimesOut, Fails, Returns
<1>9. ASSUME NEW c \in Calls, FindsMarked(c) \/ FindsNone(c) PROVE AnsweredRan'
  BY <1>0, <1>9 DEF FindsMarked, FindsNone, Answered, Returns
<1>10. ASSUME NEW c \in Calls, RunCompletes(c) PROVE AnsweredRan'
  BY <1>0, <1>10 DEF RunCompletes, Answered, Returns
<1>11. ASSUME NEW c \in Calls, ChoosesCandidate(c) \/ Issues(c) PROVE AnsweredRan'
  BY <1>0, <1>11 DEF ChoosesCandidate, Issues, PcAt
<1>12. ASSUME NEW c \in Calls, Refuses(c) \/ Counts(c) PROVE AnsweredRan'
  BY <1>0, <1>12 DEF Refuses, Counts, Answers
<1>13. ASSUME NEW c \in Calls, AddsCell(c) PROVE AnsweredRan'
  BY <1>0, <1>13 DEF AddsCell, Answers
<1>14. ASSUME NEW c \in Calls, ListsCells(c) PROVE AnsweredRan'
  BY <1>0, <1>14 DEF ListsCells, Answers
<1>15. ASSUME NEW c \in Calls, Runs(c) PROVE AnsweredRan'
  <2>1. PICK m \in Calls \cup {NoCall} : <<c, m>> \in ran'
    BY <1>15 DEF Runs
  <2>2. HasRun(c)'
    BY <2>1 DEF HasRun
  <2> QED
    BY <1>0, <1>15, <2>2 DEF Runs, Answers
<1>16. ASSUME NEW c \in Calls, CallerCancels(c) PROVE AnsweredRan'
  BY <1>0, <1>16 DEF CallerCancels
<1>17. CASE SessionEnds \/ UserAdds \/ UserDeletes
  BY <1>0, <1>17 DEF SessionEnds, UserAdds, UserDeletes
<1> QED
  BY <1>1, <1>2, <1>3, <1>4, <1>5, <1>6, <1>7, <1>8, <1>9, <1>10, <1>11, <1>12, <1>13,
     <1>14, <1>15, <1>16, <1>17
     DEF DNext, CallStep, NotebookStep

-----------------------------------------------------------------------------
(* Theorems                                                                *)

\* A step that changes nothing keeps the invariant.
LEMMA DInvStutter == DInv /\ UNCHANGED dvars => DInv'
<1> SUFFICES ASSUME DInv, UNCHANGED dvars PROVE DInv'
  OBVIOUS
<1> USE DEF dvars, notebookVars, contextVars, lookupVars, DInv
<1>1. DTypeOK' /\ NoIdYet' /\ OneCallAtATime' /\ NoResultYet' /\ Pending'
  BY DEF DTypeOK, NoIdYet, OneCallAtATime, InProgress, NoResultYet, Pending
<1>2. NotDispatched' /\ TrustedRan' /\ AnsweredRan'
  BY DEF NotDispatched, TrustedRan, Trusted, AnsweredRan, HasRun
<1>3. UniqueIds' /\ LookupIds' /\ VerifiedTarget'
  BY DEF UniqueIds, LookupIds, VerifiedTarget, Marked
<1> QED
  BY <1>1, <1>2, <1>3

\* Every reachable state satisfies the inductive invariant.
THEOREM DInvariant == DSpec => []DInv
<1>1. DInit => DInv
  BY DInvInit
<1>2. DInv /\ [DNext]_dvars => DInv'
  <2> SUFFICES ASSUME DInv, [DNext]_dvars PROVE DInv'
    OBVIOUS
  <2>1. CASE DNext
    BY <2>1, DTypeStep, OneCallStep, NoResultStep, DispatchStep, PendingStep,
       MarkedStays, LookupStep, VerifiedStep, TrustedStep, AnsweredStep DEF DInv
  <2>2. CASE UNCHANGED dvars
    BY <2>2, DInvStutter
  <2> QED
    BY <2>1, <2>2
<1> QED
  BY <1>1, <1>2, PTL DEF DSpec

\* The variables keep their types, and the runner of a notebook is called with
\* the code or with a cell id, never with an empty one.
THEOREM DTypeCorrect == DSpec => []DTypeOK
<1>1. DInv => DTypeOK
  BY DEF DInv
<1> QED
  BY <1>1, DInvariant, PTL

\* There is one call of disconnect_colab_runtime at a time, and the flag is set
\* as long as it lasts.
THEOREM OneCall == DSpec => []OneCallAtATime
<1>1. DInv => OneCallAtATime
  BY DEF DInv
<1> QED
  BY <1>1, DInvariant, PTL

\* A call that returned a tool error has released no runtime, and no request it
\* left behind will.
THEOREM ErrorReleasesNothing == DSpec => []ErrorMeansNotRun
<1>1. DInv => ErrorMeansNotRun
  BY DEF DInv, NoResultYet, NotDispatched, HasRun, ErrorMeansNotRun
<1> QED
  BY <1>1, DInvariant, PTL

\* A call that looked its cell up runs that cell or none, whatever the notebook
\* answered to add_code_cell and whatever cells come and go.
THEOREM OwnCellRun == DSpec => []VerifiedCellRun
<1>1. DInv => VerifiedCellRun
  BY DEF DInv, TrustedRan, Trusted, VerifiedCellRun
<1> QED
  BY <1>1, DInvariant, PTL

\* A call that returned "completed" has run its own code, or a cell whose id it
\* took from the add result.
THEOREM CompletedHasRun == DSpec => []CompletedRan
<1>1. ASSUME DInv, NEW c \in Calls, result[c] = "completed", Trusted(c)
      PROVE  <<c, c>> \in ran
  <2>1. PICK r \in ran : r[1] = c
    BY <1>1 DEF DInv, AnsweredRan, HasRun
  <2>2. PICK m \in Calls \cup {NoCall} : r = <<c, m>>
    BY <1>1, <2>1 DEF DInv, DTypeOK
  <2> QED
    BY <1>1, <2>1, <2>2 DEF DInv, TrustedRan
<1>2. DInv => CompletedRan
  BY <1>1 DEF Trusted, CompletedRan
<1> QED
  BY <1>2, DInvariant, PTL

-----------------------------------------------------------------------------
(* Refinement: a call issues one request, and Disconnect keeps the promise *)
(* of Unassign                                                             *)

\* The run request is written once, in the run step, which it is answered in;
\* while it is on the wire the call has not run anything.
IssuedOnce ==
  \A c \in Calls :
    /\ wire[c] = "run" \/ HasRun(c) => c \in issued
    /\ wire[c] = "run" => ~HasRun(c)
    /\ c \in issued => (pc[c] = "run" /\ sent[c]) \/ pc[c] = "returned"

\* Only the runner runs anything.
LEMMA RanKept ==
  ASSUME DNext, \A c \in Calls : ~Runs(c)
  PROVE  ran' = ran
<1> USE DEF notebookVars
<1>1. ASSUME NEW c \in Calls, CallStep(c) PROVE ran' = ran
  BY <1>1 DEF CallStep, Begins, Rejected, FindsPlan, FindsNoPlan, Sends, CountKnown,
              CellAdded, PreparationFails, FindsMarked, FindsNone, LookupFails,
              ChoosesCandidate, NoCandidate, Issues, CancelledBeforeIssue, RunCompletes,
              RunFails, RunTimesOut
<1>2. ASSUME NEW c \in Calls,
             CallerCancels(c) \/ Refuses(c) \/ Counts(c) \/ AddsCell(c) \/ ListsCells(c)
      PROVE  ran' = ran
  BY <1>2 DEF CallerCancels, Refuses, Counts, AddsCell, ListsCells
<1>3. CASE SessionEnds \/ UserAdds \/ UserDeletes
  BY <1>3 DEF SessionEnds, UserAdds, UserDeletes
<1> QED
  BY <1>1, <1>2, <1>3 DEF DNext, NotebookStep

\* No step writes a second run request for a call, or runs a first one twice.
LEMMA IssuedStep == DTypeOK /\ IssuedOnce /\ DNext => IssuedOnce'
<1> SUFFICES ASSUME DTypeOK, IssuedOnce, DNext PROVE IssuedOnce'
  OBVIOUS
<1> USE DEF DTypeOK, Requests, contextVars, lookupVars, notebookVars, IssuedOnce
<1>1. ASSUME NEW c \in Calls, Runs(c) PROVE IssuedOnce'
  <2>1. /\ wire[c] = "run" /\ wire'[c] # "run" /\ UNCHANGED <<pc, sent, issued>>
        /\ \A d \in Calls \ {c} : wire'[d] = wire[d]
    BY <1>1 DEF Runs, Answers
  <2>2. \A d \in Calls \ {c} : HasRun(d)' = HasRun(d)
    BY <1>1 DEF Runs, HasRun
  <2> QED
    BY <2>1, <2>2
<1>2. CASE \A c \in Calls : ~Runs(c)
  <2>0. \A c \in Calls : HasRun(c)' = HasRun(c)
    BY <1>2, RanKept DEF HasRun
  <2>1. ASSUME NEW c \in Calls, Begins(c) \/ Rejected(c) PROVE IssuedOnce'
    BY <2>0, <2>1 DEF Begins, Rejected, PcAt
  <2>2. ASSUME NEW c \in Calls, FindsPlan(c) PROVE IssuedOnce'
    BY <2>0, <2>2 DEF FindsPlan, PcAt
  <2>3. ASSUME NEW c \in Calls,
               FindsNoPlan(c) \/ NoCandidate(c) \/ CancelledBeforeIssue(c) \/ RunTimesOut(c)
        PROVE  IssuedOnce'
    BY <2>0, <2>3 DEF FindsNoPlan, NoCandidate, CancelledBeforeIssue, RunTimesOut, Returns
  <2>4. ASSUME NEW c \in Calls, Sends(c) PROVE IssuedOnce'
    BY <2>0, <2>4 DEF Sends
  <2>5. ASSUME NEW c \in Calls, CountKnown(c) \/ CellAdded(c) PROVE IssuedOnce'
    BY <2>0, <2>5 DEF CountKnown, CellAdded, Answered
  <2>6. ASSUME NEW c \in Calls, PreparationFails(c) \/ LookupFails(c) PROVE IssuedOnce'
    BY <2>0, <2>6 DEF PreparationFails, LookupFails, Fails, Returns
  <2>7. ASSUME NEW c \in Calls, RunFails(c) PROVE IssuedOnce'
    BY <2>0, <2>7 DEF RunFails, Fails, Returns
  <2>8. ASSUME NEW c \in Calls, FindsMarked(c) \/ FindsNone(c) PROVE IssuedOnce'
    BY <2>0, <2>8 DEF FindsMarked, FindsNone, Answered, Returns
  <2>9. ASSUME NEW c \in Calls, RunCompletes(c) PROVE IssuedOnce'
    BY <2>0, <2>9 DEF RunCompletes, Answered, Returns
  <2>10. ASSUME NEW c \in Calls, ChoosesCandidate(c) \/ Issues(c) PROVE IssuedOnce'
    BY <2>0, <2>10 DEF ChoosesCandidate, Issues, PcAt
  <2>11. ASSUME NEW c \in Calls, Refuses(c) \/ Counts(c) PROVE IssuedOnce'
    BY <2>0, <2>11 DEF Refuses, Counts, Answers
  <2>12. ASSUME NEW c \in Calls, AddsCell(c) \/ ListsCells(c) PROVE IssuedOnce'
    BY <2>0, <2>12 DEF AddsCell, ListsCells, Answers
  <2>13. ASSUME NEW c \in Calls, CallerCancels(c) PROVE IssuedOnce'
    BY <2>0, <2>13 DEF CallerCancels
  <2>14. CASE SessionEnds \/ UserAdds \/ UserDeletes
    BY <2>0, <2>14 DEF SessionEnds, UserAdds, UserDeletes
  <2> QED
    BY <1>2, <2>1, <2>2, <2>3, <2>4, <2>5, <2>6, <2>7, <2>8, <2>9, <2>10, <2>11, <2>12,
       <2>13, <2>14 DEF DNext, CallStep, NotebookStep
<1> QED
  BY <1>1, <1>2

\* Working is the call in progress, or NoCall.
LEMMA WorkingIs ==
  ASSUME OneCallAtATime
  PROVE  /\ \A c \in Calls : Working = c <=> InProgress(c)
         /\ Working = NoCall <=> ~disconnecting
<1>1. CASE \E c \in Calls : InProgress(c)
  <2>1. Working \in Calls /\ InProgress(Working)
    BY <1>1 DEF Working
  <2> QED
    BY <1>1, <2>1, CallsAssumption DEF OneCallAtATime
<1>2. CASE ~\E c \in Calls : InProgress(c)
  BY <1>2, CallsAssumption DEF Working, OneCallAtATime
<1> QED
  BY <1>1, <1>2

\* The same after a step.
LEMMA WorkingIsPrime ==
  ASSUME OneCallAtATime'
  PROVE  /\ \A c \in Calls : Working' = c <=> InProgress(c)'
         /\ Working' = NoCall <=> ~disconnecting'
<1>1. CASE \E c \in Calls : InProgress(c)'
  <2>1. Working' \in Calls /\ \E c \in Calls : c = Working' /\ InProgress(c)'
    BY <1>1 DEF Working
  <2> QED
    BY <1>1, <2>1, CallsAssumption DEF OneCallAtATime
<1>2. CASE ~\E c \in Calls : InProgress(c)'
  BY <1>2, CallsAssumption DEF Working, OneCallAtATime
<1> QED
  BY <1>1, <1>2

\* A step after which the same call is in progress.
LEMMA WorkingKept ==
  ASSUME OneCallAtATime, OneCallAtATime', \A c \in Calls : InProgress(c)' = InProgress(c)
  PROVE  Working' = Working
<1>1. CASE \E c \in Calls : InProgress(c)
  BY <1>1, WorkingIs, WorkingIsPrime
<1>2. CASE ~\E c \in Calls : InProgress(c)
  BY <1>2 DEF Working
<1> QED
  BY <1>1, <1>2

\* The abstract request of a call, one conjunct for each stage of it.
LEMMA RequestCases ==
  ASSUME NEW c \in Calls
  PROVE  /\ wire[c] = "run" => RunRequest[c] = "issued"
         /\ wire[c] # "run" /\ HasRun(c) => RunRequest[c] = "executed"
         /\ wire[c] # "run" /\ ~HasRun(c) /\ c \in issued => RunRequest[c] = "declined"
         /\ wire[c] # "run" /\ ~HasRun(c) /\ c \notin issued => RunRequest[c] = "none"
BY DEF RunRequest

\* The same after a step.
LEMMA RequestCasesPrime ==
  ASSUME NEW c \in Calls
  PROVE  /\ wire'[c] = "run" => RunRequest'[c] = "issued"
         /\ wire'[c] # "run" /\ HasRun(c)' => RunRequest'[c] = "executed"
         /\ wire'[c] # "run" /\ ~HasRun(c)' /\ c \in issued' => RunRequest'[c] = "declined"
         /\ wire'[c] # "run" /\ ~HasRun(c)' /\ c \notin issued' => RunRequest'[c] = "none"
BY DEF RunRequest

\* A step that keeps the request of every call but one is an EXCEPT.
LEMMA RequestMoves ==
  ASSUME NEW c \in Calls, NEW to, RunRequest'[c] = to,
         \A d \in Calls : d # c => RunRequest'[d] = RunRequest[d]
  PROVE  RunRequest' = [RunRequest EXCEPT ![c] = to]
<1>1. ASSUME NEW f, NEW g,
             f = [d \in Calls |-> f[d]], g = [d \in Calls |-> g[d]],
             g[c] = to, \A d \in Calls : d # c => g[d] = f[d]
      PROVE  g = [f EXCEPT ![c] = to]
  BY <1>1
<1>2. /\ RunRequest = [d \in Calls |-> RunRequest[d]]
      /\ RunRequest' = [d \in Calls |-> RunRequest'[d]]
  BY DEF RunRequest
<1> QED
  BY <1>1, <1>2

\* A step that writes and answers no run request keeps all of them.
LEMMA RequestKept ==
  ASSUME UNCHANGED <<issued, ran>>,
         \A c \in Calls : wire'[c] = "run" <=> wire[c] = "run"
  PROVE  RunRequest' = RunRequest
<1>1. \A c \in Calls : HasRun(c)' = HasRun(c)
  BY DEF HasRun
<1>2. \A c \in Calls : RunRequest'[c] = RunRequest[c]
  BY <1>1, RequestCases, RequestCasesPrime
<1> QED
  BY <1>2 DEF RunRequest

\* A call that returns is over, and frees the flag.
LEMMA EndsIts ==
  ASSUME DTypeOK, OneCallAtATime, OneCallAtATime', NEW c \in Calls, NEW outcome,
         InProgress(c), Returns(c, outcome), UNCHANGED <<issued, ran>>,
         \A d \in Calls : wire'[d] = "run" <=> wire[d] = "run"
  PROVE  Promise!Ends(c, outcome)
<1>1. Working = c
  BY WorkingIs
<1>2. Working' = NoCall
  BY WorkingIsPrime DEF Returns
<1> QED
  BY <1>1, <1>2, RequestKept DEF Returns, Promise!Ends

\* A step between the beginning of a call and its end, with no run request.
LEMMA GoesOnIts ==
  ASSUME OneCallAtATime, OneCallAtATime', UNCHANGED <<result, issued, ran>>,
         \A c \in Calls : /\ InProgress(c)' = InProgress(c)
                          /\ wire'[c] = "run" <=> wire[c] = "run"
  PROVE  UNCHANGED Promise!unassignVars
BY WorkingKept, RequestKept DEF Promise!unassignVars

\* A return from session.CallTool leaves no run request behind that was not there.
LEMMA AnswerTaken ==
  ASSUME DTypeOK, NEW c \in Calls, NEW request, Answered(c, request) \/ Fails(c, request)
  PROVE  \A d \in Calls : wire'[d] = "run" <=> wire[d] = "run"
<1>1. CASE Answered(c, request)
  BY <1>1 DEF DTypeOK, Answered
<1>2. CASE Fails(c, request)
  BY <1>2 DEF DTypeOK, Fails
<1> QED
  BY <1>1, <1>2

\* Every step is one of Unassign, or none.
LEMMA UnassignStep ==
  DInv /\ DInv' /\ IssuedOnce /\ [DNext]_dvars
    => [Promise!UnassignNext]_(Promise!unassignVars)
<1> SUFFICES ASSUME DInv, DInv', IssuedOnce, [DNext]_dvars
             PROVE  Promise!UnassignNext \/ UNCHANGED Promise!unassignVars
  OBVIOUS
<1>t. DTypeOK /\ OneCallAtATime /\ OneCallAtATime'
  BY DEF DInv
<1>i. \A c \in Calls : InProgress(c) /\ pc[c] # "run" => RunRequest[c] = "none"
  BY RequestCases DEF IssuedOnce, InProgress
<1> USE DEF contextVars, lookupVars, notebookVars
<1>1. ASSUME NEW c \in Calls, Begins(c) PROVE Promise!Starts(c)
  <2>1. ~disconnecting /\ pc[c] = "idle" /\ pc'[c] = "begin"
    BY <1>1, <1>t DEF Begins, PcAt, DTypeOK
  <2>2. Working = NoCall /\ Working' = c
    BY <2>1, <1>t, WorkingIs, WorkingIsPrime DEF InProgress
  <2>3. result[c] = "none" /\ UNCHANGED <<result, RunRequest, ran>>
    BY <1>1, <2>1, RequestKept DEF Begins, DInv, NoResultYet
  <2> QED
    BY <2>2, <2>3 DEF Promise!Starts
<1>2. ASSUME NEW c \in Calls, Rejected(c) PROVE Promise!Refused(c)
  <2>1. /\ disconnecting /\ pc[c] = "idle" /\ pc'[c] = "returned"
        /\ \A d \in Calls \ {c} : pc'[d] = pc[d]
    BY <1>2, <1>t DEF Rejected, PcAt, DTypeOK
  <2>2. Working # NoCall /\ Working # c
    BY <2>1, <1>t, WorkingIs DEF InProgress
  <2>3. Working' = Working
    BY <2>1, <1>t, WorkingKept DEF InProgress
  <2>4. result[c] = "none" /\ UNCHANGED <<RunRequest, ran>>
    BY <1>2, <2>1, RequestKept DEF Rejected, DInv, NoResultYet
  <2> QED
    BY <1>2, <2>2, <2>3, <2>4 DEF Rejected, Promise!Refused
<1>3. ASSUME NEW c \in Calls,
             \/ FindsNoPlan(c) \/ PreparationFails(c) \/ FindsNone(c) \/ NoCandidate(c)
             \/ CancelledBeforeIssue(c)
      PROVE  Promise!EndsInError(c)
  <2>1. InProgress(c) /\ pc[c] # "run"
    BY <1>3 DEF FindsNoPlan, PreparationFails, FindsNone, NoCandidate, CancelledBeforeIssue,
                Fails, Answered, InProgress
  <2>2. Returns(c, "error") /\ UNCHANGED <<issued, ran>>
    BY <1>3 DEF FindsNoPlan, PreparationFails, FindsNone, NoCandidate, CancelledBeforeIssue
  <2>3. \A d \in Calls : wire'[d] = "run" <=> wire[d] = "run"
    BY <1>3, <1>t, AnswerTaken DEF FindsNoPlan, PreparationFails, FindsNone, NoCandidate,
                                   CancelledBeforeIssue
  <2> QED
    BY <2>1, <2>2, <2>3, <1>i, <1>t, EndsIts DEF Promise!EndsInError
<1>4. ASSUME NEW c \in Calls, RunCompletes(c) PROVE Promise!EndsCompleted(c)
  <2>1. /\ InProgress(c) /\ Returns(c, "completed") /\ UNCHANGED <<issued, ran>>
        /\ pc[c] = "run" /\ sent[c] /\ wire[c] = "answered"
    BY <1>4 DEF RunCompletes, Answered, InProgress
  <2>2. RunRequest[c] = "executed"
    BY <2>1, RequestCases DEF DInv, AnsweredRan
  <2>3. \A d \in Calls : wire'[d] = "run" <=> wire[d] = "run"
    BY <1>4, <1>t, AnswerTaken DEF RunCompletes
  <2> QED
    BY <2>1, <2>2, <2>3, <1>t, EndsIts DEF Promise!EndsCompleted
<1>5. ASSUME NEW c \in Calls, RunFails(c) \/ RunTimesOut(c) PROVE Promise!EndsUnknown(c)
  <2>1. InProgress(c) /\ Returns(c, "unknown") /\ UNCHANGED <<issued, ran>>
    BY <1>5 DEF RunFails, RunTimesOut, Fails, InProgress
  <2>2. \A d \in Calls : wire'[d] = "run" <=> wire[d] = "run"
    BY <1>5, <1>t, AnswerTaken DEF RunFails, RunTimesOut
  <2> QED
    BY <2>1, <2>2, <1>t, EndsIts DEF Promise!EndsUnknown
<1>6. ASSUME NEW c \in Calls, Sends(c), pc[c] = "run" PROVE Promise!Issued(c)
  <2>1. Working = c /\ Working' = Working
    BY <1>6, <1>t, WorkingIs, WorkingKept DEF Sends, InProgress
  <2>2. /\ c \notin issued /\ wire[c] # "run" /\ ~HasRun(c) /\ wire'[c] = "run"
        /\ issued' = issued \cup {c} /\ UNCHANGED <<result, ran>>
        /\ \A d \in Calls : d # c => wire'[d] = wire[d] /\ (HasRun(d)' <=> HasRun(d))
    BY <1>6, <1>t DEF Sends, IssuedOnce, DTypeOK, HasRun
  <2>3. /\ RunRequest[c] = "none" /\ RunRequest'[c] = "issued"
        /\ \A d \in Calls : d # c => RunRequest'[d] = RunRequest[d]
    BY <2>2, RequestCases, RequestCasesPrime
  <2> QED
    BY <2>1, <2>2, <2>3, RequestMoves DEF Promise!Issued, Promise!RequestGoes
<1>7. ASSUME NEW c \in Calls, Runs(c) PROVE Promise!Executed(c)
  <2>1. Working' = Working
    BY <1>7, <1>t, WorkingKept DEF Runs, Answers, InProgress
  <2>2. PICK m \in Calls \cup {NoCall} : ran' = ran \cup {<<c, m>>}
    BY <1>7 DEF Runs
  <2>3. <<c, m>> \in ran' /\ \A d \in Calls : d # c => (HasRun(d)' <=> HasRun(d))
    BY <2>2 DEF HasRun
  <2>4. HasRun(c)'
    BY <2>3 DEF HasRun
  <2>5. /\ wire[c] = "run" /\ wire'[c] # "run" /\ HasRun(c)' /\ UNCHANGED <<result, issued>>
        /\ \A d \in Calls : d # c => wire'[d] = wire[d] /\ (HasRun(d)' <=> HasRun(d))
    BY <1>7, <1>t, <2>3, <2>4 DEF Runs, Answers, DTypeOK
  <2>6. /\ RunRequest[c] = "issued" /\ RunRequest'[c] = "executed"
        /\ \A d \in Calls : d # c => RunRequest'[d] = RunRequest[d]
    BY <2>5, RequestCases, RequestCasesPrime
  <2> QED
    BY <2>1, <2>2, <2>5, <2>6, RequestMoves DEF Promise!Executed, Promise!RequestGoes
<1>8. ASSUME NEW c \in Calls,
             \/ FindsPlan(c) \/ CountKnown(c) \/ CellAdded(c) \/ FindsMarked(c)
             \/ LookupFails(c) \/ ChoosesCandidate(c) \/ Issues(c)
      PROVE  UNCHANGED Promise!unassignVars
  <2>1. \A d \in Calls : InProgress(d)' = InProgress(d)
    <3>1. CASE FindsPlan(c)
      BY <1>t, <3>1 DEF FindsPlan, PcAt, InProgress, DTypeOK
    <3>2. CASE CountKnown(c) \/ CellAdded(c) \/ FindsMarked(c)
      BY <1>t, <3>2 DEF CountKnown, CellAdded, FindsMarked, Answered, InProgress, DTypeOK
    <3>3. CASE LookupFails(c)
      BY <1>t, <3>3 DEF LookupFails, Fails, InProgress, DTypeOK
    <3>4. CASE ChoosesCandidate(c) \/ Issues(c)
      BY <1>t, <3>4 DEF ChoosesCandidate, Issues, PcAt, InProgress, DTypeOK
    <3> QED
      BY <1>8, <3>1, <3>2, <3>3, <3>4
  <2>2. UNCHANGED <<result, issued, ran>>
    BY <1>8 DEF FindsPlan, CountKnown, CellAdded, FindsMarked, LookupFails,
                ChoosesCandidate, Issues
  <2>3. \A d \in Calls : wire'[d] = "run" <=> wire[d] = "run"
    BY <1>8, <1>t, AnswerTaken DEF FindsPlan, CountKnown, CellAdded, FindsMarked,
                                   LookupFails, ChoosesCandidate, Issues
  <2> QED
    BY <2>1, <2>2, <2>3, <1>t, GoesOnIts
<1>9. ASSUME NEW c \in Calls, Sends(c), pc[c] # "run"
      PROVE  UNCHANGED Promise!unassignVars
  <2>1. UNCHANGED <<pc, result, issued, ran>>
    BY <1>9 DEF Sends
  <2>2. wire[c] # "run"
    BY <1>9 DEF Sends, IssuedOnce, Requests
  <2>3. \A d \in Calls : wire'[d] = "run" <=> wire[d] = "run"
    BY <1>9, <1>t, <2>2 DEF Sends, DTypeOK
  <2> QED
    BY <2>1, <2>3, <1>t, GoesOnIts DEF InProgress
<1>10. ASSUME NEW c \in Calls, Refuses(c), wire[c] = "run" PROVE Promise!Declined(c)
  <2>1. Working' = Working
    BY <1>10, <1>t, WorkingKept DEF Refuses, Answers, InProgress
  <2>2. /\ c \in issued /\ ~HasRun(c) /\ wire'[c] # "run" /\ UNCHANGED <<result, issued, ran>>
        /\ \A d \in Calls : d # c => wire'[d] = wire[d]
    BY <1>10, <1>t DEF Refuses, Answers, IssuedOnce, DTypeOK
  <2>3. \A d \in Calls : HasRun(d)' <=> HasRun(d)
    BY <2>2 DEF HasRun
  <2>4. /\ RunRequest[c] = "issued" /\ RunRequest'[c] = "declined"
        /\ \A d \in Calls : d # c => RunRequest'[d] = RunRequest[d]
    BY <1>10, <2>2, <2>3, RequestCases, RequestCasesPrime
  <2> QED
    BY <2>1, <2>2, <2>4, RequestMoves DEF Promise!Declined, Promise!RequestGoes
<1>11. ASSUME NEW c \in Calls,
              \/ CallerCancels(c) \/ Counts(c) \/ AddsCell(c) \/ ListsCells(c)
              \/ (Refuses(c) /\ wire[c] # "run")
       PROVE  UNCHANGED Promise!unassignVars
  <2>1. UNCHANGED <<pc, result, issued, ran>>
    BY <1>11 DEF CallerCancels, Refuses, Counts, AddsCell, ListsCells, Answers
  <2>2. \A d \in Calls : wire'[d] = "run" <=> wire[d] = "run"
    BY <1>11, <1>t DEF CallerCancels, Refuses, Counts, AddsCell, ListsCells, Answers, DTypeOK
  <2> QED
    BY <2>1, <2>2, <1>t, GoesOnIts DEF InProgress
<1>12. CASE SessionEnds \/ UserAdds \/ UserDeletes \/ UNCHANGED dvars
  <2>1. UNCHANGED <<pc, wire, result, issued, ran>>
    BY <1>12 DEF SessionEnds, UserAdds, UserDeletes, dvars
  <2> QED
    BY <2>1, <1>t, GoesOnIts DEF InProgress
<1> QED
  BY <1>1, <1>2, <1>3, <1>4, <1>5, <1>6, <1>7, <1>8, <1>9, <1>10, <1>11, <1>12
  DEF DNext, CallStep, NotebookStep, Promise!UnassignNext

\* Whatever plan it takes, a call runs something at most once, and says an
\* error only if it issued nothing and never will (disconnect.go:151).
THEOREM UnassignRefinement == DSpec => ImplementsUnassign
<1>1. DInit => IssuedOnce /\ Promise!UnassignInit
  BY DEF DInit, IssuedOnce, HasRun, RunRequest, Working, InProgress, Promise!UnassignInit
<1>2. DInv /\ IssuedOnce /\ [DNext]_dvars => IssuedOnce'
  <2>1. CASE DNext
    BY <2>1, IssuedStep DEF DInv
  <2>2. CASE UNCHANGED dvars
    BY <2>2 DEF dvars, notebookVars, IssuedOnce, HasRun
  <2> QED
    BY <2>1, <2>2
<1> QED
  BY <1>1, <1>2, UnassignStep, DInvariant, PTL
  DEF DSpec, ImplementsUnassign, Promise!UnassignSpec

-----------------------------------------------------------------------------
(* The plan                                                                *)
(*                                                                         *)
(* What the planner tries one after the other is compared with what there  *)
(* is to try: AddArgsFit for add_code_cell, PlanFound for the runners.     *)

\* Whichever schema the notebook gives, the planner's test is the reference's.
LEMMA AcceptsFits ==
  ASSUME NEW t, NEW args
  PROVE  SchemaAccepts(toolbox[t], args) <=> Fits([tool |-> t, args |-> args])
BY DEF SchemaAccepts, Fits

\* The first of some numbered choices.
First(S) == CHOOSE i \in S : \A j \in S : i <= j

LEMMA FirstOf ==
  ASSUME NEW S \in SUBSET (1..6), S # {}
  PROVE  First(S) \in S /\ \A j \in S : First(S) <= j
<1>1. \E i \in S : \A j \in S : i <= j
  <2>1. S \subseteq {1, 2, 3, 4, 5, 6}
    OBVIOUS
  <2>2. CASE 1 \in S
    BY <2>1, <2>2
  <2>3. CASE 1 \notin S /\ 2 \in S
    BY <2>1, <2>3
  <2>4. CASE 1 \notin S /\ 2 \notin S /\ 3 \in S
    BY <2>1, <2>4
  <2>5. CASE 1 \notin S /\ 2 \notin S /\ 3 \notin S /\ 4 \in S
    BY <2>1, <2>5
  <2>6. CASE 1 \notin S /\ 2 \notin S /\ 3 \notin S /\ 4 \notin S /\ 5 \in S
    BY <2>1, <2>6
  <2>7. CASE 1 \notin S /\ 2 \notin S /\ 3 \notin S /\ 4 \notin S /\ 5 \notin S
    <3>1. S = {6}
      BY <2>1, <2>7
    <3> QED
      BY <3>1
  <2> QED
    BY <2>2, <2>3, <2>4, <2>5, <2>6, <2>7
<1> QED
  BY <1>1 DEF First

\* The sets of arguments tried are all there are, and differ in what they name.
LEMMA VariantsAll ==
  /\ Variants[1] = {"code"} /\ Variants[2] = {"code", "language"}
  /\ Variants[3] = {"code", "cellIndex"}
  /\ Variants[4] = {"code", "cellIndex", "language"}
  /\ \A more \in SUBSET {"cellIndex", "language"} :
       \E i \in 1..4 : {"code"} \cup more = Variants[i]
<1>1. /\ Variants[1] = {"code"} /\ Variants[2] = {"code", "language"}
      /\ Variants[3] = {"code", "cellIndex"}
      /\ Variants[4] = {"code", "cellIndex", "language"}
  BY DEF Variants
<1>2. ASSUME NEW more \in SUBSET {"cellIndex", "language"}
      PROVE  \E i \in 1..4 : {"code"} \cup more = Variants[i]
  <2>1. CASE "cellIndex" \notin more /\ "language" \notin more
    <3>1. {"code"} \cup more = Variants[1]
      BY <1>1, <2>1
    <3> QED
      BY <3>1
  <2>2. CASE "cellIndex" \notin more /\ "language" \in more
    <3>1. {"code"} \cup more = Variants[2]
      BY <1>1, <2>2
    <3> QED
      BY <3>1
  <2>3. CASE "cellIndex" \in more /\ "language" \notin more
    <3>1. {"code"} \cup more = Variants[3]
      BY <1>1, <2>3
    <3> QED
      BY <3>1
  <2>4. CASE "cellIndex" \in more /\ "language" \in more
    <3>1. {"code"} \cup more = Variants[4]
      BY <1>1, <2>4
    <3> QED
      BY <3>1
  <2> QED
    BY <2>1, <2>2, <2>3, <2>4
<1> QED
  BY <1>1, <1>2

\* The calls needed to add a cell with the given arguments are accepted.
AddFits(args) == /\ Fits([tool |-> "add_code_cell", args |-> args])
                 /\ "cellIndex" \in args => Fits([tool |-> "get_cells", args |-> {}])

\* findAddCellPlan: none if nothing fits, else what fits and needs least.
LEMMA AddArgsFit ==
  /\ AddArgs(toolbox) = {} =>
       \A more \in SUBSET {"cellIndex", "language"} : ~AddFits({"code"} \cup more)
  /\ AddArgs(toolbox) # {} =>
       /\ AddFits(AddArgs(toolbox)) /\ "code" \in AddArgs(toolbox)
       /\ \A a \in AddArgs(toolbox) \ {"code"} : a \in toolbox["add_code_cell"].required
<1> DEFINE able == AddVariants(toolbox)
<1>1. \A i \in 1..4 : i \in able <=> AddFits(Variants[i])
  BY AcceptsFits DEF AddVariants, AddFits, CanGet
<1>2. able \in SUBSET (1..6) /\ able \subseteq 1..4
  BY DEF AddVariants
<1>3. CASE able = {}
  <2>1. AddArgs(toolbox) = {}
    BY <1>3 DEF AddArgs
  <2>2. ASSUME NEW more \in SUBSET {"cellIndex", "language"}
        PROVE  ~AddFits({"code"} \cup more)
    <3>1. PICK i \in 1..4 : {"code"} \cup more = Variants[i]
      BY VariantsAll
    <3> QED
      BY <1>1, <1>3, <3>1
  <2> QED
    BY <2>1, <2>2
<1>4. CASE able # {}
  <2> DEFINE i == First(able)
  <2>1. AddArgs(toolbox) = Variants[i]
    BY <1>4 DEF AddArgs, First
  <2>2. i \in 1..4 /\ i \in able /\ \A j \in able : i <= j
    BY <1>2, <1>4, FirstOf
  <2>3. AddFits(Variants[i]) /\ \A j \in 1..4 : j < i => ~AddFits(Variants[j])
    BY <1>1, <2>2
  <2> HIDE DEF i
  <2>4. "code" \in Variants[i] /\ Variants[i] # {}
    BY <2>2, VariantsAll
  <2>5. \A a \in Variants[i] \ {"code"} : a \in toolbox["add_code_cell"].required
    <3> USE DEF AddFits, Fits
    <3>1. CASE i = 1
      BY <3>1, VariantsAll
    <3>2. CASE i = 2
      BY <2>3, <3>2, VariantsAll
    <3>3. CASE i = 3
      BY <2>3, <3>3, VariantsAll
    <3>4. CASE i = 4
      BY <2>3, <3>4, VariantsAll
    <3> QED
      BY <2>2, <3>1, <3>2, <3>3, <3>4
  <2> QED
    BY <2>1, <2>3, <2>4, <2>5
<1> QED
  BY <1>3, <1>4

\* What can be run: the code, or an added cell.
WayFits(tool, arg) ==
  /\ Fits([tool |-> tool, args |-> {arg}])
  /\ arg # "code" => \E more \in SUBSET {"cellIndex", "language"} : AddFits({"code"} \cup more)

Runners == {"run_code_cell", "execute_cell"}
RunnerArgs == {"code", "cellId", "cell_id"}

\* The six ways, by number.
LEMMA WaysAre ==
  /\ \A k \in 1..6 : Ways[k].tool \in Runners /\ Ways[k].arg \in RunnerArgs
  /\ \A k \in 1..3 : Ways[k].tool = "run_code_cell"
  /\ \A k \in 4..6 : Ways[k].tool = "execute_cell"
  /\ Ways[1].arg = "code" /\ Ways[4].arg = "code"
  /\ \A tool \in Runners, arg \in RunnerArgs :
       \E k \in 1..6 : Ways[k].tool = tool /\ Ways[k].arg = arg
<1>1. /\ Ways[1] = Way("run_code_cell", "code") /\ Ways[2] = Way("run_code_cell", "cellId")
      /\ Ways[3] = Way("run_code_cell", "cell_id") /\ Ways[4] = Way("execute_cell", "code")
      /\ Ways[5] = Way("execute_cell", "cellId") /\ Ways[6] = Way("execute_cell", "cell_id")
  BY DEF Ways
<1>2. \A t, a : Way(t, a).tool = t /\ Way(t, a).arg = a
  BY DEF Way
<1>3. 1..6 = {1, 2, 3, 4, 5, 6} /\ 1..3 = {1, 2, 3} /\ 4..6 = {4, 5, 6}
  OBVIOUS
<1>4. \A tool \in Runners, arg \in RunnerArgs :
        \E k \in {1, 2, 3, 4, 5, 6} : Ways[k].tool = tool /\ Ways[k].arg = arg
  BY <1>1, <1>2 DEF Runners, RunnerArgs
<1> QED
  BY <1>1, <1>2, <1>3, <1>4 DEF Runners, RunnerArgs

\* A way is usable exactly when its calls fit.
LEMMA UsableFits ==
  ASSUME NEW k \in 1..6
  PROVE  Usable(toolbox, Ways[k]) <=> WayFits(Ways[k].tool, Ways[k].arg)
<1>1. AddArgs(toolbox) # {} <=>
        \E more \in SUBSET {"cellIndex", "language"} : AddFits({"code"} \cup more)
  <2>1. CASE AddArgs(toolbox) = {}
    BY <2>1, AddArgsFit
  <2>2. CASE AddArgs(toolbox) # {}
    <3>1. AddFits(AddArgs(toolbox)) /\ \E i \in 1..4 : AddArgs(toolbox) = Variants[i]
      <4>1. AddVariants(toolbox) # {} /\ AddVariants(toolbox) \in SUBSET (1..6)
        BY <2>2 DEF AddArgs, AddVariants
      <4>2. First(AddVariants(toolbox)) \in 1..4
        BY <4>1, FirstOf DEF AddVariants
      <4> QED
        BY <2>2, <4>1, <4>2, AddArgsFit DEF AddArgs, First
    <3>2. PICK i \in 1..4 : AddArgs(toolbox) = Variants[i]
      BY <3>1
    <3>3. \E more \in SUBSET {"cellIndex", "language"} : Variants[i] = {"code"} \cup more
      <4>1. Variants[1] = {"code"} \cup {} /\ Variants[2] = {"code"} \cup {"language"}
        BY VariantsAll
      <4>2. Variants[3] = {"code"} \cup {"cellIndex"}
        BY VariantsAll
      <4>3. Variants[4] = {"code"} \cup {"cellIndex", "language"}
        BY VariantsAll
      <4>4. i = 1 \/ i = 2 \/ i = 3 \/ i = 4
        BY <3>2
      <4> QED
        BY <4>1, <4>2, <4>3, <4>4
    <3> QED
      BY <2>2, <3>1, <3>2, <3>3
  <2> QED
    BY <2>1, <2>2
<1> QED
  BY <1>1, AcceptsFits DEF Usable, WayFits

\* What findExecutionPlan returns: no plan if no way fits, else the first one.
LEMMA PlanFound ==
  \/ /\ FindExecutionPlan(toolbox) = NoUsablePlan
     /\ \A k \in 1..6 : ~WayFits(Ways[k].tool, Ways[k].arg)
  \/ \E k \in 1..6 : /\ FindExecutionPlan(toolbox) = PlanFor(toolbox, Ways[k])
                     /\ WayFits(Ways[k].tool, Ways[k].arg)
                     /\ \A j \in 1..6 : j < k => ~WayFits(Ways[j].tool, Ways[j].arg)
<1> DEFINE usable == {k \in 1..6 : Usable(toolbox, Ways[k])}
<1>1. CASE usable = {}
  <2>1. FindExecutionPlan(toolbox) = NoUsablePlan
    BY <1>1 DEF FindExecutionPlan
  <2> QED
    BY <1>1, <2>1, UsableFits
<1>2. CASE usable # {}
  <2>1. FindExecutionPlan(toolbox) = PlanFor(toolbox, Ways[First(usable)])
    BY <1>2 DEF FindExecutionPlan, First
  <2>2. First(usable) \in usable /\ \A j \in usable : First(usable) <= j
    BY <1>2, FirstOf
  <2> DEFINE k == First(usable)
  <2>3. k \in 1..6 /\ \A j \in 1..6 : j < k => j \notin usable
    BY <2>2
  <2> QED
    BY <2>1, <2>2, <2>3, UsableFits
<1> QED
  BY <1>1, <1>2

\* A plan whose calls all fit is one of the ways that fit.
LEMMA PossibleFits ==
  ASSUME NEW p \in PossiblePlans, \A call \in PlanCalls(p) : Fits(call)
  PROVE  p.tool \in Runners /\ p.arg \in RunnerArgs /\ WayFits(p.tool, p.arg)
<1>1. /\ p.tool \in Runners /\ p.arg \in RunnerArgs
      /\ p.arg # "code" => \E more \in SUBSET {"cellIndex", "language"} :
                             p.add = {"code"} \cup more
  BY DEF PossiblePlans, Runners, RunnerArgs
<1>2. Fits([tool |-> p.tool, args |-> {p.arg}])
  BY DEF PlanCalls
<1>3. p.arg # "code" => Fits([tool |-> "add_code_cell", args |-> p.add])
  BY DEF PlanCalls
<1>4. "cellIndex" \in p.add => Fits([tool |-> "get_cells", args |-> {}])
  BY DEF PlanCalls
<1> QED
  BY <1>1, <1>2, <1>3, <1>4 DEF WayFits, AddFits

\* The plan made of a way that fits: its calls fit and it asks for the least.
LEMMA PlanForFits ==
  ASSUME NEW k \in 1..6, WayFits(Ways[k].tool, Ways[k].arg),
         NEW p, p = PlanFor(toolbox, Ways[k])
  PROVE  /\ p.tool = Ways[k].tool /\ p.arg = Ways[k].arg
         /\ p # NoUsablePlan /\ p # NotPlanned
         /\ \A call \in PlanCalls(p) : Fits(call)
         /\ \A a \in p.add \ {"code"} : a \in toolbox["add_code_cell"].required
<1>1. /\ p.tool = Ways[k].tool /\ p.arg = Ways[k].arg
      /\ p.add = IF p.arg = "code" THEN {} ELSE AddArgs(toolbox)
  BY DEF PlanFor
<1>2. p.tool # "none" /\ p.tool # "unknown"
  BY <1>1, WaysAre DEF Runners
<1>3. p # NoUsablePlan /\ p # NotPlanned
  BY <1>2 DEF NoUsablePlan, NotPlanned
<1>4. p.arg # "code" => AddArgs(toolbox) # {}
  BY <1>1, AddArgsFit DEF WayFits
<1>5. /\ p.arg # "code" => AddFits(p.add)
      /\ \A a \in p.add \ {"code"} : a \in toolbox["add_code_cell"].required
  BY <1>1, <1>4, AddArgsFit
<1>6. \A call \in PlanCalls(p) : Fits(call)
  <2>1. Fits([tool |-> p.tool, args |-> {p.arg}])
    BY <1>1 DEF WayFits
  <2>2. "cellIndex" \in p.add => p.arg # "code"
    BY <1>1
  <2> QED
    BY <1>5, <2>1, <2>2 DEF PlanCalls, AddFits
<1> QED
  BY <1>1, <1>3, <1>5, <1>6

\* A plan is what findExecutionPlan makes of the tools that were listed.
PlannedFrom == planned = NotPlanned \/ planned = FindExecutionPlan(toolbox)

\* It stays so: a notebook is planned for once.
THEOREM PlanInvariance == PlanSpec => []PlannedFrom
<1>1. PlanInit => PlannedFrom
  BY DEF PlanInit, PlannedFrom
<1>2. PlannedFrom /\ [PlanNext]_planVars => PlannedFrom'
  BY DEF PlannedFrom, PlanNext, planVars
<1> QED
  BY <1>1, <1>2, PTL DEF PlanSpec

\* For whatever schemas a notebook gives its tools (disconnect.go:240, 273), the
\* calls of the plan are accepted, and there is a plan if any calls would be.
THEOREM PlanExact == PlanSpec => []PlanIsExact
<1>1. PlannedFrom => PlanIsExact
  <2> SUFFICES ASSUME PlannedFrom, planned # NotPlanned
               PROVE  PlanIsExact
    <3>1. NotPlanned.tool = "unknown" /\ NoUsablePlan.tool = "none"
      BY DEF NotPlanned, NoUsablePlan
    <3>2. NotPlanned # NoUsablePlan
      BY <3>1
    <3> QED
      BY <3>2 DEF PlanIsExact
  <2>1. planned = FindExecutionPlan(toolbox)
    BY DEF PlannedFrom
  <2>2. CASE \E k \in 1..6 : /\ planned = PlanFor(toolbox, Ways[k])
                             /\ WayFits(Ways[k].tool, Ways[k].arg)
    BY <2>2, PlanForFits DEF PlanIsExact
  <2>3. CASE planned = NoUsablePlan /\ \A k \in 1..6 : ~WayFits(Ways[k].tool, Ways[k].arg)
    <3>1. ASSUME NEW p \in PossiblePlans, \A call \in PlanCalls(p) : Fits(call)
          PROVE  FALSE
      BY <2>3, <3>1, PossibleFits, WaysAre
    <3> QED
      BY <2>3, <3>1 DEF PlanIsExact
  <2> QED
    BY <2>1, <2>2, <2>3, PlanFound
<1> QED
  BY PlanInvariance, <1>1, PTL

\* A plan gives the notebook no place and no language it does not insist on,
\* and changes it, or takes the second runner, only for want of anything else
\* (disconnect.go:251, 218).
THEOREM PlanNeedsAll == PlanSpec => []NothingNeedless
<1>1. PlannedFrom => NothingNeedless
  <2> SUFFICES ASSUME PlannedFrom, planned # NotPlanned, planned # NoUsablePlan
               PROVE  NothingNeedless
    BY DEF NothingNeedless
  <2>1. PICK k \in 1..6 : /\ planned = PlanFor(toolbox, Ways[k])
                          /\ WayFits(Ways[k].tool, Ways[k].arg)
                          /\ \A j \in 1..6 : j < k => ~WayFits(Ways[j].tool, Ways[j].arg)
    BY PlanFound DEF PlannedFrom
  <2>2. /\ planned.tool = Ways[k].tool /\ planned.arg = Ways[k].arg
        /\ \A a \in planned.add \ {"code"} : a \in toolbox["add_code_cell"].required
    BY <2>1, PlanForFits
  <2>3. ASSUME planned.arg # "code"
        PROVE  ~Fits([tool |-> planned.tool, args |-> {"code"}])
    <3>1. CASE k \in 1..3
      <4>1. k # 1 /\ Ways[1].tool = planned.tool /\ Ways[1].arg = "code"
        BY <2>2, <2>3, <3>1, WaysAre
      <4>2. ~WayFits(planned.tool, "code")
        BY <2>1, <3>1, <4>1
      <4> QED
        BY <4>2 DEF WayFits
    <3>2. CASE k \in 4..6
      <4>1. k # 4 /\ Ways[4].tool = planned.tool /\ Ways[4].arg = "code"
        BY <2>2, <2>3, <3>2, WaysAre
      <4>2. ~WayFits(planned.tool, "code")
        BY <2>1, <3>2, <4>1
      <4> QED
        BY <4>2 DEF WayFits
    <3> QED
      BY <3>1, <3>2
  <2>4. ASSUME planned.tool = "execute_cell", NEW p \in PossiblePlans,
               p.tool = "run_code_cell", \A call \in PlanCalls(p) : Fits(call)
        PROVE  FALSE
    <3>1. k \in 4..6
      <4>1. k \notin 1..3
        BY <2>2, <2>4, WaysAre
      <4> QED
        BY <4>1
    <3>2. WayFits("run_code_cell", p.arg) /\ p.arg \in RunnerArgs
      BY <2>4, PossibleFits
    <3>3. PICK j \in 1..6 : Ways[j].tool = "run_code_cell" /\ Ways[j].arg = p.arg
      BY <3>2, WaysAre DEF Runners
    <3>4. j < k
      BY <3>1, <3>3, WaysAre
    <3> QED
      BY <2>1, <3>2, <3>3, <3>4
  <2> QED
    BY <2>2, <2>3, <2>4 DEF NothingNeedless
<1> QED
  BY PlanInvariance, <1>1, PTL

\* The plan of a call, as far as the steps of Disconnect depend on it.
StepsOf(p) == [direct |-> p.arg = "code",
               get    |-> p.arg # "code" /\ p.get,
               index  |-> "cellIndex" \in p.add]

\* Disconnect's calls pick from every plan there can be: one that does not
\* read the cells adds the new one without a place (disconnect.go:260).
THEOREM PlansCovered ==
  PlanSpec => [](planned \notin {NotPlanned, NoUsablePlan} => StepsOf(planned) \in Plans)
<1>1. PlannedFrom => (planned \notin {NotPlanned, NoUsablePlan} => StepsOf(planned) \in Plans)
  <2> SUFFICES ASSUME PlannedFrom, planned # NotPlanned, planned # NoUsablePlan
               PROVE  StepsOf(planned) \in Plans
    OBVIOUS
  <2>1. PICK k \in 1..6 : /\ planned = PlanFor(toolbox, Ways[k])
                          /\ WayFits(Ways[k].tool, Ways[k].arg)
    BY PlanFound DEF PlannedFrom
  <2>2. /\ planned.arg = Ways[k].arg /\ planned.get = CanGet(toolbox)
        /\ planned.add = IF planned.arg = "code" THEN {} ELSE AddArgs(toolbox)
    BY <2>1 DEF PlanFor
  <2>3. "cellIndex" \in planned.add => planned.arg # "code" /\ CanGet(toolbox)
    <3>1. planned.arg # "code" => AddArgs(toolbox) # {}
      BY <2>1, <2>2, AddArgsFit DEF WayFits
    <3> QED
      BY <2>2, <3>1, AddArgsFit, AcceptsFits DEF AddFits, CanGet
  <2>4. CanGet(toolbox) \in BOOLEAN
    BY DEF CanGet, SchemaAccepts
  <2>5. ASSUME NEW d \in BOOLEAN, NEW g \in BOOLEAN, NEW x \in BOOLEAN,
               g => ~d, x => g
        PROVE  [direct |-> d, get |-> g, index |-> x] \in Plans
    BY <2>5 DEF Plans
  <2> DEFINE direct == planned.arg = "code"
             get    == planned.arg # "code" /\ planned.get
             index  == "cellIndex" \in planned.add
  <2>6. /\ direct \in BOOLEAN /\ get \in BOOLEAN /\ index \in BOOLEAN
        /\ get => ~direct
        /\ index => get
    BY <2>2, <2>3, <2>4
  <2>7. StepsOf(planned) = [direct |-> direct, get |-> get, index |-> index]
    BY DEF StepsOf
  <2> HIDE DEF direct, get, index
  <2> QED
    BY <2>5, <2>6, <2>7
<1> QED
  BY PlanInvariance, <1>1, PTL
=============================================================================

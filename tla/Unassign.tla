------------------------------ MODULE Unassign ------------------------------
(***************************************************************************)
(* What disconnect_colab_runtime promises, whatever its plan: one call at  *)
(* a time, one request to run the code for each call, which the notebook   *)
(* carries out at most once, possibly after the call has returned; an      *)
(* error says that there is no request and never will be, and "completed"  *)
(* that it was carried out.                                                *)
(***************************************************************************)
CONSTANTS Calls, NoCall

VARIABLES
  working,  \* the call in progress
  verdict,  \* what a call returned
  request,  \* the request of a call to run the code
  ran       \* <<call, m>>: the request of the call ran the code of m

unassignVars == <<working, verdict, request, ran>>

UnassignInit == /\ working = NoCall
                /\ verdict = [c \in Calls |-> "none"]
                /\ request = [c \in Calls |-> "none"]
                /\ ran = {}

Starts(c) == /\ working = NoCall /\ verdict[c] = "none"
             /\ working' = c
             /\ UNCHANGED <<verdict, request, ran>>

Refused(c) == /\ working \notin {NoCall, c} /\ verdict[c] = "none"
              /\ verdict' = [verdict EXCEPT ![c] = "error"]
              /\ UNCHANGED <<working, request, ran>>

RequestGoes(c, from, to) == /\ request[c] = from
                            /\ request' = [request EXCEPT ![c] = to]
                            /\ UNCHANGED <<working, verdict>>

Issued(c) == /\ working = c
             /\ RequestGoes(c, "none", "issued")
             /\ UNCHANGED ran

\* The runner runs the code of this call, of another one, or a cell of the user.
Executed(c) == /\ RequestGoes(c, "issued", "executed")
               /\ \E m \in Calls \cup {NoCall} : ran' = ran \cup {<<c, m>>}

Declined(c) == RequestGoes(c, "issued", "declined") /\ UNCHANGED ran

Ends(c, outcome) == /\ working = c
                    /\ working' = NoCall
                    /\ verdict' = [verdict EXCEPT ![c] = outcome]
                    /\ UNCHANGED <<request, ran>>

EndsInError(c)   == Ends(c, "error") /\ request[c] = "none"
EndsCompleted(c) == Ends(c, "completed") /\ request[c] = "executed"
EndsUnknown(c)   == Ends(c, "unknown")

UnassignNext == \E c \in Calls : \/ Starts(c) \/ Refused(c)
                                 \/ Issued(c) \/ Executed(c) \/ Declined(c)
                                 \/ EndsInError(c) \/ EndsCompleted(c) \/ EndsUnknown(c)

UnassignSpec == UnassignInit /\ [][UnassignNext]_unassignVars
=============================================================================

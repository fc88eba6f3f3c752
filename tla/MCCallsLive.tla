---------------------------- MODULE MCCallsLive -----------------------------
(* What must end, side by side: the goroutines of a connection, calls that *)
(* wait for one, and a call of disconnect_colab_runtime, which share no    *)
(* state.  The connection is taken with a browser that sends and one call  *)
(* of Write, and with more calls of Write, a silent browser and no session.*)
EXTENDS Connection, Waiting, Disconnect

VARIABLE part

\* What the part of a connection leaves out.
Within ==
  /\ part = "reads" => \A w \in Writes : w \in ctxDone' \/ writing'[w] # "idle" =>
                         w = CHOOSE v \in Writes : TRUE
  /\ part = "writes" => arrived' = 0 /\ reader' = "away"

vars == <<part, connVars, waitVars, dvars>>

InConn(step) == part \in {"reads", "writes"} /\ step /\ Within /\ UNCHANGED <<part, waitVars, dvars>>
InWait(step) == part = "waits" /\ step /\ UNCHANGED <<part, connVars, dvars>>
InCall(step) == part = "calls" /\ step /\ UNCHANGED <<part, connVars, waitVars>>

MCInit == ConnInit /\ WaitInit /\ DInit /\ part \in {"reads", "writes", "waits", "calls"}

MCNext == InConn(ConnNext) \/ InWait(WaitNext) \/ InCall(DNext)

MCFairness ==
  /\ WF_vars(InConn(LoopStep)) /\ WF_vars(InConn(ReaderStep)) /\ WF_vars(InConn(CloserStep))
  /\ \A w \in Writes : WF_vars(InConn(WriterStep(w))) /\ WF_vars(InConn(WriteStep(w)))
  /\ \A o \in Opens : WF_vars(InWait(open[o] # "idle" /\ OpenStep(o)))
  /\ \A c \in Calls : WF_vars(InCall(CallGoesOn(c)))

MCSpec == MCInit /\ [][MCNext]_vars /\ MCFairness
=============================================================================

----------------------------- MODULE Forwarding -----------------------------
(***************************************************************************)
(* Tool calls that are forwarded to the notebook over the session of       *)
(* Sessions (Manager.forwardToolCall, for the registered tools and for     *)
(* call_colab_tool), with the progress their callers are sent.             *)
(*                                                                         *)
(* A forwarded call reads the session and Live one after the other, and    *)
(* uses the session when it may have been dropped.  Its progress token is  *)
(* replaced by one of the bridge's own, under which Manager.progress has   *)
(* the call; the notebook's notifications are handled in goroutines, which *)
(* look the token up at any later time.  The entry stays for a while after *)
(* the call has returned.  A notification is followed up to its look-up,   *)
(* one per call.                                                           *)
(***************************************************************************)
EXTENDS Naturals, FiniteSets, Sessions

CONSTANTS
  Forwards,  \* calls that are forwarded
  Tokens,    \* progress tokens the clients choose
  NoToken    \* a call without a progress token

ASSUME ForwardsAssumption == IsFiniteSet(Forwards)
ASSUME TokensAssumption == Tokens \subseteq Nat /\ NoToken \notin Nat

VARIABLES
  at,           \* where forwardToolCall is, per call
  using,        \* the session it read
  localToken,   \* the token of the client's request
  remoteToken,  \* the token of the forwarded request
  progressSeq,  \* Manager.progressSeq
  progress,     \* Manager.progress, as its pairs <<token, call>>
  note,         \* what became of the notification for a call
  heard         \* <<f, g>>: progress of call f was sent on as that of g

progressVars == <<remoteToken, progressSeq, progress, note, heard>>
forwardVars  == <<at, using, localToken, progressVars>>
toolVars     == <<sessionVars, forwardVars>>

AtStates == {"start", "read", "ready", "registered", "asked", "answered", "returned", "over"}

\* The types of the variables; a token of the bridge's own has been counted.
ToolsTypeOK ==
  /\ SessionsTypeOK
  /\ at \in [Forwards -> AtStates]
  /\ using \in [Forwards -> Conns \cup {NoConn}]
  /\ localToken \in [Forwards -> Tokens \cup {NoToken}]
  /\ progressSeq \in Nat
  /\ remoteToken \in [Forwards -> 1..progressSeq \cup {NoToken}]
  /\ progress \subseteq Nat \X Forwards
  /\ note \in [Forwards -> {"none", "sent", "told", "dropped"}]
  /\ heard \subseteq Forwards \X Forwards

ToolsInit ==
  /\ SessionsInit
  /\ at = [f \in Forwards |-> "start"]
  /\ using = [f \in Forwards |-> NoConn]
  /\ localToken \in [Forwards -> Tokens \cup {NoToken}]
  /\ remoteToken = [f \in Forwards |-> NoToken]
  /\ progressSeq = 0
  /\ progress = {}
  /\ note = [f \in Forwards |-> "none"]
  /\ heard = {}

-----------------------------------------------------------------------------
(* forwardToolCall                                                         *)

AtGoes(f, from, to) == at[f] = from /\ at' = [at EXCEPT ![f] = to]

\* The session is read under Manager.mu ...
ReadsSession(f) ==
  /\ AtGoes(f, "start", "read")
  /\ using' = [using EXCEPT ![f] = session]
  /\ UNCHANGED <<sessionVars, localToken, progressVars>>

\* ... Live, which is about whoever has the slot, after it.
FindsLive(f) ==
  /\ using[f] # NoConn /\ slot # NoConn
  /\ AtGoes(f, "read", "ready")
  /\ UNCHANGED <<sessionVars, using, localToken, progressVars>>

\* "Colab UI is not connected", before anything is registered.
NotConnected(f) ==
  /\ using[f] = NoConn \/ slot = NoConn
  /\ AtGoes(f, "read", "over")
  /\ UNCHANGED <<sessionVars, using, localToken, progressVars>>

\* Fault: the client's token is passed on to the notebook.
RegistersLocal(f) ==
  /\ AtGoes(f, "ready", "registered")
  /\ IF localToken[f] = NoToken
       THEN UNCHANGED <<remoteToken, progressSeq, progress>>
       ELSE /\ remoteToken' = [remoteToken EXCEPT ![f] = localToken[f]]
            /\ progress' = {e \in progress : e[1] # localToken[f]} \cup {<<localToken[f], f>>}
            /\ UNCHANGED progressSeq
  /\ UNCHANGED <<sessionVars, using, localToken, note, heard>>

\* progressSeq.Add(1) and registerProgress.
Registers(f) ==
  /\ AtGoes(f, "ready", "registered")
  /\ IF localToken[f] = NoToken
       THEN UNCHANGED <<remoteToken, progressSeq, progress>>
       ELSE LET token == progressSeq + 1 IN
              /\ progressSeq' = token
              /\ remoteToken' = [remoteToken EXCEPT ![f] = token]
              /\ progress' = {e \in progress : e[1] # token} \cup {<<token, f>>}
  /\ UNCHANGED <<sessionVars, using, localToken, note, heard>>

\* session.CallTool: the request reaches the notebook, and is answered.
Asks(f) ==
  /\ using[f] \notin gone
  /\ AtGoes(f, "registered", "asked")
  /\ UNCHANGED <<sessionVars, using, localToken, progressVars>>

NotebookAnswers(f) ==
  /\ using[f] \notin gone
  /\ AtGoes(f, "asked", "answered")
  /\ UNCHANGED <<sessionVars, using, localToken, progressVars>>

\* The deferred time.AfterFunc that unregisters the token is for later.
Leaves(f) == at' = [at EXCEPT ![f] = IF localToken[f] = NoToken THEN "over" ELSE "returned"]

\* Fault: the token is unregistered when the call returns.
ForwardForgets(f) ==
  /\ at[f] = "answered"
  /\ Leaves(f)
  /\ progress' = {e \in progress : e[1] # remoteToken[f]}
  /\ UNCHANGED <<sessionVars, using, localToken, remoteToken, progressSeq, note, heard>>

ForwardReturns(f) ==
  /\ at[f] = "answered"
  /\ Leaves(f)
  /\ UNCHANGED <<sessionVars, using, localToken, progressVars>>

\* Fault: on an error the token is not unregistered.
ForwardFailsAtOnce(f) ==
  /\ at[f] \in {"registered", "asked", "answered"}
  /\ at' = [at EXCEPT ![f] = "over"]
  /\ UNCHANGED <<sessionVars, using, localToken, progressVars>>

\* The session is over, the caller gives up, or the bridge stops.
ForwardFails(f) ==
  /\ at[f] \in {"registered", "asked", "answered"}
  /\ Leaves(f)
  /\ UNCHANGED <<sessionVars, using, localToken, progressVars>>

\* unregisterProgress, two seconds after the return.
Unregisters(f) ==
  /\ AtGoes(f, "returned", "over")
  /\ progress' = {e \in progress : e[1] # remoteToken[f]}
  /\ UNCHANGED <<sessionVars, using, localToken, remoteToken, progressSeq, note, heard>>

-----------------------------------------------------------------------------
(* Progress notifications                                                  *)

\* The notebook sends progress while it works on the call.
NotebookNotifies(f) ==
  /\ at[f] \in {"asked", "answered", "returned"} /\ remoteToken[f] # NoToken
  /\ using[f] \notin gone
  /\ note[f] = "none"
  /\ note' = [note EXCEPT ![f] = "sent"]
  /\ UNCHANGED <<sessionVars, at, using, localToken, remoteToken, progressSeq, progress,
                 heard>>

\* remoteProgress: whoever has the token is told, with its own token.
RemoteProgress(f) ==
  /\ note[f] = "sent"
  /\ \/ \E g \in Forwards :
          /\ <<remoteToken[f], g>> \in progress
          /\ note' = [note EXCEPT ![f] = "told"]
          /\ heard' = heard \cup {<<f, g>>}
     \/ /\ \A g \in Forwards : <<remoteToken[f], g>> \notin progress
        /\ note' = [note EXCEPT ![f] = "dropped"]
        /\ UNCHANGED heard
  /\ UNCHANGED <<sessionVars, at, using, localToken, remoteToken, progressSeq, progress>>

-----------------------------------------------------------------------------
(* The session under the calls                                             *)

\* handleDisconnect also forgets the progress of all calls.
DropsWithProgress ==
  /\ Drops
  /\ progress' = {}
  /\ UNCHANGED <<at, using, localToken, remoteToken, progressSeq, note, heard>>

-----------------------------------------------------------------------------
ForwardStep(f) == \/ ReadsSession(f) \/ FindsLive(f) \/ NotConnected(f) \/ Registers(f)
                  \/ Asks(f) \/ ForwardReturns(f) \/ ForwardFails(f) \/ Unregisters(f)

ProgressStep(f) == NotebookAnswers(f) \/ NotebookNotifies(f) \/ RemoteProgress(f)

SessionStep ==
  \/ \E c \in Conns : (Enters(c) \/ Closes(c) \/ GivesUp(c) \/ Installs(c)) /\ UNCHANGED forwardVars
  \/ Frees /\ UNCHANGED forwardVars
  \/ DropsWithProgress

ToolsNext == \/ \E f \in Forwards : ForwardStep(f) \/ ProgressStep(f)
             \/ SessionStep

ToolsSpec == ToolsInit /\ [][ToolsNext]_toolVars

-----------------------------------------------------------------------------
(* Properties                                                              *)

\* TestRemoteProgressNotificationIsForwarded: progress reaches the caller under
\* its own token.  Two clients may use equal tokens and a browser may be slow:
\* progress of one call is never passed on as that of another.
NoCrossTalk == \A f, g \in Forwards : <<f, g>> \in heard => f = g

\* A notification is only dropped when its call has been over for the grace
\* period or the session it runs over is not installed (any more): neither the
\* return of the call nor calls that register and unregister meanwhile lose it.
ProgressReachesCaller ==
  [][\A f \in Forwards : note[f] = "sent" /\ note'[f] = "dropped" =>
       at[f] = "over" \/ session # using[f]]_toolVars

\* Manager.progress does not grow: calls that are over, however they ended and
\* whichever session came and went meanwhile, have left nothing in it.
NothingLeftBehind == \A e \in progress : at[e[2]] # "over"
=============================================================================

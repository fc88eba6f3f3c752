------------------------------ MODULE Manager ------------------------------
(***************************************************************************)
(* The proxy manager (internal/proxy/manager.go) over the WebSocket server *)
(* of ColabWS.  Manager.Run takes one accepted connection at a time, runs  *)
(* the MCP handshake over it, installs the session, copies the browser's   *)
(* tools into the local MCP server, and takes everything down when the     *)
(* session ends.  handleDisconnect is also the server's onDisc callback,   *)
(* so it runs in whichever goroutine closed the connection, and a          *)
(* list_changed notification refreshes the tools in a goroutine of its own.*)
(* Both work on the same session, tool names and local registry as Run.    *)
(*                                                                         *)
(* A section under Manager.mu is one step; the calls into the local MCP    *)
(* server that follow it (RemoveTools, AddTool) are later steps.  The MCP  *)
(* SDK and the browser are external: the handshake succeeds on an open     *)
(* connection or fails, tools/list returns an error or what the browser    *)
(* offered when it answered, Wait returns once the connection is closed.   *)
(***************************************************************************)
EXTENDS ColabWS

CONSTANTS
  Tools,       \* remote tool names that are not reserved
  MaxChanges,  \* bound: how often a browser changes its tool list
  ListErrors   \* a browser may answer tools/list with an error

ASSUME MaxChangesAssumption == MaxChanges \in Nat
ASSUME ListErrorsAssumption == ListErrors \in BOOLEAN

VARIABLES
  session,      \* Manager.remoteSession, as its connection
  names,        \* Manager.remoteToolNames
  connectedCh,  \* Manager.connectedCh: channels are numbered as they are made
  closedChs,    \* the channels of connectedCh that have been closed
  registry,     \* remote tools registered on the local MCP server
  run,          \* where Manager.Run (with connectRemote) is
  removing,     \* names a running handleDisconnect took, per goroutine
  ownClose,     \* Run's goroutine (or the SDK's for it) runs the Close of held
  task,         \* the two goroutines that can be inside RefreshTools
  refreshing,   \* Manager.refreshing
  remote,       \* the tool list each browser offers
  notices,      \* list_changed notifications under way, per connection
  changes       \* how many times a tool list changed

mutexVars  == <<session, names, connectedCh, closedChs>>
runVars    == <<run, removing, ownClose>>
taskVars   == <<task, refreshing>>
remoteVars == <<remote, notices, changes>>
mgrVars    == <<mutexVars, registry, runVars, taskVars, remoteVars>>
vars       == <<wsVars, mgrVars>>

Refreshers == {"run", "notified"}
NoRun == "run"   \* the goroutine of Run, as an index of removing

RunStates == {"wait", "connect", "install", "refresh", "session", "disconnect",
              "remove", "backoff", "stopped"}
TaskStates == {"idle", "start", "listing", "replied", "apply"}
Idle == [pc |-> "idle", of |-> NoConn, list |-> {}, drop |-> {}]

MTypeOK ==
  /\ TypeOK
  /\ session \in Conns \cup {NoConn}
  /\ names \subseteq Tools
  /\ connectedCh \in Nat
  /\ closedChs \subseteq 0..connectedCh
  /\ registry \subseteq Tools
  /\ run \in RunStates
  /\ removing \in [Conns \cup {NoRun} -> SUBSET Tools]
  /\ ownClose \in BOOLEAN
  /\ task \in [Refreshers -> [pc : TaskStates, of : Conns \cup {NoConn},
                              list : SUBSET Tools, drop : SUBSET Tools]]
  /\ refreshing \in BOOLEAN
  /\ remote \in [Conns -> SUBSET Tools]
  /\ notices \in [Conns -> Nat]
  /\ changes \in 0..MaxChanges

MInit ==
  /\ Init
  /\ session = NoConn
  /\ names = {}
  /\ connectedCh = 0
  /\ closedChs = {}
  /\ registry = {}
  /\ run = "wait"
  /\ removing = [x \in Conns \cup {NoRun} |-> {}]
  /\ ownClose = FALSE
  /\ task = [r \in Refreshers |-> Idle]
  /\ refreshing = FALSE
  /\ remote \in [Conns -> SUBSET Tools]
  /\ notices = [c \in Conns |-> 0]
  /\ changes = 0

-----------------------------------------------------------------------------
(* handleDisconnect: the part under Manager.mu; x is the goroutine         *)

\* Fault: connectedCh is replaced even when nobody closed it.
HandleDisconnectNewCh(x) ==
  /\ session' = NoConn
  /\ removing' = [removing EXCEPT ![x] = names]
  /\ names' = {}
  /\ connectedCh' = connectedCh + 1
  /\ UNCHANGED closedChs

HandleDisconnect(x) ==
  /\ session' = NoConn
  /\ removing' = [removing EXCEPT ![x] = names]
  /\ names' = {}
  /\ connectedCh' = IF connectedCh \in closedChs THEN connectedCh + 1 ELSE connectedCh
  /\ UNCHANGED closedChs

\* ... and the RemoveTools call after the unlock.
RemoveTaken(x) ==
  /\ registry' = registry \ removing[x]
  /\ removing' = [removing EXCEPT ![x] = {}]

-----------------------------------------------------------------------------
(* The callback of the closing goroutine                                   *)

\* Fault: the callback closes the session and waits for it to end.
CallbackWaitsForSession(c) ==
  /\ CallOnDisc(c)
  /\ ~(held = c /\ run = "session")
  /\ HandleDisconnect(c)
  /\ UNCHANGED <<registry, run, ownClose, taskVars, remoteVars>>

CallbackDisconnects(c) ==
  /\ CallOnDisc(c)
  /\ HandleDisconnect(c)
  /\ UNCHANGED <<registry, run, ownClose, taskVars, remoteVars>>

CallbackReturns(c) ==
  /\ ReturnOnDisc(c)
  /\ RemoveTaken(c)
  /\ UNCHANGED <<mutexVars, run, ownClose, taskVars, remoteVars>>

-----------------------------------------------------------------------------
(* Manager.Run and connectRemote                                           *)

RunAt(from, to) == run = from /\ run' = to

\* WaitConnection is running, or returns a context error.
RunWaits ==
  /\ RunAt("wait", "wait")
  /\ onDisc
  /\ (~cancelled /\ WaitConnection) \/ TakeAccepted \/ SkipStale
  /\ UNCHANGED mgrVars

RunStops ==
  /\ RunAt("wait", "stopped")
  /\ \/ WaitCancelled
     \/ cancelled /\ consumer = "idle" /\ onDisc /\ UNCHANGED wsVars
  /\ UNCHANGED <<mutexVars, registry, removing, ownClose, taskVars, remoteVars>>

RunConnects ==
  /\ ReturnConnection
  /\ RunAt("wait", "connect")
  /\ ownClose' = FALSE
  /\ UNCHANGED <<mutexVars, registry, removing, taskVars, remoteVars>>

\* client.Connect has initialized the session.
HandshakeSucceeds ==
  /\ RunAt("connect", "install")
  /\ held \notin closed
  /\ UNCHANGED <<wsVars, mutexVars, registry, removing, ownClose, taskVars, remoteVars>>

\* client.Connect fails: the connection is closed here, if it is not already.
HandshakeFails ==
  /\ RunAt("connect", "backoff")
  /\ StartClose(held)
  /\ ownClose' = (ownClose \/ closer[held] = "open")
  /\ UNCHANGED <<handler, slotVars, accepted, onDisc, shutdownVars, consumerVars>>
  /\ UNCHANGED <<mutexVars, registry, removing, taskVars, remoteVars>>

\* The handshake timer; what timer.Stop reports is not looked at, so it may
\* also fire after Connect returned.
HandshakeTimeout ==
  /\ run \in {"connect", "install"}
  /\ SessionCloses
  /\ UNCHANGED mgrVars

\* The SDK closes the connection, on an error of its own or on session.Close.
SDKCloses ==
  /\ run \in {"connect", "install", "refresh", "session"}
  /\ SessionCloses
  /\ ownClose' = TRUE
  /\ UNCHANGED <<mutexVars, registry, run, removing, taskVars, remoteVars>>

\* Close of the held connection has returned to Run's goroutine.
HeldIsClosed == /\ held \in closed
                /\ closer[held] \notin {"open", "signalled"}
                /\ ownClose => closer[held] = "done"

BackoffEnds ==
  /\ HeldIsClosed
  /\ SessionEnds
  /\ RunAt("backoff", IF cancelled THEN "stopped" ELSE "wait")
  /\ UNCHANGED <<mutexVars, registry, removing, ownClose, taskVars, remoteVars>>

SetRemoteSession ==
  /\ RunAt("install", "refresh")
  /\ session' = held
  /\ closedChs' = closedChs \cup {connectedCh}
  /\ task' = [task EXCEPT !["run"].pc = "start"]
  /\ UNCHANGED <<wsVars, names, connectedCh, registry, removing, ownClose, refreshing,
                 remoteVars>>

\* RefreshTools has returned, with or without an error.
InitialRefreshDone ==
  /\ RunAt("refresh", "session")
  /\ task["run"].pc = "idle"
  /\ UNCHANGED <<wsVars, mutexVars, registry, removing, ownClose, taskVars, remoteVars>>

SessionWaitReturns ==
  /\ RunAt("session", "disconnect")
  /\ HeldIsClosed
  /\ UNCHANGED <<wsVars, mutexVars, registry, removing, ownClose, taskVars, remoteVars>>

\* Fault: Run leaves the cleanup to the callback.
RunSkipsDisconnect ==
  /\ RunAt("disconnect", "remove")
  /\ UNCHANGED <<wsVars, mutexVars, registry, removing, ownClose, taskVars, remoteVars>>

RunDisconnects ==
  /\ RunAt("disconnect", "remove")
  /\ HandleDisconnect(NoRun)
  /\ UNCHANGED <<wsVars, registry, ownClose, taskVars, remoteVars>>

RunReleases ==
  /\ RunAt("remove", IF cancelled THEN "stopped" ELSE "wait")
  /\ RemoveTaken(NoRun)
  /\ SessionEnds
  /\ UNCHANGED <<mutexVars, ownClose, taskVars, remoteVars>>

-----------------------------------------------------------------------------
(* RefreshTools, in goroutine r                                            *)

TaskEnds(r) == /\ task' = [task EXCEPT ![r] = Idle]
               /\ refreshing' = IF r = "notified" THEN FALSE ELSE refreshing

\* The session is read under the mutex and used after it.
RefreshStarts(r) ==
  /\ task[r].pc = "start"
  /\ IF session = NoConn
       THEN TaskEnds(r)
       ELSE /\ task' = [task EXCEPT ![r].pc = "listing", ![r].of = session]
            /\ UNCHANGED refreshing
  /\ UNCHANGED <<wsVars, mutexVars, registry, runVars, remoteVars>>

\* The browser answers tools/list.
BrowserLists(r) ==
  /\ task[r].pc = "listing"
  /\ task[r].of \notin closed
  /\ task' = [task EXCEPT ![r].pc = "replied", ![r].list = remote[task[r].of]]
  /\ UNCHANGED <<wsVars, mutexVars, registry, runVars, refreshing, remoteVars>>

\* Fault: the listing is not bound to the application context.
ListingIgnoresCancel(r) ==
  /\ task[r].pc \in {"listing", "replied"} /\ task[r].of \in closed
  /\ TaskEnds(r)
  /\ UNCHANGED <<wsVars, mutexVars, registry, runVars, remoteVars>>

\* The connection is gone or the bridge stops before the answer is read.
ListingFails(r) ==
  /\ \/ task[r].pc = "start" /\ r = "notified" /\ cancelled
     \/ task[r].pc \in {"listing", "replied"} /\ (task[r].of \in closed \/ cancelled)
  /\ TaskEnds(r)
  /\ UNCHANGED <<wsVars, mutexVars, registry, runVars, remoteVars>>

\* The browser answers with an error: the tools stay as they are.
ListingRefused(r) ==
  /\ ListErrors
  /\ task[r].pc = "listing" /\ task[r].of \notin closed
  /\ TaskEnds(r)
  /\ UNCHANGED <<wsVars, mutexVars, registry, runVars, remoteVars>>

\* The names are replaced under the mutex ...
StoreNames(r) ==
  /\ task[r].pc = "replied"
  /\ names' = task[r].list
  /\ task' = [task EXCEPT ![r].pc = "apply", ![r].drop = names \ task[r].list]
  /\ UNCHANGED <<wsVars, session, connectedCh, closedChs, registry, runVars, refreshing,
                 remoteVars>>

\* ... the local tools after it: first RemoveTools, then AddTool one by one.
ApplyTools(r) ==
  /\ task[r].pc = "apply"
  /\ \/ /\ task[r].drop # {}
        /\ registry' = registry \ task[r].drop
        /\ task' = [task EXCEPT ![r].drop = {}]
        /\ UNCHANGED refreshing
     \/ \E t \in task[r].list :
          /\ task[r].drop = {}
          /\ registry' = registry \cup {t}
          /\ task' = [task EXCEPT ![r].list = @ \ {t}]
          /\ UNCHANGED refreshing
     \/ /\ task[r].drop = {} /\ task[r].list = {}
        /\ TaskEnds(r)
        /\ UNCHANGED registry
  /\ UNCHANGED <<wsVars, mutexVars, runVars, remoteVars>>

-----------------------------------------------------------------------------
(* The browser's side, and remoteToolListChanged                           *)

ToolsChange(c) ==
  /\ changes < MaxChanges
  /\ held = c /\ c \notin closed /\ run \in {"install", "refresh", "session"}
  /\ \E S \in SUBSET Tools \ {remote[c]} : remote' = [remote EXCEPT ![c] = S]
  /\ notices' = [notices EXCEPT ![c] = @ + 1]
  /\ changes' = changes + 1
  /\ UNCHANGED <<wsVars, mutexVars, registry, runVars, taskVars>>

\* The notification is dropped while a refresh it started is still running.
ToolListChanged(c) ==
  /\ notices[c] > 0
  /\ held = c /\ run \in {"connect", "install", "refresh", "session"}
  /\ notices' = [notices EXCEPT ![c] = @ - 1]
  /\ IF refreshing
       THEN UNCHANGED taskVars
       ELSE /\ refreshing' = TRUE
            /\ task' = [task EXCEPT !["notified"].pc = "start"]
  /\ UNCHANGED <<wsVars, mutexVars, registry, runVars, remote, changes>>

-----------------------------------------------------------------------------
\* Steps of the server the manager has no part in.  App.Run calls Server.Close
\* when Run has returned.
ServerStep ==
  /\ \/ \E c \in Conns : \/ Upgrade(c) \/ HandlerStep(c) \/ HangUp(c)
                         \/ CloseSocket(c) \/ Clear(c) \/ AnnounceDown(c)
     \/ OnDisconnect \/ Cancel \/ StopListening
     \/ run = "stopped" /\ (ReadActive \/ CloseStep)
  /\ UNCHANGED mgrVars

RunStep == \/ RunWaits \/ RunStops \/ RunConnects \/ HandshakeSucceeds
           \/ HandshakeFails \/ BackoffEnds \/ SetRemoteSession \/ InitialRefreshDone
           \/ SessionWaitReturns \/ RunDisconnects \/ RunReleases

RefreshStep(r) == \/ RefreshStarts(r) \/ BrowserLists(r)
                  \/ ListingFails(r) \/ ListingRefused(r) \/ StoreNames(r) \/ ApplyTools(r)

MNext ==
  \/ ServerStep
  \/ \E c \in Conns : \/ CallbackDisconnects(c) \/ CallbackReturns(c)
                      \/ ToolsChange(c) \/ ToolListChanged(c)
  \/ RunStep \/ HandshakeTimeout \/ SDKCloses
  \/ \E r \in Refreshers : RefreshStep(r)

MSpec == MInit /\ [][MNext]_vars

\* Every goroutine that can run is scheduled, and the handshake timer and the
\* SDK end a handshake.  On shutdown Run closes the session.  Browsers owe
\* nothing: they may never answer tools/list.
MFairness ==
  /\ \A c \in Conns :
       /\ WF_vars(HandlerStep(c) /\ UNCHANGED mgrVars)
       /\ WF_vars((CloseSocket(c) \/ Clear(c) \/ AnnounceDown(c)) /\ UNCHANGED mgrVars)
       /\ WF_vars(CallbackDisconnects(c) \/ CallbackReturns(c))
  /\ WF_vars(RunStep)
  /\ WF_vars(cancelled /\ run = "session" /\ SDKCloses)
  /\ \A r \in Refreshers :
       WF_vars(RefreshStarts(r) \/ ListingFails(r) \/ StoreNames(r) \/ ApplyTools(r))
  /\ WF_vars(OnDisconnect /\ UNCHANGED mgrVars)
  /\ WF_vars(run = "stopped" /\ (ReadActive \/ CloseStep) /\ UNCHANGED mgrVars)

MFairSpec == MSpec /\ MFairness

-----------------------------------------------------------------------------
(* Properties                                                              *)

\* A session outlives neither its connection's turn in Run nor, when Run goes
\* back to WaitConnection, Run's own cleanup, in whichever order the callback
\* and Run call handleDisconnect and setRemoteSession.
SessionIsHeld == session # NoConn => session = held

\* No wakeup is lost and none is early.  A call of WaitConnected changes
\* nothing in the manager but keeps the connectedCh it read, whichever that
\* was: while a session is installed all of them are closed, so no call sleeps
\* through it, and once it is gone new calls get a channel that is open.
NoLostWakeup ==
  closedChs = IF session # NoConn THEN 0..connectedCh ELSE 0..(connectedCh - 1)

\* README: "After the Colab browser session connects ..."; TestManagerReconnects-
\* AfterBrowserCloses: a second browser is connected once its session is there.
\* While Run serves a connection that is open, the manager has its session.
ServedIsConnected == run = "session" /\ held \notin closed => session = held

\* No goroutine is inside, or about to take, a step that touches the session
\* or the tools.
Settled == /\ \A r \in Refreshers : task[r].pc = "idle"
           /\ \A c \in Conns : closer[c] \notin {"clear", "onDisc", "inOnDisc"}
           /\ run = "wait" \/ (run = "session" /\ held \notin closed)
           /\ ~cancelled

\* README: "When the browser session disconnects, remote tools are removed".
NoToolsWhenDisconnected == Settled /\ run = "wait" => registry = {}

\* With every notification delivered, the local registry shows the tools of
\* the connected browser.
RegistryFresh ==
  Settled /\ session # NoConn /\ notices[session] = 0
    => registry = remote[session]

\* The session of a closed connection is dropped, by the callback or by Run.
DeadSessionDropped == \A c \in Conns : session = c /\ c \in closed ~> session # c

\* A browser in the slot is served (Run installs its session and serves it)
\* unless it leaves or the bridge stops: Run always comes back from the one
\* before, although the callback that cleans up runs in the goroutine that
\* closes and Run waits for that Close.
NextBrowserServed ==
  \A c \in Conns : active = c ~> \/ held = c /\ run \in {"refresh", "session"}
                                 \/ c \in closed \/ cancelled

\* Manager.Run returns after the application context is cancelled (App.Run
\* waits for it).
RunReturns == cancelled ~> run = "stopped"

\* The connections whose turn in Run is over, or has got as far as a session.
Had == {c \in Conns :
          IF held = c THEN run \notin {"wait", "connect", "install"}
          ELSE handler[c] = "returned" /\ \A i \in 1..Len(accepted) : accepted[i] # c}

Remote == INSTANCE Sessions WITH slot <- active, gone <- closed, had <- Had,
                                 waitOpen <- connectedCh \notin closedChs

\* To the tools, the manager and the server together are what Sessions says.
ImplementsSessions == Remote!SessionsSpec
=============================================================================

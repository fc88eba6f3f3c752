--------------------------- MODULE Manager_proofs ---------------------------
(***************************************************************************)
(* Machine-checked proofs about Manager, for any set of connections and    *)
(* tools: every behaviour of the manager is a behaviour of the server it   *)
(* sits on, so what ColabWS_proofs shows of the server holds here; the     *)
(* installed session is always the one Run is serving; and connectedCh     *)
(* wakes exactly the WaitConnected calls it should.                        *)
(***************************************************************************)
EXTENDS Manager, ColabWS_proofs

-----------------------------------------------------------------------------
(* The inductive invariant                                                 *)
(*                                                                         *)
(* SessionIsHeld is not inductive: Run gives up the held connection after  *)
(* a failed handshake and after a session, and only where Run is then says *)
(* that no session is left behind.                                         *)

\* Run is past WaitConnection exactly while it serves a connection.
RunServing ==
  consumer = "serving" <=> run \in {"connect", "install", "refresh", "session",
                                    "disconnect", "remove", "backoff"}

\* A session is installed only between setRemoteSession and Run's own
\* handleDisconnect, and it is the one of the connection Run holds.
SessionServed ==
  session # NoConn => session = held /\ run \in {"refresh", "session", "disconnect"}

\* A refresh that waits for an answer, or applies one, asked some session.
ListingOf == \A r \in Refreshers : task[r].pc = "listing" => task[r].of # NoConn

MInv == /\ IInv
        /\ MTypeOK
        /\ ListingOf
        /\ RunServing
        /\ SessionServed
        /\ NoLostWakeup

\* The initial state of the bridge satisfies the inductive invariant.
LEMMA MInvInit == MInit => MInv
<1> SUFFICES ASSUME MInit
             PROVE  MInv
  OBVIOUS
<1>1. IInv
  BY IInvInit DEF MInit
<1>2. RunServing /\ SessionServed /\ ListingOf
  BY DEF MInit, Init, RunServing, SessionServed, ListingOf, Idle
<1>3. NoLostWakeup
  <2>1. 0..(0 - 1) = {}
    OBVIOUS
  <2> QED
    BY <2>1 DEF MInit, NoLostWakeup
<1>4. MTypeOK
  <2>1. 0 \in 0..MaxChanges
    BY MaxChangesAssumption
  <2>2. Idle \in [pc : TaskStates, of : Conns \cup {NoConn}, list : SUBSET Tools,
                  drop : SUBSET Tools]
    BY DEF Idle, TaskStates
  <2> QED
    BY <1>1, <2>1, <2>2 DEF IInv, MInit, MTypeOK, RunStates
<1> QED
  BY <1>1, <1>2, <1>3, <1>4 DEF MInv

-----------------------------------------------------------------------------
(* The manager does nothing to the server that the server does not allow   *)

\* Every step of the bridge is a step of the server or leaves it unchanged.
LEMMA ServerSimulated == IInv /\ RunServing /\ [MNext]_vars => [Next]_wsVars
<1> SUFFICES ASSUME IInv, RunServing, [MNext]_vars
             PROVE  [Next]_wsVars
  OBVIOUS
<1>1. CASE UNCHANGED vars
  BY <1>1 DEF vars
<1>2. CASE ServerStep
  BY <1>2 DEF ServerStep, Next, CloserStep
<1>3. ASSUME NEW c \in Conns,
             CallbackDisconnects(c) \/ CallbackReturns(c) \/ ToolsChange(c) \/ ToolListChanged(c)
      PROVE  [Next]_wsVars
  BY <1>3 DEF CallbackDisconnects, CallbackReturns, ToolsChange, ToolListChanged,
              Next, CloserStep
<1>4. CASE RunWaits \/ RunStops \/ RunConnects \/ BackoffEnds \/ RunReleases
  BY <1>4 DEF RunWaits, RunStops, RunConnects, BackoffEnds, RunReleases, Next, ConsumerStep
<1>5. CASE HandshakeSucceeds \/ SetRemoteSession \/ InitialRefreshDone
           \/ SessionWaitReturns \/ RunDisconnects
  BY <1>5 DEF HandshakeSucceeds, SetRemoteSession, InitialRefreshDone,
              SessionWaitReturns, RunDisconnects
<1>6. CASE HandshakeTimeout \/ SDKCloses
  BY <1>6 DEF HandshakeTimeout, SDKCloses, Next
<1>7. CASE HandshakeFails
  <2>1. consumer = "serving" /\ held \in Conns
    BY <1>7 DEF HandshakeFails, RunAt, RunServing, IInv, HeldWhileServing, TypeOK
  <2>2. CASE closer[held] = "open"
    BY <1>7, <2>1, <2>2 DEF HandshakeFails, SessionCloses, Next
  <2>3. CASE closer[held] # "open"
    <3>1. held \in closed
      BY <2>1, <2>3 DEF IInv, CloseBegun
    <3>2. closer' = closer /\ closed' = closed
      BY <1>7, <2>1, <2>3, <3>1 DEF HandshakeFails, StartClose, IInv, TypeOK
    <3> QED
      BY <1>7, <3>2 DEF HandshakeFails, wsVars, connVars
  <2> QED
    BY <2>2, <2>3
<1>8. ASSUME NEW r \in Refreshers, RefreshStep(r)
      PROVE  [Next]_wsVars
  BY <1>8 DEF RefreshStep, RefreshStarts, BrowserLists, ListingFails, ListingRefused, StoreNames,
              ApplyTools
<1> QED
  BY <1>1, <1>2, <1>3, <1>4, <1>5, <1>6, <1>7, <1>8 DEF MNext, RunStep

-----------------------------------------------------------------------------
(* What a step does to the manager's own state                             *)

\* handleDisconnect keeps the types of what it touches, drops the session and
\* leaves a connectedCh that is open, whatever it finds.
LEMMA DisconnectEffect ==
  ASSUME MTypeOK, NoLostWakeup, NEW x \in Conns \cup {NoRun}, HandleDisconnect(x)
  PROVE  /\ session' = NoConn
         /\ names' \subseteq Tools
         /\ removing' \in [Conns \cup {NoRun} -> SUBSET Tools]
         /\ connectedCh' \in Nat
         /\ closedChs' = 0..(connectedCh' - 1)
<1>1. connectedCh \in 0..connectedCh /\ connectedCh \notin 0..(connectedCh - 1)
  BY DEF MTypeOK
<1>2. CASE session = NoConn
  BY <1>1, <1>2 DEF NoLostWakeup, HandleDisconnect, MTypeOK
<1>3. CASE session # NoConn
  <2>1. connectedCh' = connectedCh + 1 /\ closedChs' = 0..connectedCh
    BY <1>1, <1>3 DEF NoLostWakeup, HandleDisconnect
  <2>2. connectedCh' - 1 = connectedCh
    BY <2>1 DEF MTypeOK
  <2> QED
    BY <2>1, <2>2 DEF HandleDisconnect, MTypeOK
<1> QED
  BY <1>2, <1>3

Task == [pc : TaskStates, of : Conns \cup {NoConn}, list : SUBSET Tools,
         drop : SUBSET Tools]

\* A task is a record whose fields can be replaced one by one.
LEMMA TaskFields ==
  ASSUME NEW t \in Task
  PROVE  /\ \A p \in TaskStates : [t EXCEPT !.pc = p] \in Task
         /\ \A p \in TaskStates, c \in Conns \cup {NoConn} :
              [t EXCEPT !.pc = p, !.of = c] \in Task
         /\ \A p \in TaskStates, S \in SUBSET Tools :
              /\ [t EXCEPT !.pc = p, !.list = S] \in Task
              /\ [t EXCEPT !.pc = p, !.drop = S] \in Task
         /\ \A S \in SUBSET Tools : /\ [t EXCEPT !.list = S] \in Task
                                    /\ [t EXCEPT !.drop = S] \in Task
BY DEF Task

\* The steps of RefreshTools keep the two tasks, the names and the registry
\* well typed and touch nothing else.
LEMMA RefreshType ==
  ASSUME MTypeOK, ListingOf, NEW r \in Refreshers, RefreshStep(r)
  PROVE  /\ task' \in [Refreshers -> Task]
         /\ refreshing' \in BOOLEAN
         /\ names' \subseteq Tools
         /\ registry' \subseteq Tools
         /\ UNCHANGED <<wsVars, session, connectedCh, closedChs, runVars, remoteVars>>
<1>1. /\ task \in [Refreshers -> Task]
      /\ Idle \in Task
      /\ task[r] \in Task
  BY DEF MTypeOK, Idle, Task, TaskStates
<1>2. \A t \in Task : [task EXCEPT ![r] = t] \in [Refreshers -> Task]
  BY <1>1
<1>3. CASE RefreshStarts(r)
  <2>1. CASE session = NoConn
    BY <1>1, <1>2, <1>3, <2>1 DEF RefreshStarts, TaskEnds, MTypeOK, mutexVars
  <2>2. CASE session # NoConn
    <3>1. [task[r] EXCEPT !.pc = "listing", !.of = session] \in Task
      BY <1>1, TaskFields DEF MTypeOK, TaskStates
    <3>2. task' = [task EXCEPT ![r] = [task[r] EXCEPT !.pc = "listing", !.of = session]]
      BY <1>1, <1>3, <2>2 DEF RefreshStarts
    <3> QED
      BY <1>2, <1>3, <2>2, <3>1, <3>2 DEF RefreshStarts, MTypeOK, mutexVars
  <2> QED
    BY <2>1, <2>2
<1>4. CASE BrowserLists(r)
  <2>1. remote[task[r].of] \in SUBSET Tools
    BY <1>1, <1>4 DEF BrowserLists, MTypeOK, ListingOf
  <2>2. [task[r] EXCEPT !.pc = "replied", !.list = remote[task[r].of]] \in Task
    BY <1>1, <2>1, TaskFields DEF TaskStates
  <2>3. task' = [task EXCEPT ![r] =
                   [task[r] EXCEPT !.pc = "replied", !.list = remote[task[r].of]]]
    BY <1>1, <1>4 DEF BrowserLists
  <2> QED
    BY <1>2, <1>4, <2>2, <2>3 DEF BrowserLists, MTypeOK, mutexVars
<1>5. CASE ListingFails(r) \/ ListingRefused(r)
  BY <1>1, <1>2, <1>5 DEF ListingFails, ListingRefused, TaskEnds, MTypeOK, mutexVars
<1>6. CASE StoreNames(r)
  <2>1. names \ task[r].list \in SUBSET Tools /\ task[r].list \in SUBSET Tools
    BY <1>1 DEF MTypeOK, Task
  <2>2. [task[r] EXCEPT !.pc = "apply", !.drop = names \ task[r].list] \in Task
    BY <1>1, <2>1, TaskFields DEF TaskStates
  <2>3. task' = [task EXCEPT ![r] =
                   [task[r] EXCEPT !.pc = "apply", !.drop = names \ task[r].list]]
    BY <1>1, <1>6 DEF StoreNames
  <2> QED
    BY <1>2, <1>6, <2>1, <2>2, <2>3 DEF StoreNames, MTypeOK, mutexVars
<1>7. CASE ApplyTools(r)
  <2>1. task[r].drop \in SUBSET Tools /\ task[r].list \in SUBSET Tools
    BY <1>1 DEF Task
  <2>2. \A S \in SUBSET Tools : /\ [task EXCEPT ![r].list = S] \in [Refreshers -> Task]
                                /\ [task EXCEPT ![r].drop = S] \in [Refreshers -> Task]
    BY <1>1, <1>2, TaskFields
  <2>3. /\ registry' \subseteq Tools /\ refreshing' \in BOOLEAN
        /\ UNCHANGED <<wsVars, mutexVars, runVars, remoteVars>>
    BY <1>7, <2>1 DEF ApplyTools, TaskEnds, MTypeOK
  <2>4. task' \in [Refreshers -> Task]
    <3>1. CASE task' = [task EXCEPT ![r].drop = {}]
      BY <2>2, <3>1
    <3>2. ASSUME NEW t \in task[r].list, task' = [task EXCEPT ![r].list = @ \ {t}]
          PROVE  task' \in [Refreshers -> Task]
      <4>1. task' = [task EXCEPT ![r].list = task[r].list \ {t}]
        BY <3>2
      <4> QED
        BY <2>1, <2>2, <4>1
    <3>3. CASE TaskEnds(r)
      BY <1>1, <1>2, <3>3 DEF TaskEnds
    <3> QED
      BY <1>7, <3>1, <3>2, <3>3 DEF ApplyTools
  <2> QED
    BY <2>3, <2>4 DEF MTypeOK, mutexVars
<1> QED
  BY <1>3, <1>4, <1>5, <1>6, <1>7 DEF RefreshStep

\* Where Run is changes only together with the consumer's state: Run serves
\* a connection from the step that returns it to the step that releases it.
LEMMA RunServingStep ==
  ASSUME IInv, MTypeOK, RunServing, [MNext]_vars
  PROVE  RunServing'
<1>1. CASE UNCHANGED vars
  BY <1>1 DEF RunServing, vars, wsVars, consumerVars, mgrVars, runVars
<1>2. CASE ServerStep
  <2>1. UNCHANGED <<consumer, run>>
    BY <1>2 DEF ServerStep, HandlerStep, Upgrade, RejectBusy, Admit, AnnounceUp, Offer,
                OfferFull, HangUp, CloseSocket, Clear, AnnounceDown, OnDisconnect,
                Cancel, StopListening, ReadActive, CloseStep, CloseActive, CloseHTTP,
                consumerVars, mgrVars, runVars
  <2> QED
    BY <2>1 DEF RunServing
<1>3. ASSUME NEW c \in Conns,
             CallbackDisconnects(c) \/ CallbackReturns(c) \/ ToolsChange(c) \/ ToolListChanged(c)
      PROVE  RunServing'
  <2>1. UNCHANGED <<consumer, run>>
    BY <1>3 DEF CallbackDisconnects, CallbackReturns, ToolsChange, ToolListChanged,
                CallOnDisc, ReturnOnDisc, consumerVars, runVars, wsVars
  <2> QED
    BY <2>1 DEF RunServing
<1>4. CASE RunWaits
  BY <1>4 DEF RunWaits, RunAt, WaitConnection, TakeAccepted, SkipStale, ConsumerAt, RunServing
<1>5. CASE RunStops
  BY <1>5 DEF RunStops, RunAt, WaitCancelled, ConsumerAt, RunServing, wsVars, consumerVars
<1>6. CASE RunConnects
  BY <1>6 DEF RunConnects, RunAt, ReturnConnection, ConsumerAt, RunServing
<1>7. CASE HandshakeSucceeds \/ SetRemoteSession \/ InitialRefreshDone
           \/ SessionWaitReturns \/ RunDisconnects
  BY <1>7 DEF HandshakeSucceeds, SetRemoteSession, InitialRefreshDone,
              SessionWaitReturns, RunDisconnects, RunAt, RunServing, wsVars, consumerVars
<1>8. CASE HandshakeFails
  BY <1>8 DEF HandshakeFails, RunAt, RunServing, consumerVars
<1>9. CASE HandshakeTimeout \/ SDKCloses
  BY <1>9 DEF HandshakeTimeout, SDKCloses, SessionCloses, RunServing, consumerVars,
              mgrVars, runVars
<1>10. CASE BackoffEnds \/ RunReleases
  BY <1>10 DEF BackoffEnds, RunReleases, SessionEnds, ConsumerAt, RunAt, RunServing
<1>11. ASSUME NEW r \in Refreshers, RefreshStep(r)
       PROVE  RunServing'
  <2>1. UNCHANGED <<consumer, run>>
    BY <1>11 DEF RefreshStep, RefreshStarts, BrowserLists, ListingFails, ListingRefused, StoreNames,
                 ApplyTools, wsVars, consumerVars, runVars
  <2> QED
    BY <2>1 DEF RunServing
<1> QED
  BY <1>1, <1>2, <1>3, <1>4, <1>5, <1>6, <1>7, <1>8, <1>9, <1>10, <1>11 DEF MNext, RunStep

\* The session, its channel and the connection Run holds after a step: only
\* handleDisconnect, setRemoteSession and the two places where Run lets go of
\* the connection change them.
LEMMA SessionStep ==
  ASSUME IInv, MTypeOK, RunServing, SessionServed, NoLostWakeup, [MNext]_vars
  PROVE  SessionServed' /\ NoLostWakeup'
<1> DEFINE Same == UNCHANGED <<session, connectedCh, closedChs, held, run>>
<1>1. Same => SessionServed' /\ NoLostWakeup'
  BY DEF SessionServed, NoLostWakeup
<1>2. CASE UNCHANGED vars
  BY <1>1, <1>2 DEF vars, wsVars, consumerVars, mgrVars, mutexVars, runVars
<1>3. CASE ServerStep
  <2>1. Same
    BY <1>3 DEF ServerStep, HandlerStep, Upgrade, RejectBusy, Admit, AnnounceUp, Offer,
                OfferFull, HangUp, CloseSocket, Clear, AnnounceDown, OnDisconnect,
                Cancel, StopListening, ReadActive, CloseStep, CloseActive, CloseHTTP,
                consumerVars, mgrVars, mutexVars, runVars
  <2> QED
    BY <1>1, <2>1
<1>4. ASSUME NEW c \in Conns, CallbackDisconnects(c)
      PROVE  SessionServed' /\ NoLostWakeup'
  <2>1. session' = NoConn /\ closedChs' = 0..(connectedCh' - 1)
    BY <1>4, DisconnectEffect DEF CallbackDisconnects
  <2> QED
    BY <2>1 DEF SessionServed, NoLostWakeup
<1>5. ASSUME NEW c \in Conns, CallbackReturns(c) \/ ToolsChange(c) \/ ToolListChanged(c)
      PROVE  SessionServed' /\ NoLostWakeup'
  <2>1. Same
    BY <1>5 DEF CallbackReturns, ToolsChange, ToolListChanged, ReturnOnDisc,
                consumerVars, runVars, wsVars, mutexVars
  <2> QED
    BY <1>1, <2>1
<1>6. CASE RunWaits \/ RunStops \/ RunConnects
  <2>1. session = NoConn
    BY <1>6 DEF RunWaits, RunStops, RunConnects, RunAt, SessionServed
  <2>2. UNCHANGED <<session, connectedCh, closedChs>>
    BY <1>6 DEF RunWaits, RunStops, RunConnects, mgrVars, mutexVars
  <2> QED
    BY <2>1, <2>2 DEF SessionServed, NoLostWakeup
<1>7. CASE HandshakeSucceeds \/ HandshakeFails
  <2>1. session = NoConn
    BY <1>7 DEF HandshakeSucceeds, HandshakeFails, RunAt, SessionServed
  <2>2. UNCHANGED <<session, connectedCh, closedChs>>
    BY <1>7 DEF HandshakeSucceeds, HandshakeFails, mutexVars
  <2> QED
    BY <2>1, <2>2 DEF SessionServed, NoLostWakeup
<1>8. CASE HandshakeTimeout \/ SDKCloses
  <2>1. Same
    BY <1>8 DEF HandshakeTimeout, SDKCloses, SessionCloses, consumerVars, mgrVars,
                mutexVars, runVars
  <2> QED
    BY <1>1, <2>1
<1>9. CASE SetRemoteSession
  <2>1. /\ run = "install" /\ run' = "refresh" /\ held' = held
        /\ session' = held /\ connectedCh' = connectedCh
        /\ closedChs' = closedChs \cup {connectedCh}
    BY <1>9 DEF SetRemoteSession, RunAt, wsVars, consumerVars
  <2>2. held # NoConn /\ session = NoConn
    BY <2>1 DEF RunServing, SessionServed, IInv, HeldWhileServing
  <2>3. closedChs' = 0..connectedCh
    BY <2>1, <2>2 DEF NoLostWakeup, MTypeOK
  <2> QED
    BY <2>1, <2>2, <2>3 DEF SessionServed, NoLostWakeup
<1>10. CASE InitialRefreshDone \/ SessionWaitReturns
  <2>1. /\ run' \in {"session", "disconnect"}
        /\ UNCHANGED <<session, connectedCh, closedChs, held>>
    BY <1>10 DEF InitialRefreshDone, SessionWaitReturns, RunAt, mutexVars, wsVars, consumerVars
  <2> QED
    BY <2>1 DEF SessionServed, NoLostWakeup
<1>11. CASE RunDisconnects
  <2>1. session' = NoConn /\ closedChs' = 0..(connectedCh' - 1)
    BY <1>11, DisconnectEffect DEF RunDisconnects
  <2> QED
    BY <2>1 DEF SessionServed, NoLostWakeup
<1>12. CASE BackoffEnds \/ RunReleases
  <2>1. session = NoConn
    BY <1>12 DEF BackoffEnds, RunReleases, RunAt, SessionServed
  <2>2. UNCHANGED <<session, connectedCh, closedChs>>
    BY <1>12 DEF BackoffEnds, RunReleases, mutexVars
  <2> QED
    BY <2>1, <2>2 DEF SessionServed, NoLostWakeup
<1>13. ASSUME NEW r \in Refreshers, RefreshStep(r)
       PROVE  SessionServed' /\ NoLostWakeup'
  <2>1. Same
    BY <1>13 DEF RefreshStep, RefreshStarts, BrowserLists, ListingFails, ListingRefused, StoreNames,
                 ApplyTools, wsVars, consumerVars, mutexVars, runVars
  <2> QED
    BY <1>1, <2>1
<1> QED
  BY <1>2, <1>3, <1>4, <1>5, <1>6, <1>7, <1>8, <1>9, <1>10, <1>11, <1>12, <1>13
  DEF MNext, RunStep

-----------------------------------------------------------------------------
(* Type correctness and what a refresh asks                                *)

\* The channels closed before the current one are among those made so far.
LEMMA ClosedBefore == \A n \in Nat : 0..(n - 1) \subseteq 0..n
OBVIOUS

\* The variables of the manager that a step of Run or of the server leaves
\* alone keep their types, the ones it changes get values of their type.
LEMMA MTypeStep ==
  ASSUME IInv, MTypeOK, ListingOf, RunServing, NoLostWakeup, TypeOK', [MNext]_vars
  PROVE  MTypeOK'
<1> USE DEF RunStates
<1>1. CASE UNCHANGED vars
  BY <1>1 DEF vars, mgrVars, mutexVars, runVars, taskVars, remoteVars, MTypeOK
<1>2. CASE ServerStep
  BY <1>2 DEF ServerStep, mgrVars, mutexVars, runVars, taskVars, remoteVars, MTypeOK
<1>3. ASSUME NEW c \in Conns, CallbackDisconnects(c)
      PROVE  MTypeOK'
  <2>1. HandleDisconnect(c)
    BY <1>3 DEF CallbackDisconnects
  <2>2. /\ session' = NoConn /\ names' \subseteq Tools
        /\ removing' \in [Conns \cup {NoRun} -> SUBSET Tools]
        /\ connectedCh' \in Nat /\ closedChs' = 0..(connectedCh' - 1)
    BY <2>1, DisconnectEffect
  <2>3. closedChs' \subseteq 0..connectedCh'
    BY <2>2, ClosedBefore
  <2> QED
    BY <1>3, <2>2, <2>3 DEF CallbackDisconnects, taskVars, remoteVars, MTypeOK
<1>4. ASSUME NEW c \in Conns, CallbackReturns(c)
      PROVE  MTypeOK'
  BY <1>4 DEF CallbackReturns, RemoveTaken, mutexVars, taskVars, remoteVars, MTypeOK
<1>5. ASSUME NEW c \in Conns, ToolsChange(c)
      PROVE  MTypeOK'
  <2>1. changes' \in 0..MaxChanges
    BY <1>5, MaxChangesAssumption DEF ToolsChange, MTypeOK
  <2>2. remote' \in [Conns -> SUBSET Tools] /\ notices' \in [Conns -> Nat]
    BY <1>5 DEF ToolsChange, MTypeOK
  <2> QED
    BY <1>5, <2>1, <2>2 DEF ToolsChange, mutexVars, runVars, taskVars, MTypeOK
<1>6. ASSUME NEW c \in Conns, ToolListChanged(c)
      PROVE  MTypeOK'
  <2>1. notices' \in [Conns -> Nat]
    <3>1. notices[c] - 1 \in Nat
      BY <1>6 DEF ToolListChanged, MTypeOK
    <3> QED
      BY <1>6, <3>1 DEF ToolListChanged, MTypeOK
  <2>2. task' \in [Refreshers -> Task] /\ refreshing' \in BOOLEAN
    <3>1. "notified" \in Refreshers /\ task["notified"] \in Task
      BY DEF MTypeOK, Task, Refreshers
    <3>2. [task["notified"] EXCEPT !.pc = "start"] \in Task
      BY <3>1, TaskFields DEF TaskStates
    <3>3. \/ UNCHANGED taskVars
          \/ refreshing' = TRUE /\ task' = [task EXCEPT !["notified"] =
                                              [task["notified"] EXCEPT !.pc = "start"]]
      BY <1>6 DEF ToolListChanged
    <3> QED
      BY <3>2, <3>3 DEF MTypeOK, Task, taskVars
  <2> QED
    BY <1>6, <2>1, <2>2 DEF ToolListChanged, mutexVars, runVars, MTypeOK, Task
<1>7. CASE RunWaits \/ RunStops \/ RunConnects
  BY <1>7 DEF RunWaits, RunStops, RunConnects, RunAt, mgrVars, mutexVars, runVars,
              taskVars, remoteVars, MTypeOK
<1>8. CASE HandshakeSucceeds \/ HandshakeFails \/ BackoffEnds
  <2>1. ownClose' \in BOOLEAN /\ run' \in RunStates
    BY <1>8 DEF HandshakeSucceeds, HandshakeFails, BackoffEnds, RunAt, MTypeOK
  <2> QED
    BY <1>8, <2>1 DEF HandshakeSucceeds, HandshakeFails, BackoffEnds, mutexVars, runVars,
                      taskVars, remoteVars, MTypeOK
<1>9. CASE HandshakeTimeout \/ SDKCloses
  BY <1>9 DEF HandshakeTimeout, SDKCloses, mgrVars, mutexVars, runVars, taskVars,
              remoteVars, MTypeOK
<1>10. CASE SetRemoteSession
  <2>1. session' \in Conns \cup {NoConn} /\ run' \in RunStates
    BY <1>10 DEF SetRemoteSession, RunAt, IInv, TypeOK
  <2>2. closedChs' \subseteq 0..connectedCh'
    BY <1>10 DEF SetRemoteSession, MTypeOK
  <2>3. task' \in [Refreshers -> Task]
    <3>1. "run" \in Refreshers /\ task["run"] \in Task
      BY DEF MTypeOK, Task, Refreshers
    <3>2. [task["run"] EXCEPT !.pc = "start"] \in Task
      BY <3>1, TaskFields DEF TaskStates
    <3>3. task' = [task EXCEPT !["run"] = [task["run"] EXCEPT !.pc = "start"]]
      BY <1>10 DEF SetRemoteSession
    <3> QED
      BY <3>2, <3>3 DEF MTypeOK, Task
  <2> QED
    BY <1>10, <2>1, <2>2, <2>3 DEF SetRemoteSession, remoteVars, MTypeOK, Task
<1>11. CASE InitialRefreshDone \/ SessionWaitReturns
  BY <1>11 DEF InitialRefreshDone, SessionWaitReturns, RunAt, mutexVars, taskVars,
               remoteVars, MTypeOK
<1>12. CASE RunDisconnects
  <2>1. NoRun \in Conns \cup {NoRun} /\ HandleDisconnect(NoRun)
    BY <1>12 DEF RunDisconnects
  <2>2. /\ session' = NoConn /\ names' \subseteq Tools
        /\ removing' \in [Conns \cup {NoRun} -> SUBSET Tools]
        /\ connectedCh' \in Nat /\ closedChs' = 0..(connectedCh' - 1)
    BY <2>1, DisconnectEffect
  <2>3. closedChs' \subseteq 0..connectedCh'
    BY <2>2, ClosedBefore
  <2> QED
    BY <1>12, <2>2, <2>3 DEF RunDisconnects, RunAt, taskVars, remoteVars, MTypeOK
<1>13. CASE RunReleases
  BY <1>13 DEF RunReleases, RunAt, RemoveTaken, mutexVars, taskVars, remoteVars, MTypeOK
<1>14. ASSUME NEW r \in Refreshers, RefreshStep(r)
       PROVE  MTypeOK'
  BY <1>14, RefreshType DEF MTypeOK, Task, runVars, remoteVars
<1> QED
  BY <1>1, <1>2, <1>3, <1>4, <1>5, <1>6, <1>7, <1>8, <1>9, <1>10, <1>11, <1>12, <1>13,
     <1>14
  DEF MNext, RunStep

\* A refresh only waits for the answer of a session it was given.
LEMMA ListingStep ==
  ASSUME MTypeOK, ListingOf, [MNext]_vars
  PROVE  ListingOf'
<1>1. ASSUME UNCHANGED task
      PROVE  ListingOf'
  BY <1>1 DEF ListingOf
<1>2. CASE \/ UNCHANGED vars \/ ServerStep \/ HandshakeTimeout \/ SDKCloses
           \/ RunWaits \/ RunStops \/ RunConnects \/ HandshakeSucceeds \/ HandshakeFails
           \/ BackoffEnds \/ InitialRefreshDone \/ SessionWaitReturns
           \/ RunDisconnects \/ RunReleases
  <2>1. UNCHANGED task
    BY <1>2 DEF vars, ServerStep, HandshakeTimeout, SDKCloses, RunWaits, RunStops,
                RunConnects, HandshakeSucceeds, HandshakeFails, BackoffEnds,
                InitialRefreshDone, SessionWaitReturns, RunDisconnects, RunReleases,
                mgrVars, taskVars
  <2> QED
    BY <1>1, <2>1
<1>3. CASE SetRemoteSession
  BY <1>3 DEF SetRemoteSession, ListingOf, MTypeOK, Refreshers
<1>4. ASSUME NEW c \in Conns,
             CallbackDisconnects(c) \/ CallbackReturns(c) \/ ToolsChange(c) \/ ToolListChanged(c)
      PROVE  ListingOf'
  BY <1>4 DEF CallbackDisconnects, CallbackReturns, ToolsChange, ToolListChanged, taskVars,
              ListingOf, MTypeOK, Refreshers
<1>5. ASSUME NEW r \in Refreshers, RefreshStep(r)
      PROVE  ListingOf'
  <2>1. \A p \in Refreshers \ {r} : task'[p] = task[p]
    BY <1>5 DEF RefreshStep, RefreshStarts, BrowserLists, ListingFails, ListingRefused, StoreNames,
                ApplyTools, TaskEnds, MTypeOK
  <2>2. task'[r].pc = "listing" => task'[r].of # NoConn
    <3>1. CASE RefreshStarts(r)
      <4>1. CASE session = NoConn
        BY <3>1, <4>1 DEF RefreshStarts, TaskEnds, Idle, MTypeOK
      <4>2. CASE session # NoConn
        <5>1. task' = [task EXCEPT ![r] = [task[r] EXCEPT !.pc = "listing", !.of = session]]
          BY <3>1, <4>2 DEF RefreshStarts, MTypeOK
        <5>2. task \in [Refreshers -> Task] /\ task[r] \in Task
          BY DEF MTypeOK, Task
        <5>3. [task[r] EXCEPT !.pc = "listing", !.of = session].of = session
          BY <5>2 DEF Task
        <5> QED
          BY <4>2, <5>1, <5>2, <5>3
      <4> QED
        BY <4>1, <4>2
    <3>2. CASE BrowserLists(r) \/ StoreNames(r)
      <4>1. task \in [Refreshers -> Task] /\ task[r] \in Task
        BY DEF MTypeOK, Task
      <4>2. task'[r].pc \in {"replied", "apply"}
        BY <3>2, <4>1 DEF BrowserLists, StoreNames, Task
      <4> QED
        BY <4>2
    <3>3. CASE ListingFails(r) \/ ListingRefused(r)
      <4>1. TaskEnds(r)
        BY <3>3 DEF ListingFails, ListingRefused
      <4> QED
        BY <4>1 DEF TaskEnds, Idle, MTypeOK
    <3>4. CASE ApplyTools(r)
      <4>1. task \in [Refreshers -> Task] /\ task[r] \in Task /\ task[r].pc = "apply"
        BY <3>4 DEF ApplyTools, MTypeOK, Task
      <4>2. \/ task' = [task EXCEPT ![r].drop = {}]
            \/ \E t \in task[r].list : task' = [task EXCEPT ![r].list = @ \ {t}]
            \/ TaskEnds(r)
        BY <3>4 DEF ApplyTools
      <4>3. CASE task' = [task EXCEPT ![r].drop = {}]
        BY <4>1, <4>3 DEF Task
      <4>4. CASE \E t \in task[r].list : task' = [task EXCEPT ![r].list = @ \ {t}]
        BY <4>1, <4>4 DEF Task
      <4>5. CASE TaskEnds(r)
        BY <4>1, <4>5 DEF TaskEnds, Idle
      <4> QED
        BY <4>2, <4>3, <4>4, <4>5
    <3> QED
      BY <1>5, <3>1, <3>2, <3>3, <3>4 DEF RefreshStep
  <2> QED
    BY <2>1, <2>2 DEF ListingOf
<1> QED
  BY <1>2, <1>3, <1>4, <1>5 DEF MNext, RunStep

-----------------------------------------------------------------------------
(* What the manager guarantees                                             *)

\* The server's inductive invariant, kept by a step that is one of the
\* server's or leaves it alone.
LEMMA ServerInvStep == IInv /\ [Next]_wsVars => IInv'
<1> SUFFICES ASSUME IInv, [Next]_wsVars
             PROVE  IInv'
  OBVIOUS
<1>1. TypeOK' /\ HeldWhileServing'
  BY TypeStep, HeldStep DEF IInv
<1> QED
  BY <1>1, OwnershipStep, HandoverStep DEF IInv

\* MInv is an inductive invariant of the bridge.
THEOREM MInvariance == MSpec => []MInv
<1>1. MInv /\ [MNext]_vars => MInv'
  <2> SUFFICES ASSUME MInv, [MNext]_vars
               PROVE  MInv'
    OBVIOUS
  <2>1. IInv'
    BY ServerSimulated, ServerInvStep DEF MInv
  <2>2. MTypeOK'
    BY <2>1, MTypeStep DEF MInv, IInv
  <2>3. RunServing' /\ SessionServed' /\ NoLostWakeup'
    BY RunServingStep, SessionStep DEF MInv
  <2>4. ListingOf'
    BY ListingStep DEF MInv
  <2> QED
    BY <2>1, <2>2, <2>3, <2>4 DEF MInv
<1> QED
  BY MInvInit, <1>1, PTL DEF MSpec

\* Every reachable state of the bridge is well typed.
THEOREM MTypeCorrect == MSpec => []MTypeOK
BY MInvariance, PTL DEF MInv

\* The bridge, seen through the server's variables, is the server: Manager
\* only takes the connections, closes and shuts down the way ColabWS lets it.
THEOREM ServerRefinement == MSpec => Spec
<1>1. MInit => Init
  BY DEF MInit
<1>2. MInv /\ [MNext]_vars => [Next]_wsVars
  BY ServerSimulated DEF MInv
<1> QED
  BY <1>1, <1>2, MInvariance, PTL DEF MSpec, Spec

\* The bridge admits one browser at a time, with the manager's own closes,
\* its handshake timer and its callbacks in the picture.
THEOREM BridgeOneBrowser == MSpec => []OneBrowserAtATime
BY ServerRefinement, OneBrowser, PTL

\* So do the slot's ownership (server.go:256) and the single handover
\* (server.go:144), and the bridge implements the slot and what App.Run sees.
THEOREM BridgeServer ==
  MSpec => []SlotOwnership /\ []HandoverOnce /\ ImplementsSlot /\ Seen!PresenceSpec
BY ServerRefinement, SlotOwned, HandedOverOnce, Refinement, ServerPresence, PTL

\* Whichever of setRemoteSession, the close callback and Run's cleanup comes
\* first (manager.go:203, 384), no session survives the connection's turn.
THEOREM SessionHeld == MSpec => []SessionIsHeld
<1>1. MInv => SessionIsHeld
  BY DEF MInv, SessionServed, SessionIsHeld
<1> QED
  BY MInvariance, <1>1, PTL

\* The channel WaitConnected sleeps on (manager.go:263) is closed while a
\* session is installed, and open once it is gone.
THEOREM WakeupExact == MSpec => []NoLostWakeup
BY MInvariance, PTL DEF MInv

-----------------------------------------------------------------------------
(* The bridge keeps what Sessions promises to the tools                    *)
(*                                                                         *)
(* The refinement mapping reads the queue through its first element: the   *)
(* channel holds at most one connection.                                   *)

BeforeSession == {"wait", "connect", "install"}

\* A connection is not in a queue of at most one exactly when it is not first.
LEMMA NotQueued ==
  ASSUME NEW q \in Seq(Conns), Len(q) <= AcceptedCap, NEW c
  PROVE  (\A i \in 1..Len(q) : q[i] # c) <=> q = <<>> \/ q[1] # c
<1>1. CASE q = <<>>
  BY <1>1
<1>2. CASE q # <<>>
  <2>1. Len(q) \in Nat /\ Len(q) # 0
    BY <1>2, LenProperties, EmptySeq
  <2>2. \A n \in Nat : n <= 1 => n = 0 \/ n = 1
    OBVIOUS
  <2>3. Len(q) = 1
    BY <2>1, <2>2 DEF AcceptedCap
  <2>4. \A i \in 1..1 : i = 1
    OBVIOUS
  <2> QED
    BY <1>2, <2>3, <2>4
<1> QED
  BY <1>1, <1>2

\* Whether connection c had its turn, for one c.
LEMMA HadMember ==
  ASSUME TypeOK, NEW c \in Conns
  PROVE  c \in Had <=> IF held = c THEN run \notin BeforeSession
                       ELSE /\ handler[c] = "returned"
                            /\ accepted = <<>> \/ accepted[1] # c
<1>1. (\A i \in 1..Len(accepted) : accepted[i] # c) <=> accepted = <<>> \/ accepted[1] # c
  BY NotQueued DEF TypeOK
<1> QED
  BY <1>1 DEF Had, BeforeSession

\* The same after a step.
LEMMA HadMemberPrime ==
  ASSUME TypeOK', NEW c \in Conns
  PROVE  c \in Had' <=> IF held' = c THEN run' \notin BeforeSession
                        ELSE /\ handler'[c] = "returned"
                             /\ accepted' = <<>> \/ accepted'[1] # c
<1>1. (\A i \in 1..Len(accepted') : accepted'[i] # c)
        <=> accepted' = <<>> \/ accepted'[1] # c
  BY NotQueued DEF TypeOK
<1> QED
  BY <1>1 DEF Had, BeforeSession

\* A step that leaves the queue and the consumer alone, and takes Run past no
\* session, gives no connection its turn.
LEMMA HadKept ==
  ASSUME TypeOK, TypeOK', UNCHANGED <<held, accepted>>,
         held # NoConn => (run' \in BeforeSession <=> run \in BeforeSession),
         \A c \in Conns : handler'[c] = "returned" <=> handler[c] = "returned"
  PROVE  Had' = Had
<1>1. \A c \in Conns : c \in Had' <=> c \in Had
  BY HadMember, HadMemberPrime, ConnsAssumption
<1>2. Had \subseteq Conns /\ Had' \subseteq Conns
  BY DEF Had
<1> QED
  BY <1>1, <1>2

\* A step that lets exactly c have its turn.
LEMMA HadGrows ==
  ASSUME TypeOK, TypeOK', NEW c \in Conns, c \in Had',
         \A d \in Conns \ {c} : d \in Had' <=> d \in Had
  PROVE  Had' = Had \cup {c}
<1>1. Had \subseteq Conns /\ Had' \subseteq Conns
  BY DEF Had
<1>2. CASE c \in Had
  BY <1>1, <1>2
<1>3. CASE c \notin Had
  BY <1>1, <1>3
<1> QED
  BY <1>2, <1>3

\* Once past a session or a failed handshake, Run's connection is closed.
ClosedBehindRun == run \in {"disconnect", "remove", "backoff"} => held \in closed

\* A closed connection stays closed.
LEMMA ClosedGrows == [Next]_wsVars => closed \subseteq closed'
BY DEF Next, HandlerStep, CloserStep, ConsumerStep, CloseStep, Upgrade, RejectBusy, Admit,
   AnnounceUp, Offer, OfferFull, HangUp, CloseSocket, Clear, CallOnDisc, ReturnOnDisc,
   AnnounceDown, WaitConnection, TakeAccepted, SkipStale, ReturnConnection, WaitCancelled,
   SessionCloses, SessionEnds, OnDisconnect, Cancel, StopListening, ReadActive,
   CloseActive, CloseHTTP, StartClose, wsVars, connVars

\* Run only comes to its cleanup over a closed connection.
LEMMA ClosedBehindStep == MInv /\ ClosedBehindRun /\ [MNext]_vars => ClosedBehindRun'
<1> SUFFICES ASSUME MInv, ClosedBehindRun, [MNext]_vars
             PROVE  ClosedBehindRun'
  OBVIOUS
<1>1. closed \subseteq closed'
  BY ServerSimulated, ClosedGrows DEF MInv
<1>2. CASE UNCHANGED <<run, held>>
  BY <1>1, <1>2 DEF ClosedBehindRun
<1>3. CASE UNCHANGED vars \/ ServerStep \/ HandshakeTimeout \/ SDKCloses
  <2>1. UNCHANGED <<run, held>>
    BY <1>3 DEF ServerStep, HandshakeTimeout, SDKCloses, SessionCloses, HandlerStep,
       Upgrade, RejectBusy, Admit, AnnounceUp, Offer, OfferFull, HangUp, CloseSocket,
       Clear, AnnounceDown, OnDisconnect, Cancel, StopListening, ReadActive, CloseStep,
       CloseActive, CloseHTTP, consumerVars, wsVars, mgrVars, runVars, vars
  <2> QED
    BY <1>2, <2>1
<1>4. ASSUME NEW c \in Conns,
             CallbackDisconnects(c) \/ CallbackReturns(c) \/ ToolsChange(c) \/ ToolListChanged(c)
      PROVE  ClosedBehindRun'
  <2>1. UNCHANGED <<run, held>>
    BY <1>4 DEF CallbackDisconnects, CallbackReturns, ToolsChange, ToolListChanged,
                CallOnDisc, ReturnOnDisc, consumerVars, runVars, wsVars
  <2> QED
    BY <1>2, <2>1
<1>5. CASE RunWaits \/ RunStops \/ RunConnects \/ HandshakeSucceeds \/ SetRemoteSession
           \/ BackoffEnds \/ InitialRefreshDone \/ RunReleases
  BY <1>5 DEF RunWaits, RunStops, RunConnects, HandshakeSucceeds, SetRemoteSession,
              BackoffEnds, InitialRefreshDone, RunReleases, RunAt, ClosedBehindRun
<1>6. CASE HandshakeFails
  BY <1>6 DEF HandshakeFails, StartClose, consumerVars, ClosedBehindRun
<1>7. CASE SessionWaitReturns
  BY <1>1, <1>7 DEF SessionWaitReturns, HeldIsClosed, wsVars, consumerVars, ClosedBehindRun
<1>8. CASE RunDisconnects
  BY <1>1, <1>8 DEF RunDisconnects, RunAt, wsVars, consumerVars, ClosedBehindRun
<1>9. ASSUME NEW r \in Refreshers, RefreshStep(r)
      PROVE  ClosedBehindRun'
  <2>1. UNCHANGED <<run, held>>
    BY <1>9 DEF RefreshStep, RefreshStarts, BrowserLists, ListingFails, ListingRefused, StoreNames,
                ApplyTools, wsVars, consumerVars, runVars
  <2> QED
    BY <1>2, <2>1
<1> QED
  BY <1>3, <1>4, <1>5, <1>6, <1>7, <1>8, <1>9 DEF MNext, RunStep

\* A step that touches nothing Sessions speaks of.
LEMMA SessionsStutter ==
  ASSUME TypeOK, TypeOK',
         UNCHANGED <<active, closed, session, connectedCh, closedChs, held, accepted>>,
         held # NoConn => (run' \in BeforeSession <=> run \in BeforeSession),
         \A c \in Conns : handler'[c] = "returned" <=> handler[c] = "returned"
  PROVE  UNCHANGED Remote!sessionVars
<1>1. Had' = Had
  BY HadKept
<1> QED
  BY <1>1 DEF Remote!sessionVars

\* A step that closes one connection and leaves the rest alone.
LEMMA SessionsClose ==
  ASSUME TypeOK, TypeOK', NEW c \in Conns, StartClose(c),
         UNCHANGED <<active, session, connectedCh, closedChs, held, accepted, handler, run>>
  PROVE  Remote!SessionsNext
<1>1. Had' = Had
  BY HadKept
<1>2. Remote!Closes(c)
  BY <1>1 DEF Remote!Closes, StartClose
<1> QED
  BY <1>2 DEF Remote!SessionsNext

\* handleDisconnect, in either goroutine, is Drops once some connection closed.
LEMMA SessionsDrop ==
  ASSUME MInv, TypeOK', NEW x \in Conns \cup {NoRun}, HandleDisconnect(x), closed # {},
         UNCHANGED <<active, closed, held, accepted, handler>>,
         held # NoConn => (run' \in BeforeSession <=> run \in BeforeSession)
  PROVE  Remote!SessionsNext
<1>1. session' = NoConn /\ connectedCh' \notin closedChs'
  <2>1. /\ session' = NoConn /\ connectedCh' \in Nat
        /\ closedChs' = 0..(connectedCh' - 1)
    BY DisconnectEffect DEF MInv
  <2>2. \A n \in Nat : n \notin 0..(n - 1)
    OBVIOUS
  <2> QED
    BY <2>1, <2>2
<1>2. Had' = Had
  BY HadKept DEF MInv, IInv
<1>3. Remote!Drops
  BY <1>1, <1>2 DEF Remote!Drops
<1> QED
  BY <1>3 DEF Remote!SessionsNext

\* The server's own steps, handlers and closers included.
LEMMA SessionsServerStep ==
  ASSUME MInv, TypeOK', ServerStep
  PROVE  Remote!SessionsNext \/ UNCHANGED Remote!sessionVars
<1> USE DEF MInv, IInv
<1>m. UNCHANGED <<session, connectedCh, closedChs, run>>
  BY DEF ServerStep, mgrVars, mutexVars, runVars
<1>1. ASSUME NEW c \in Conns, Upgrade(c) \/ RejectBusy(c) \/ AnnounceUp(c)
      PROVE  UNCHANGED Remote!sessionVars
  <2>1. UNCHANGED <<active, closed, held, accepted>>
    BY <1>1 DEF Upgrade, RejectBusy, AnnounceUp, slotVars, consumerVars
  <2>2. \A d \in Conns : handler'[d] = "returned" <=> handler[d] = "returned"
    BY <1>1, HandlerMoves DEF Upgrade, RejectBusy, AnnounceUp
  <2> QED
    BY <1>m, <2>1, <2>2, SessionsStutter
<1>2. ASSUME NEW c \in Conns, Admit(c)
      PROVE  Remote!SessionsNext
  <2>1. /\ active = NoConn /\ active' = c /\ handler[c] = "upgraded"
        /\ UNCHANGED <<closed, held, accepted>>
    BY <1>2, HandlerMoves DEF Admit, consumerVars
  <2>2. \A d \in Conns : handler'[d] = "returned" <=> handler[d] = "returned"
    BY <1>2, HandlerMoves DEF Admit
  <2>3. Had' = Had
    BY <1>m, <2>1, <2>2, HadKept
  <2>4. c \notin closed
    BY <2>1 DEF CloseBegun, Admitted
  <2>5. Remote!Enters(c)
    BY <1>m, <2>1, <2>3, <2>4 DEF Remote!Enters
  <2> QED
    BY <2>5 DEF Remote!SessionsNext
<1>3. ASSUME NEW c \in Conns, Offer(c)
      PROVE  UNCHANGED Remote!sessionVars
  <2>1. /\ Len(accepted) < AcceptedCap /\ accepted' = Append(accepted, c)
        /\ UNCHANGED <<active, closed, held>>
    BY <1>3 DEF Offer, slotVars, consumerVars
  <2>2. /\ handler[c] = "offer" /\ handler'[c] = "returned"
        /\ \A d \in Conns : d # c => handler'[d] = handler[d]
    BY <1>3, HandlerMoves DEF Offer
  <2>3. accepted = <<>> /\ accepted' # <<>> /\ accepted'[1] = c
    <3>1. accepted = <<>>
      BY <2>1, AcceptedShort DEF AcceptedCap
    <3>2. Len(accepted') = 1 /\ accepted'[1] = c
      BY <2>1, AcceptedSend
    <3>3. accepted' # <<>>
      BY <3>2
    <3> QED
      BY <3>1, <3>2, <3>3
  <2>4. held # c
    BY <2>2, ConnsAssumption DEF HeldAdmitted
  <2>5. \A d \in Conns : d \in Had' <=> d \in Had
    BY <1>m, <2>1, <2>2, <2>3, <2>4, HadMember, HadMemberPrime
  <2>6. Had \subseteq Conns /\ Had' \subseteq Conns
    BY DEF Had
  <2>7. Had' = Had
    BY <2>5, <2>6
  <2> QED
    BY <1>m, <2>1, <2>7 DEF Remote!sessionVars
<1>4. ASSUME NEW c \in Conns, OfferFull(c)
      PROVE  Remote!SessionsNext
  <2>1. StartClose(c) /\ UNCHANGED <<active, accepted, held>>
    BY <1>4 DEF OfferFull, slotVars, consumerVars
  <2>2. /\ handler[c] = "offer" /\ handler'[c] = "returned"
        /\ \A d \in Conns : d # c => handler'[d] = handler[d]
    BY <1>4, HandlerMoves DEF OfferFull
  <2>3. held # c /\ (accepted = <<>> \/ accepted[1] # c)
    BY <2>2, ConnsAssumption DEF HeldAdmitted, QueueAdmitted
  <2>4. c \in Had'
    BY <2>1, <2>2, <2>3, HadMemberPrime
  <2>5. \A d \in Conns \ {c} : d \in Had' <=> d \in Had
    BY <1>m, <2>1, <2>2, HadMember, HadMemberPrime
  <2>6. Had' = Had \cup {c}
    BY <2>4, <2>5, HadGrows
  <2>7. Remote!GivesUp(c)
    BY <1>m, <2>1, <2>6 DEF Remote!GivesUp, StartClose
  <2> QED
    BY <2>7 DEF Remote!SessionsNext
<1>5. ASSUME NEW c \in Conns, HangUp(c)
      PROVE  Remote!SessionsNext
  BY <1>m, <1>5, SessionsClose DEF HangUp, slotVars, consumerVars
<1>6. ASSUME NEW c \in Conns, Clear(c)
      PROVE  Remote!SessionsNext \/ UNCHANGED Remote!sessionVars
  <2>1. /\ closed' = closed \cup ({active} \ {NoConn}) /\ active' = NoConn
        /\ UNCHANGED <<handler, accepted, held>>
    BY <1>6 DEF Clear, consumerVars
  <2>2. Had' = Had
    BY <1>m, <2>1, HadKept
  <2>3. CASE active = NoConn
    BY <1>m, <2>1, <2>2, <2>3 DEF Remote!sessionVars
  <2>4. CASE active # NoConn
    <3>1. closed' = closed \cup {active}
      BY <2>1, <2>4
    <3>2. Remote!Frees
      BY <1>m, <2>1, <2>2, <2>4, <3>1 DEF Remote!Frees
    <3> QED
      BY <3>2 DEF Remote!SessionsNext
  <2> QED
    BY <2>3, <2>4
<1>7. CASE CloseActive
  <2>1. closeTarget \in Conns
    BY <1>7 DEF CloseActive, TypeOK
  <2> QED
    BY <1>m, <1>7, <2>1, SessionsClose DEF CloseActive, slotVars, consumerVars
<1>8. CASE \/ \E c \in Conns : CloseSocket(c) \/ AnnounceDown(c)
           \/ OnDisconnect \/ Cancel \/ StopListening \/ ReadActive \/ CloseHTTP
  <2>1. UNCHANGED <<active, closed, held, accepted, handler>>
    BY <1>8 DEF CloseSocket, AnnounceDown, OnDisconnect, Cancel, StopListening,
                ReadActive, CloseHTTP, connVars, slotVars, consumerVars
  <2> QED
    BY <1>m, <2>1, SessionsStutter
<1> QED
  BY <1>1, <1>2, <1>3, <1>4, <1>5, <1>6, <1>7, <1>8 DEF ServerStep, HandlerStep, CloseStep

\* The steps of Manager.Run, and of the SDK and the timer it started.
LEMMA SessionsRunStep ==
  ASSUME MInv, ClosedBehindRun, TypeOK', RunStep \/ HandshakeTimeout \/ SDKCloses
  PROVE  Remote!SessionsNext \/ UNCHANGED Remote!sessionVars
<1> USE DEF MInv, IInv
<1>h. consumer = "serving" => held \in Conns
  BY DEF HeldWhileServing, TypeOK
<1>n. consumer \in {"idle", "waiting", "stopped"} => held = NoConn
  BY DEF HeldWhileServing
<1>1. CASE RunWaits /\ TakeAccepted
  <2>1. /\ accepted # <<>> /\ held = NoConn /\ run = "wait" /\ run' = "wait"
        /\ held' = accepted[1] /\ held' \in Conns /\ accepted' = Tail(accepted)
        /\ UNCHANGED <<handler, active, closed, session, connectedCh, closedChs>>
    BY <1>1, <1>n, AcceptedReceive
    DEF RunWaits, RunAt, TakeAccepted, ConsumerAt, connVars, slotVars, mgrVars, mutexVars
  <2>2. accepted' = <<>>
    BY <2>1, AcceptedReceive, EmptySeq DEF TypeOK
  <2>3. \A d \in Conns : d \in Had' <=> d \in Had
    BY <2>1, <2>2, HadMember, HadMemberPrime, ConnsAssumption DEF BeforeSession
  <2>4. Had \subseteq Conns /\ Had' \subseteq Conns
    BY DEF Had
  <2>5. Had' = Had
    BY <2>3, <2>4
  <2> QED
    BY <2>1, <2>5 DEF Remote!sessionVars
<1>2. CASE RunWaits /\ SkipStale
  <2>1. /\ held \in Conns /\ held \in closed /\ held' = NoConn
        /\ run = "wait" /\ run' = "wait"
        /\ UNCHANGED <<handler, accepted, active, closed, session, connectedCh, closedChs>>
    BY <1>2 DEF RunWaits, RunAt, SkipStale, ConsumerAt, HeldWhileServing, TypeOK,
                connVars, slotVars, mgrVars, mutexVars
  <2>2. handler[held] = "returned" /\ (accepted = <<>> \/ accepted[1] # held)
    BY <2>1, ConnsAssumption DEF HeldAdmitted, QueueAdmitted
  <2>3. held \in Had'
    BY <2>1, <2>2, HadMemberPrime, ConnsAssumption
  <2>4. \A d \in Conns \ {held} : d \in Had' <=> d \in Had
    BY <2>1, HadMember, HadMemberPrime, ConnsAssumption
  <2>5. Had' = Had \cup {held}
    BY <2>1, <2>3, <2>4, HadGrows
  <2>6. Remote!GivesUp(held)
    BY <2>1, <2>5 DEF Remote!GivesUp
  <2> QED
    BY <2>1, <2>6 DEF Remote!SessionsNext
<1>3. CASE (RunWaits /\ WaitConnection) \/ RunStops
  <2>1. held = NoConn
    BY <1>3, <1>n DEF WaitConnection, RunStops, WaitCancelled, ConsumerAt
  <2>2. UNCHANGED <<active, closed, held, accepted, handler, session, connectedCh, closedChs>>
    BY <1>3 DEF RunWaits, WaitConnection, RunStops, WaitCancelled, connVars, slotVars,
                consumerVars, wsVars, mgrVars, mutexVars
  <2> QED
    BY <2>1, <2>2, SessionsStutter
<1>4. CASE RunConnects \/ HandshakeSucceeds \/ InitialRefreshDone \/ SessionWaitReturns
  <2>1. UNCHANGED <<active, closed, held, accepted, handler, session, connectedCh, closedChs>>
    BY <1>4 DEF RunConnects, ReturnConnection, HandshakeSucceeds, InitialRefreshDone,
                SessionWaitReturns, connVars, slotVars, consumerVars, wsVars, mutexVars
  <2>2. run' \in BeforeSession <=> run \in BeforeSession
    BY <1>4 DEF RunConnects, HandshakeSucceeds, InitialRefreshDone, SessionWaitReturns,
                RunAt, BeforeSession
  <2> QED
    BY <2>1, <2>2, SessionsStutter
<1>5. CASE HandshakeFails
  <2>1. /\ held \in Conns /\ run = "connect" /\ run' = "backoff" /\ StartClose(held)
        /\ UNCHANGED <<held, active, accepted, handler, session, connectedCh, closedChs>>
    BY <1>5, <1>h DEF HandshakeFails, RunAt, RunServing, slotVars, consumerVars, mutexVars
  <2>2. held \in Had'
    BY <2>1, HadMemberPrime DEF BeforeSession
  <2>3. \A d \in Conns \ {held} : d \in Had' <=> d \in Had
    BY <2>1, HadMember, HadMemberPrime
  <2>4. Had' = Had \cup {held}
    BY <2>1, <2>2, <2>3, HadGrows
  <2>5. Remote!GivesUp(held)
    BY <2>1, <2>4 DEF Remote!GivesUp, StartClose
  <2> QED
    BY <2>1, <2>5 DEF Remote!SessionsNext
<1>6. CASE SetRemoteSession
  <2>1. /\ held \in Conns /\ run = "install" /\ run' = "refresh"
        /\ session' = held /\ connectedCh' \in closedChs'
        /\ UNCHANGED <<held, active, closed, accepted, handler>>
    BY <1>6, <1>h DEF SetRemoteSession, RunAt, RunServing, wsVars, connVars, slotVars,
                      consumerVars
  <2>2. session = NoConn /\ held \notin Had
    BY <2>1, HadMember DEF SessionServed, BeforeSession
  <2>3. active = held \/ held \in closed
    BY <2>1, ConnsAssumption DEF HeldAdmitted, Admitted, SlotOwnership, CloseBegun
  <2>4. held \in Had'
    BY <2>1, HadMemberPrime DEF BeforeSession
  <2>5. \A d \in Conns \ {held} : d \in Had' <=> d \in Had
    BY <2>1, HadMember, HadMemberPrime
  <2>6. Had' = Had \cup {held}
    BY <2>1, <2>4, <2>5, HadGrows
  <2>7. Remote!Installs(held)
    BY <2>1, <2>2, <2>3, <2>6 DEF Remote!Installs
  <2> QED
    BY <2>1, <2>7 DEF Remote!SessionsNext
<1>7. CASE RunDisconnects
  <2>1. /\ run = "disconnect" /\ run' = "remove" /\ HandleDisconnect(NoRun)
        /\ UNCHANGED <<held, active, closed, accepted, handler>>
    BY <1>7 DEF RunDisconnects, RunAt, wsVars, connVars, slotVars, consumerVars
  <2>2. closed # {}
    BY <2>1 DEF ClosedBehindRun
  <2>3. run' \in BeforeSession <=> run \in BeforeSession
    BY <2>1 DEF BeforeSession
  <2> QED
    BY <2>1, <2>2, <2>3, SessionsDrop
<1>8. CASE BackoffEnds \/ RunReleases
  <2>1. /\ held \in Conns /\ held' = NoConn /\ run \in {"backoff", "remove"}
        /\ UNCHANGED <<handler, accepted, active, closed, session, connectedCh, closedChs>>
    BY <1>8, <1>h DEF BackoffEnds, RunReleases, RunAt, SessionEnds, ConsumerAt,
                      connVars, slotVars, mutexVars
  <2>2. handler[held] = "returned" /\ (accepted = <<>> \/ accepted[1] # held)
    BY <2>1, ConnsAssumption DEF HeldAdmitted, QueueAdmitted
  <2>3. \A d \in Conns : d \in Had' <=> d \in Had
    BY <2>1, <2>2, HadMember, HadMemberPrime, ConnsAssumption DEF BeforeSession
  <2>4. Had \subseteq Conns /\ Had' \subseteq Conns
    BY DEF Had
  <2>5. Had' = Had
    BY <2>3, <2>4
  <2> QED
    BY <2>1, <2>5 DEF Remote!sessionVars
<1>9. CASE HandshakeTimeout \/ SDKCloses
  BY <1>9, <1>h, SessionsClose
  DEF HandshakeTimeout, SDKCloses, SessionCloses, slotVars, consumerVars, mgrVars,
      mutexVars, runVars
<1> QED
  BY <1>1, <1>2, <1>3, <1>4, <1>5, <1>6, <1>7, <1>8, <1>9 DEF RunStep, RunWaits

\* Every step of the bridge is one Sessions allows.
LEMMA SessionsSimulated ==
  MInv /\ ClosedBehindRun /\ TypeOK' /\ [MNext]_vars
    => [Remote!SessionsNext]_(Remote!sessionVars)
<1> SUFFICES ASSUME MInv, ClosedBehindRun, TypeOK', [MNext]_vars
             PROVE  Remote!SessionsNext \/ UNCHANGED Remote!sessionVars
  OBVIOUS
<1>1. CASE UNCHANGED vars
  BY <1>1, SessionsStutter
  DEF MInv, IInv, vars, wsVars, connVars, slotVars, consumerVars, mgrVars, mutexVars, runVars
<1>2. ASSUME NEW c \in Conns, CallbackDisconnects(c)
      PROVE  Remote!SessionsNext
  <2>1. c \in closed
    BY <1>2, CloserMoves DEF MInv, IInv, CallbackDisconnects, CallOnDisc, CloseBegun
  <2> QED
    BY <1>2, <2>1, SessionsDrop DEF CallbackDisconnects, CallOnDisc, slotVars, consumerVars
<1>3. ASSUME NEW c \in Conns, CallbackReturns(c) \/ ToolsChange(c) \/ ToolListChanged(c)
      PROVE  UNCHANGED Remote!sessionVars
  BY <1>3, SessionsStutter
  DEF MInv, IInv, CallbackReturns, ReturnOnDisc, ToolsChange, ToolListChanged, wsVars,
      connVars, slotVars, consumerVars, mutexVars, runVars
<1>4. ASSUME NEW r \in Refreshers, RefreshStep(r)
      PROVE  UNCHANGED Remote!sessionVars
  <2>1. UNCHANGED <<wsVars, session, connectedCh, closedChs, runVars>>
    BY <1>4, RefreshType DEF MInv
  <2> QED
    BY <2>1, SessionsStutter DEF MInv, IInv, wsVars, connVars, slotVars, consumerVars, runVars
<1> QED
  BY <1>1, <1>2, <1>3, <1>4, SessionsServerStep, SessionsRunStep DEF MNext

\* To forwarded calls and the tools that wait (manager.go:203, 263, 384;
\* server.go:273), the bridge is what Sessions says.
THEOREM SessionsRefinement == MSpec => ImplementsSessions
<1>1. MInit => Remote!SessionsInit /\ ClosedBehindRun
  <2> SUFFICES ASSUME MInit
               PROVE  Remote!SessionsInit /\ ClosedBehindRun
    OBVIOUS
  <2>1. Had = {}
    BY ConnsAssumption DEF Had, MInit, Init
  <2> QED
    BY <2>1 DEF Remote!SessionsInit, MInit, Init, ClosedBehindRun
<1>2. MInv /\ MInv' /\ ClosedBehindRun /\ [MNext]_vars
        => [Remote!SessionsNext]_(Remote!sessionVars) /\ ClosedBehindRun'
  BY SessionsSimulated, ClosedBehindStep DEF MInv, IInv
<1> QED
  BY <1>1, <1>2, MInvariance, PTL DEF MSpec, ImplementsSessions, Remote!SessionsSpec
=============================================================================

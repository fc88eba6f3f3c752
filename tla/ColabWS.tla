------------------------------ MODULE ColabWS ------------------------------
(***************************************************************************)
(* The browser WebSocket server (internal/colabws): Server.handleWebSocket *)
(* admits at most one browser connection, Connection.Close tears one down  *)
(* and calls Server.clearConnection, and WaitConnection hands admitted     *)
(* connections to the one goroutine that serves them (Manager.Run).        *)
(*                                                                         *)
(* Every browser connection has two goroutines of its own here: the HTTP   *)
(* handler that admitted it, and whichever goroutine won its closeOnce     *)
(* and runs the body of Close.  A section under Server.mu has no blocking  *)
(* call in it and is one step.  The callbacks run outside that mutex:      *)
(* CallOnDisc/ReturnOnDisc, AnnounceUp and AnnounceDown are the points     *)
(* where modules that extend this one attach what the callbacks do.        *)
(* Requests that fail the origin, subprotocol or token check, or the       *)
(* upgrade, change no state and are left out.                              *)
(***************************************************************************)
EXTENDS Naturals, Sequences

CONSTANTS
  Conns,   \* browser WebSocket connections
  NoConn   \* nil

ASSUME ConnsAssumption == NoConn \notin Conns

AcceptedCap == 1   \* make(chan *Connection, 1)

VARIABLES
  handler,      \* where handleWebSocket is, per connection
  closer,       \* where Connection.Close is, per connection
  closed,       \* connections whose `closed` channel is closed (Done)
  active,       \* Server.active
  live,         \* Server.live
  reported,     \* what the OnConnectionChange callback was last told
  accepted,     \* the accepted channel
  onDisc,       \* an OnDisconnect callback has been registered
  cancelled,    \* the context given to Start and to WaitConnection is done
  listening,    \* the HTTP listener is open
  serverClose,  \* where Server.Close is
  closeTarget,  \* the connection Server.Close read from ActiveConnection
  consumer,     \* where the goroutine that calls WaitConnection is
  held          \* the connection that goroutine took from the channel

connVars     == <<handler, closer, closed>>
slotVars     == <<active, live, reported>>
shutdownVars == <<cancelled, listening, serverClose, closeTarget>>
consumerVars == <<consumer, held>>
wsVars == <<connVars, slotVars, accepted, onDisc, shutdownVars, consumerVars>>

HandlerStates == {"idle", "upgraded", "announce", "offer", "returned", "busy"}
CloserStates  == {"open", "signalled", "clear", "onDisc", "inOnDisc",
                  "onChange", "done"}

TypeOK ==
  /\ handler \in [Conns -> HandlerStates]
  /\ closer \in [Conns -> CloserStates]
  /\ closed \subseteq Conns
  /\ active \in Conns \cup {NoConn}
  /\ live \in BOOLEAN
  /\ reported \in BOOLEAN
  /\ accepted \in Seq(Conns) /\ Len(accepted) <= AcceptedCap
  /\ onDisc \in BOOLEAN
  /\ cancelled \in BOOLEAN
  /\ listening \in BOOLEAN
  /\ serverClose \in {"open", "closing", "waiting", "closed"}
  /\ closeTarget \in Conns \cup {NoConn}
  /\ consumer \in {"idle", "waiting", "checking", "serving", "stopped"}
  /\ held \in Conns \cup {NoConn}

Init ==
  /\ handler = [c \in Conns |-> "idle"]
  /\ closer = [c \in Conns |-> "open"]
  /\ closed = {}
  /\ active = NoConn
  /\ live = FALSE
  /\ reported = FALSE
  /\ accepted = <<>>
  /\ onDisc = FALSE
  /\ cancelled = FALSE
  /\ listening = TRUE
  /\ serverClose = "open"
  /\ closeTarget = NoConn
  /\ consumer = "idle"
  /\ held = NoConn

\* The connection got a Connection object (newConnection) and the slot.
Admitted(c) == handler[c] \in {"announce", "offer", "returned"}

-----------------------------------------------------------------------------
(* Server.handleWebSocket, one goroutine per request                       *)

HandlerAt(c, from, to) == /\ handler[c] = from
                          /\ handler' = [handler EXCEPT ![c] = to]

\* The request passed its checks and the upgrade.
Upgrade(c) ==
  /\ listening
  /\ HandlerAt(c, "idle", "upgraded")
  /\ UNCHANGED <<closer, closed, slotVars, accepted, onDisc, shutdownVars, consumerVars>>

\* The slot is taken: close frame 1013, no Connection is created.
RejectBusy(c) ==
  /\ active # NoConn
  /\ HandlerAt(c, "upgraded", "busy")
  /\ UNCHANGED <<closer, closed, slotVars, accepted, onDisc, shutdownVars, consumerVars>>

\* Fault: the slot is taken without looking whether it is free.
AdmitAlways(c) ==
  /\ HandlerAt(c, "upgraded", "announce")
  /\ active' = c
  /\ live' = TRUE
  /\ UNCHANGED <<closer, closed, reported, accepted, onDisc, shutdownVars, consumerVars>>

Admit(c) ==
  /\ active = NoConn
  /\ HandlerAt(c, "upgraded", "announce")
  /\ active' = c
  /\ live' = TRUE
  /\ UNCHANGED <<closer, closed, reported, accepted, onDisc, shutdownVars, consumerVars>>

\* fn(true) for every OnConnectionChange callback, after the unlock.
AnnounceUp(c) ==
  /\ HandlerAt(c, "announce", "offer")
  /\ reported' = TRUE
  /\ UNCHANGED <<closer, closed, active, live, accepted, onDisc, shutdownVars, consumerVars>>

Offer(c) ==
  /\ Len(accepted) < AcceptedCap
  /\ HandlerAt(c, "offer", "returned")
  /\ accepted' = Append(accepted, c)
  /\ UNCHANGED <<closer, closed, slotVars, onDisc, shutdownVars, consumerVars>>

-----------------------------------------------------------------------------
(* Connection.Close: closeOnce admits one caller; the others do nothing    *)

\* Fault: no closeOnce, every call of Close runs its body and the callback.
StartCloseAgain(c) ==
  /\ closer' = [closer EXCEPT ![c] = "signalled"]
  /\ closed' = closed \cup {c}

StartClose(c) ==
  /\ closer' = [closer EXCEPT ![c] = IF @ = "open" THEN "signalled" ELSE @]
  /\ closed' = closed \cup {c}

\* Fault: a connection that finds the queue full is left open.
OfferFullLeavesOpen(c) ==
  /\ Len(accepted) = AcceptedCap
  /\ HandlerAt(c, "offer", "returned")
  /\ UNCHANGED <<closer, closed, slotVars, accepted, onDisc, shutdownVars, consumerVars>>

\* The default branch of the non-blocking send: the queue is full.
OfferFull(c) ==
  /\ Len(accepted) = AcceptedCap
  /\ HandlerAt(c, "offer", "returned")
  /\ StartClose(c)
  /\ UNCHANGED <<slotVars, accepted, onDisc, shutdownVars, consumerVars>>

\* ReadMessage fails (the browser is gone) and readLoop closes.
HangUp(c) ==
  /\ Admitted(c)
  /\ closer[c] = "open"
  /\ StartClose(c)
  /\ UNCHANGED <<handler, slotVars, accepted, onDisc, shutdownVars, consumerVars>>

CloserAt(c, from, to) == /\ closer[c] = from
                         /\ closer' = [closer EXCEPT ![c] = to]

\* The close frame is written and the socket closed; closeOnce is over.
CloseSocket(c) ==
  /\ CloserAt(c, "signalled", "clear")
  /\ UNCHANGED <<handler, closed, slotVars, accepted, onDisc, shutdownVars, consumerVars>>

\* Fault: clearConnection resets live and forgets active.
ClearKeepsActive(c) ==
  /\ CloserAt(c, "clear", IF live THEN "onChange" ELSE "done")
  /\ closed' = closed \cup ({active} \ {NoConn})
  /\ live' = FALSE
  /\ UNCHANGED <<handler, active, reported, accepted, onDisc, shutdownVars, consumerVars>>

\* clearConnection under Server.mu.  It is not told which connection closed.
Clear(c) ==
  /\ CloserAt(c, "clear", CASE ~live   -> "done"
                            [] live /\ onDisc  -> "onDisc"
                            [] live /\ ~onDisc -> "onChange")
  /\ closed' = closed \cup ({active} \ {NoConn})
  /\ active' = NoConn
  /\ live' = FALSE
  /\ UNCHANGED <<handler, reported, accepted, onDisc, shutdownVars, consumerVars>>

CallOnDisc(c) ==
  /\ CloserAt(c, "onDisc", "inOnDisc")
  /\ UNCHANGED <<handler, closed, slotVars, accepted, onDisc, shutdownVars, consumerVars>>

ReturnOnDisc(c) ==
  /\ CloserAt(c, "inOnDisc", "onChange")
  /\ UNCHANGED <<handler, closed, slotVars, accepted, onDisc, shutdownVars, consumerVars>>

\* fn(false) for every OnConnectionChange callback, after the unlock.
AnnounceDown(c) ==
  /\ CloserAt(c, "onChange", "done")
  /\ reported' = FALSE
  /\ UNCHANGED <<handler, closed, active, live, accepted, onDisc, shutdownVars, consumerVars>>

\* NewManager registers its callback once the server is already listening.
OnDisconnect ==
  /\ ~onDisc
  /\ onDisc' = TRUE
  /\ UNCHANGED <<connVars, slotVars, accepted, shutdownVars, consumerVars>>

-----------------------------------------------------------------------------
(* Server.WaitConnection and the goroutine that calls it                   *)

ConsumerAt(from, to) == consumer = from /\ consumer' = to

WaitConnection ==
  /\ ConsumerAt("idle", "waiting")
  /\ UNCHANGED <<connVars, slotVars, accepted, onDisc, shutdownVars, held>>

\* Fault: the connection is looked at, not received.
TakeKeepsQueued ==
  /\ ConsumerAt("waiting", "checking")
  /\ accepted # <<>>
  /\ held' = Head(accepted)
  /\ UNCHANGED <<connVars, slotVars, accepted, onDisc, shutdownVars>>

TakeAccepted ==
  /\ ConsumerAt("waiting", "checking")
  /\ accepted # <<>>
  /\ held' = Head(accepted)
  /\ accepted' = Tail(accepted)
  /\ UNCHANGED <<connVars, slotVars, onDisc, shutdownVars>>

\* "Never hand that stale socket to MCP."
SkipStale ==
  /\ ConsumerAt("checking", "waiting")
  /\ held \in closed
  /\ held' = NoConn
  /\ UNCHANGED <<connVars, slotVars, accepted, onDisc, shutdownVars>>

ReturnConnection ==
  /\ ConsumerAt("checking", "serving")
  /\ held \notin closed
  /\ UNCHANGED <<connVars, slotVars, accepted, onDisc, shutdownVars, held>>

WaitCancelled ==
  /\ cancelled
  /\ ConsumerAt("waiting", "stopped")
  /\ UNCHANGED <<connVars, slotVars, accepted, onDisc, shutdownVars, held>>

\* The MCP session over the connection ends it: shutdown, failed handshake,
\* failed write.
SessionCloses ==
  /\ consumer = "serving"
  /\ closer[held] = "open"
  /\ StartClose(held)
  /\ UNCHANGED <<handler, slotVars, accepted, onDisc, shutdownVars, consumerVars>>

SessionEnds ==
  /\ ConsumerAt("serving", "idle")
  /\ held \in closed
  /\ held' = NoConn
  /\ UNCHANGED <<connVars, slotVars, accepted, onDisc, shutdownVars>>

-----------------------------------------------------------------------------
(* Shutdown: the context of Start, and Server.Close                        *)

Cancel ==
  /\ ~cancelled
  /\ cancelled' = TRUE
  /\ UNCHANGED <<connVars, slotVars, accepted, onDisc, listening, serverClose,
                 closeTarget, consumerVars>>

\* httpServer.Shutdown; upgraded connections are hijacked and stay.
StopListening ==
  /\ cancelled /\ listening
  /\ listening' = FALSE
  /\ UNCHANGED <<connVars, slotVars, accepted, onDisc, cancelled, serverClose,
                 closeTarget, consumerVars>>

ReadActive ==
  /\ serverClose = "open"
  /\ serverClose' = "closing"
  /\ closeTarget' = active
  /\ UNCHANGED <<connVars, slotVars, accepted, onDisc, cancelled, listening, consumerVars>>

CloseActive ==
  /\ serverClose = "closing" /\ closeTarget # NoConn
  /\ serverClose' = "waiting"
  /\ StartClose(closeTarget)
  /\ UNCHANGED <<handler, slotVars, accepted, onDisc, cancelled, listening,
                 closeTarget, consumerVars>>

\* c.Close has returned (closeOnce is over); httpServer.Close.
CloseHTTP ==
  /\ \/ serverClose = "closing" /\ closeTarget = NoConn
     \/ serverClose = "waiting" /\ closer[closeTarget] # "signalled"
  /\ serverClose' = "closed"
  /\ listening' = FALSE
  /\ UNCHANGED <<connVars, slotVars, accepted, onDisc, cancelled, closeTarget, consumerVars>>

-----------------------------------------------------------------------------
HandlerStep(c) == \/ RejectBusy(c) \/ Admit(c) \/ AnnounceUp(c)
                  \/ Offer(c) \/ OfferFull(c)
CloserStep(c)  == \/ CloseSocket(c) \/ Clear(c) \/ CallOnDisc(c)
                  \/ ReturnOnDisc(c) \/ AnnounceDown(c)
ConsumerStep   == \/ WaitConnection \/ TakeAccepted \/ SkipStale
                  \/ ReturnConnection \/ WaitCancelled \/ SessionEnds
CloseStep      == CloseActive \/ CloseHTTP

Next == \/ \E c \in Conns : Upgrade(c) \/ HandlerStep(c) \/ HangUp(c) \/ CloserStep(c)
        \/ ConsumerStep \/ SessionCloses
        \/ OnDisconnect \/ Cancel \/ StopListening \/ ReadActive \/ CloseStep

Spec == Init /\ [][Next]_wsVars

\* A runnable goroutine is eventually scheduled and no callback blocks for
\* ever; browsers, clients and shutdown owe nothing.
Fairness == /\ \A c \in Conns : WF_wsVars(HandlerStep(c)) /\ WF_wsVars(CloserStep(c))
            /\ WF_wsVars(ConsumerStep)
            /\ WF_wsVars(StopListening)
            /\ WF_wsVars(CloseStep)

FairSpec == Spec /\ Fairness

-----------------------------------------------------------------------------
(* Properties                                                              *)

\* The slot belongs to exactly the connection that was admitted and whose
\* Close has not reached clearConnection's lock section, so clearConnection,
\* which clears whatever is in the slot, can only clear its own connection.
SlotOwnership ==
  /\ \A c \in Conns :
       active = c <=> Admitted(c) /\ closer[c] \in {"open", "signalled", "clear"}
  /\ live <=> active # NoConn

\* README: one browser connection at a time.  However handlers, closers and
\* the consumer interleave, a connection that is open (wherever it is: being
\* announced, queued or served) is the one in the slot.
OneBrowserAtATime ==
  \A c \in Conns : Admitted(c) /\ c \notin closed => active = c

\* A connection is handed over at most once: nothing in the queue is also
\* held, or still in its handler, or queued twice.
HandoverOnce ==
  \A i \in 1..Len(accepted) :
    /\ handler[accepted[i]] = "returned"
    /\ accepted[i] # held
    /\ \A j \in 1..Len(accepted) : accepted[i] = accepted[j] => i = j

\* README: state.json records the "browser connection state"; app.go:157 "no
\* browser connection transition can be missed".  With no callback pending,
\* what the callback was last told is the state of the connection.
NoCallbackPending ==
  \A c \in Conns : /\ handler[c] # "announce"
                   /\ closer[c] \notin {"onDisc", "inOnDisc", "onChange"}
ReportedIsLive == NoCallbackPending => reported = live

\* A connection that closed gives the slot back: a browser that reconnects
\* is not answered "busy" for ever.
SlotFreed == \A c \in Conns : c \in closed ~> active # c

\* An admitted connection does not linger unserved: it reaches the goroutine
\* in WaitConnection, or it is closed, unless the bridge is shutting down.
AdmittedIsServed ==
  \A c \in Conns : active = c ~> (held = c \/ c \in closed \/ cancelled)

SlotPhase ==
  [c \in Conns |->
     CASE handler[c] \in {"idle", "upgraded"} -> "away"
       [] handler[c] = "busy" -> "refused"
       [] Admitted(c) /\ closer[c] \in {"open", "signalled", "clear"} -> "owner"
       [] OTHER -> "left"]

Slot == INSTANCE SessionSlot WITH owner <- active, phase <- SlotPhase

\* The server implements the single slot of SessionSlot.
ImplementsSlot == Slot!Spec
=============================================================================

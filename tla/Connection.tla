----------------------------- MODULE Connection -----------------------------
(***************************************************************************)
(* One WebSocket connection (internal/colabws/connection.go): the read     *)
(* loop, which fills a bounded channel; the reader of the MCP session,     *)
(* which empties it; writers, each with a goroutine of its own that takes  *)
(* writeMu; and Close, which takes writeMu too.  A select takes any of its *)
(* cases that is ready.  The browser reads, stops reading, or hangs up.    *)
(***************************************************************************)
EXTENDS Naturals, Sequences

CONSTANTS
  Writes,      \* calls of Write
  ReadCap,     \* the capacity of readCh
  MaxIncoming  \* bound: messages the browser sends

ASSUME ReadCapAssumption == ReadCap \in Nat \ {0}
ASSUME MaxIncomingAssumption == MaxIncoming \in Nat

VARIABLES
  peer,       \* the browser reads, is stalled, or is gone
  arrived,    \* messages readLoop has read
  readLoop,   \* where the read loop is
  readCh,     \* the messages in the channel; ReadError for its last item
  reader,     \* the session's reader
  delivered,  \* the messages Read returned
  writing,    \* where Write is, per call
  writer,     \* where the goroutine of Write is, per call
  ctxDone,    \* calls of Write whose context is done
  onWire,     \* messages that are written
  broken,     \* a write failed: all later ones fail
  closer,     \* a call of Close from outside: the server, the session or a timer
  once        \* how far closeOnce is; c.closed is closed unless it is "open"

loopVars  == <<arrived, readLoop, readCh>>
writeVars == <<writing, writer, ctxDone, onWire, broken>>
connVars  == <<peer, loopVars, reader, delivered, writeVars, closer, once>>

ReadError == 0

\* The types of the variables; the channel holds no more than its capacity.
ConnTypeOK ==
  /\ peer \in {"reading", "stalled", "gone"}
  /\ arrived \in 0..MaxIncoming
  /\ readLoop \in {"reading", "sending", "reporting", "closing", "ended"}
  /\ readCh \in Seq(0..MaxIncoming) /\ Len(readCh) <= ReadCap
  /\ reader \in {"away", "reading", "stopped"}
  /\ delivered \in Seq(1..MaxIncoming)
  /\ writing \in [Writes -> {"idle", "waiting", "closing", "returned"}]
  /\ writer \in [Writes -> {"none", "locking", "writing", "sent", "failed"}]
  /\ ctxDone \subseteq Writes
  /\ onWire \subseteq Writes
  /\ broken \in BOOLEAN
  /\ closer \in {"idle", "closing", "done"}
  /\ once \in {"open", "signalled", "locked", "shut"}

ConnInit ==
  /\ peer = "reading"
  /\ arrived = 0
  /\ readLoop = "reading"
  /\ readCh = <<>>
  /\ reader = "away"
  /\ delivered = <<>>
  /\ writing = [w \in Writes |-> "idle"]
  /\ writer = [w \in Writes |-> "none"]
  /\ ctxDone = {}
  /\ onWire = {}
  /\ broken = FALSE
  /\ closer = "idle"
  /\ once = "open"

-----------------------------------------------------------------------------
(* readLoop                                                                *)

LoopGoes(from, to) == readLoop = from /\ readLoop' = to

ReadsMessage ==
  /\ arrived < MaxIncoming /\ peer # "gone" /\ once # "shut"
  /\ LoopGoes("reading", "sending")
  /\ arrived' = arrived + 1
  /\ UNCHANGED <<peer, readCh, reader, delivered, writeVars, closer, once>>

\* Fault: a message is dropped when the channel is full.
SendsIfRoom ==
  /\ LoopGoes("sending", "reading")
  /\ readCh' = IF Len(readCh) < ReadCap THEN Append(readCh, arrived) ELSE readCh
  /\ UNCHANGED <<peer, arrived, reader, delivered, writeVars, closer, once>>

SendsMessage ==
  /\ Len(readCh) < ReadCap
  /\ LoopGoes("sending", "reading")
  /\ readCh' = Append(readCh, arrived)
  /\ UNCHANGED <<peer, arrived, reader, delivered, writeVars, closer, once>>

\* The browser hung up, or the socket is closed.
ReadFails ==
  /\ peer = "gone" \/ once = "shut"
  /\ LoopGoes("reading", "reporting")
  /\ UNCHANGED <<peer, arrived, readCh, reader, delivered, writeVars, closer, once>>

\* Fault: the loop ends without Close.
ReportsAndEnds ==
  /\ Len(readCh) < ReadCap
  /\ LoopGoes("reporting", "ended")
  /\ readCh' = Append(readCh, ReadError)
  /\ UNCHANGED <<peer, arrived, reader, delivered, writeVars, closer, once>>

ReportsError ==
  /\ Len(readCh) < ReadCap
  /\ LoopGoes("reporting", "closing")
  /\ readCh' = Append(readCh, ReadError)
  /\ UNCHANGED <<peer, arrived, reader, delivered, writeVars, closer, once>>

\* Its Close returns: the loop ends and closes readCh.
LoopEnds ==
  /\ once = "shut"
  /\ LoopGoes("closing", "ended")
  /\ UNCHANGED <<peer, arrived, readCh, reader, delivered, writeVars, closer, once>>

-----------------------------------------------------------------------------
(* Read, by the session over the connection                                *)

ReaderGoes(from, to) == reader = from /\ reader' = to

\* Manager.Run takes the connection to connect a client over it.
ReaderStarts ==
  /\ ReaderGoes("away", "reading")
  /\ UNCHANGED <<peer, loopVars, delivered, writeVars, closer, once>>

ReadReturnsMessage ==
  /\ reader = "reading" /\ readCh # <<>> /\ Head(readCh) # ReadError
  /\ readCh' = Tail(readCh)
  /\ delivered' = Append(delivered, Head(readCh))
  /\ UNCHANGED <<peer, arrived, readLoop, reader, writeVars, closer, once>>

\* A read error, or a message that is none of JSON-RPC: the session ends.
ReadReturnsError ==
  /\ readCh # <<>>
  /\ ReaderGoes("reading", "stopped")
  /\ readCh' = Tail(readCh)
  /\ UNCHANGED <<peer, arrived, readLoop, delivered, writeVars, closer, once>>

\* c.closed, the context, or readCh is closed.
ReadEnds ==
  /\ once # "open" \/ closer # "idle" \/ (readLoop = "ended" /\ readCh = <<>>)
  /\ ReaderGoes("reading", "stopped")
  /\ UNCHANGED <<peer, loopVars, delivered, writeVars, closer, once>>

-----------------------------------------------------------------------------
(* Write                                                                   *)

WriteGoes(w, from, to)  == writing[w] = from /\ writing' = [writing EXCEPT ![w] = to]
WriterGoes(w, from, to) == writer[w] = from /\ writer' = [writer EXCEPT ![w] = to]

MuFree == once # "locked" /\ \A w \in Writes : writer[w] # "writing"

\* The goroutine is started.
StartsWrite(w) ==
  /\ WriteGoes(w, "idle", "waiting")
  /\ WriterGoes(w, "none", "locking")
  /\ UNCHANGED <<peer, loopVars, reader, delivered, ctxDone, onWire, broken, closer, once>>

\* writeMu.Lock, then a look at the context and at c.closed.
WriterLocks(w) ==
  /\ MuFree
  /\ WriterGoes(w, "locking", IF w \in ctxDone \/ once # "open" THEN "failed" ELSE "writing")
  /\ UNCHANGED <<peer, loopVars, reader, delivered, writing, ctxDone, onWire, broken, closer, once>>

WriterSends(w) ==
  /\ peer # "stalled" /\ ~broken
  /\ WriterGoes(w, "writing", "sent")
  /\ onWire' = onWire \cup {w}
  /\ UNCHANGED <<peer, loopVars, reader, delivered, writing, ctxDone, broken, closer, once>>

\* Fault: no write deadline.
WriterWaits(w) ==
  /\ peer = "gone" \/ broken
  /\ WriterGoes(w, "writing", "failed")
  /\ broken' = TRUE
  /\ UNCHANGED <<peer, loopVars, reader, delivered, writing, ctxDone, onWire, closer, once>>

\* The deadline, which is writeTimeout or that of the context, or an error.
WriterFails(w) ==
  /\ peer # "reading" \/ broken \/ w \in ctxDone
  /\ WriterGoes(w, "writing", "failed")
  /\ broken' = TRUE
  /\ UNCHANGED <<peer, loopVars, reader, delivered, writing, ctxDone, onWire, closer, once>>

WriteSucceeds(w) ==
  /\ writer[w] = "sent"
  /\ WriteGoes(w, "waiting", "returned")
  /\ UNCHANGED <<peer, loopVars, reader, delivered, writer, ctxDone, onWire, broken, closer, once>>

\* Fault: the error is returned, and the connection is left open.
WriteReturnsError(w) ==
  /\ writer[w] = "failed"
  /\ WriteGoes(w, "waiting", "returned")
  /\ UNCHANGED <<peer, loopVars, reader, delivered, writer, ctxDone, onWire, broken, closer, once>>

\* An error of the goroutine, be it that of the context, closes the connection.
WriteCloses(w) ==
  /\ writer[w] = "failed"
  /\ WriteGoes(w, "waiting", "closing")
  /\ UNCHANGED <<peer, loopVars, reader, delivered, writer, ctxDone, onWire, broken, closer, once>>

WriteClosed(w) ==
  /\ once = "shut"
  /\ WriteGoes(w, "closing", "returned")
  /\ UNCHANGED <<peer, loopVars, reader, delivered, writer, ctxDone, onWire, broken, closer, once>>

\* The context is done or c.closed is: the goroutine is left to itself.
WriteAbandons(w) ==
  /\ w \in ctxDone \/ once # "open"
  /\ WriteGoes(w, "waiting", "returned")
  /\ UNCHANGED <<peer, loopVars, reader, delivered, writer, ctxDone, onWire, broken, closer, once>>

ContextEnds(w) ==
  /\ writing[w] # "returned" /\ w \notin ctxDone
  /\ ctxDone' = ctxDone \cup {w}
  /\ UNCHANGED <<peer, loopVars, reader, delivered, writing, writer, onWire, broken, closer, once>>

-----------------------------------------------------------------------------
(* Close                                                                   *)

CallsClose ==
  /\ closer = "idle"
  /\ closer' = "closing"
  /\ UNCHANGED <<peer, loopVars, reader, delivered, writeVars, once>>

CloseReturns ==
  /\ closer = "closing" /\ once = "shut"
  /\ closer' = "done"
  /\ UNCHANGED <<peer, loopVars, reader, delivered, writeVars, once>>

\* closeOnce: the first caller goes through it, the others wait for it.
SignalsClosed ==
  /\ once = "open"
  /\ readLoop = "closing" \/ closer = "closing" \/ \E w \in Writes : writing[w] = "closing"
  /\ once' = "signalled"
  /\ UNCHANGED <<peer, loopVars, reader, delivered, writeVars, closer>>

CloseLocks ==
  /\ once = "signalled" /\ MuFree
  /\ once' = "locked"
  /\ UNCHANGED <<peer, loopVars, reader, delivered, writeVars, closer>>

\* The close frame, which has a deadline of its own, and ws.Close.
Shuts ==
  /\ once = "locked"
  /\ once' = "shut"
  /\ UNCHANGED <<peer, loopVars, reader, delivered, writeVars, closer>>

-----------------------------------------------------------------------------
PeerChanges ==
  /\ peer # "gone"
  /\ peer' \in {"reading", "stalled", "gone"} \ {peer}
  /\ UNCHANGED <<loopVars, reader, delivered, writeVars, closer, once>>

LoopStep == ReadsMessage \/ SendsMessage \/ ReadFails \/ ReportsError \/ LoopEnds

ReaderStep == ReadReturnsMessage \/ ReadReturnsError \/ ReadEnds

WriterStep(w) == WriterLocks(w) \/ WriterSends(w) \/ WriterFails(w)

WriteStep(w) == \/ WriteSucceeds(w) \/ WriteCloses(w) \/ WriteClosed(w) \/ WriteAbandons(w)

CloserStep == CloseReturns \/ SignalsClosed \/ CloseLocks \/ Shuts

ConnNext == \/ LoopStep \/ ReaderStarts \/ ReaderStep
            \/ \E w \in Writes : StartsWrite(w) \/ WriterStep(w) \/ WriteStep(w) \/ ContextEnds(w)
            \/ CallsClose \/ CloserStep
            \/ PeerChanges

ConnSpec == ConnInit /\ [][ConnNext]_connVars

\* The goroutines of the bridge run, and a session reads on; weak fairness will
\* do for writeMu, as the calls of Write are finitely many.  The browser, the
\* session's start and the callers' contexts owe nothing.
ConnFairness == /\ WF_connVars(LoopStep) /\ WF_connVars(ReaderStep) /\ WF_connVars(CloserStep)
                /\ \A w \in Writes : WF_connVars(WriterStep(w)) /\ WF_connVars(WriteStep(w))

ConnFairSpec == ConnSpec /\ ConnFairness

-----------------------------------------------------------------------------
(* Properties                                                              *)

\* The session reads what the browser sent, in its order and with no gap,
\* however far behind it is and whenever it starts.
DeliveredInOrder == \A i \in 1..Len(delivered) : delivered[i] = i

\* A browser that hangs up is noticed: the connection is closed, which frees the
\* slot.  Not so while no session reads and readCh is full: the read loop is
\* stuck on it then, and does not look at the socket.
HangUpNoticed ==
  peer = "gone" ~> once # "open" \/ (reader # "reading" /\ Len(readCh) = ReadCap)

\* A message that is written reaches the socket, or the connection is closed,
\* unless its caller gives up: a browser that is stalled or has vanished, or a
\* socket an abandoned write has broken, does not swallow a second message.
NoWriteForgotten ==
  \A w \in Writes :
    writer[w] = "locking" ~> w \in onWire \/ once # "open" \/ w \in ctxDone

\* Close takes the mutex of the writers, and still completes; and no Write
\* waits forever, whatever the browser does.
NobodyHangs ==
  /\ once = "signalled" ~> once = "shut"
  /\ \A w \in Writes : writing[w] = "waiting" ~> writing[w] = "returned"
=============================================================================

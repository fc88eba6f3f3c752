--------------------------- MODULE ColabWS_proofs ---------------------------
(***************************************************************************)
(* Machine-checked proofs about ColabWS for any set of connections: type   *)
(* correctness, the ownership of the slot, the consequences a caller of    *)
(* the server relies on, and that the server implements SessionSlot.       *)
(***************************************************************************)
EXTENDS ColabWS, SequenceTheorems, FiniteSetTheorems, TLAPS

USE DEF AcceptedCap

-----------------------------------------------------------------------------
(* Type correctness                                                        *)

\* Closing any connection keeps the two variables of Close well typed.
LEMMA StartCloseType ==
  ASSUME TypeOK, NEW c \in Conns, StartClose(c)
  PROVE  closer' \in [Conns -> CloserStates] /\ closed' \subseteq Conns
BY DEF TypeOK, StartClose, CloserStates

\* One step of a handler goroutine keeps its program counter well typed.
LEMMA HandlerAtType ==
  ASSUME TypeOK, NEW c \in Conns, NEW from, NEW to \in HandlerStates,
         HandlerAt(c, from, to)
  PROVE  handler' \in [Conns -> HandlerStates]
BY DEF TypeOK, HandlerAt

\* One step of a closing goroutine keeps its program counter well typed.
LEMMA CloserAtType ==
  ASSUME TypeOK, NEW c \in Conns, NEW from, NEW to \in CloserStates,
         CloserAt(c, from, to)
  PROVE  closer' \in [Conns -> CloserStates]
BY DEF TypeOK, CloserAt

\* The accepted channel holds at most one connection.
LEMMA AcceptedShort ==
  ASSUME TypeOK
  PROVE  /\ Len(accepted) = 0 \/ Len(accepted) = 1
         /\ accepted # <<>> => Len(accepted) = 1
<1>1. Len(accepted) = 0 \/ Len(accepted) = 1
  <2>1. Len(accepted) \in Nat /\ Len(accepted) <= 1
    BY LenProperties DEF TypeOK
  <2>2. \A n \in Nat : n <= 1 => n = 0 \/ n = 1
    OBVIOUS
  <2> QED
    BY <2>1, <2>2
<1>2. accepted # <<>> => Len(accepted) # 0
  BY EmptySeq DEF TypeOK
<1> QED
  BY <1>1, <1>2

\* A send into the empty channel leaves exactly the connection sent.
LEMMA AcceptedSend ==
  ASSUME TypeOK, NEW c \in Conns, Len(accepted) < AcceptedCap
  PROVE  /\ Append(accepted, c) \in Seq(Conns)
         /\ Len(Append(accepted, c)) = 1
         /\ Append(accepted, c)[1] = c
<1>1. Len(accepted) = 0
  BY AcceptedShort
<1> QED
  BY <1>1, AppendProperties DEF TypeOK

\* A receive takes the one connection and leaves the channel empty.
LEMMA AcceptedReceive ==
  ASSUME TypeOK, accepted # <<>>
  PROVE  /\ Head(accepted) \in Conns
         /\ Head(accepted) = accepted[1]
         /\ Tail(accepted) \in Seq(Conns)
         /\ Len(Tail(accepted)) = 0
<1>1. Len(accepted) = 1
  BY AcceptedShort
<1> QED
  BY <1>1, HeadTailProperties DEF TypeOK

\* The goroutine in WaitConnection holds a connection exactly while it checks
\* it or serves it.
HeldWhileServing == consumer \in {"checking", "serving"} <=> held # NoConn

\* The consumer holds a connection exactly while it looks at one or serves it,
\* after every step too.
LEMMA HeldStep == TypeOK /\ HeldWhileServing /\ [Next]_wsVars => HeldWhileServing'
<1> SUFFICES ASSUME TypeOK, HeldWhileServing, [Next]_wsVars
             PROVE  HeldWhileServing'
  OBVIOUS
<1>1. CASE UNCHANGED consumerVars
  BY <1>1 DEF HeldWhileServing, consumerVars
<1>2. CASE TakeAccepted
  <2>1. held' \in Conns
    BY <1>2, AcceptedReceive DEF TakeAccepted
  <2> QED
    BY <1>2, <2>1, ConnsAssumption DEF HeldWhileServing, TakeAccepted, ConsumerAt
<1>3. CASE WaitConnection \/ SkipStale \/ ReturnConnection \/ WaitCancelled \/ SessionEnds
  BY <1>3 DEF HeldWhileServing, WaitConnection, SkipStale, ReturnConnection,
              WaitCancelled, SessionEnds, ConsumerAt
<1>4. UNCHANGED consumerVars \/ ConsumerStep
  BY DEF Next, wsVars, HandlerStep, CloserStep, CloseStep, consumerVars,
         Upgrade, RejectBusy, Admit, AnnounceUp, Offer, OfferFull, HangUp,
         CloseSocket, Clear, CallOnDisc, ReturnOnDisc, AnnounceDown, SessionCloses,
         OnDisconnect, Cancel, StopListening, ReadActive, CloseActive, CloseHTTP
<1> QED
  BY <1>1, <1>2, <1>3, <1>4 DEF ConsumerStep

\* Every step of the server keeps TypeOK.
LEMMA TypeStep == TypeOK /\ HeldWhileServing /\ [Next]_wsVars => TypeOK'
<1> SUFFICES ASSUME TypeOK, HeldWhileServing, [Next]_wsVars
             PROVE  TypeOK'
  OBVIOUS
<1> USE DEF connVars, slotVars, shutdownVars, consumerVars
<1>1. ASSUME NEW c \in Conns,
             Upgrade(c) \/ RejectBusy(c) \/ AnnounceUp(c) \/ Admit(c)
      PROVE  TypeOK'
  <2>1. handler' \in [Conns -> HandlerStates]
    BY <1>1, HandlerAtType DEF HandlerStates, Upgrade, RejectBusy, AnnounceUp, Admit
  <2>2. CASE Upgrade(c) \/ RejectBusy(c)
    BY <2>1, <2>2 DEF TypeOK, Upgrade, RejectBusy
  <2>3. CASE AnnounceUp(c)
    BY <2>1, <2>3 DEF TypeOK, AnnounceUp
  <2>4. CASE Admit(c)
    BY <2>1, <2>4 DEF TypeOK, Admit
  <2> QED
    BY <1>1, <2>2, <2>3, <2>4
<1>2. ASSUME NEW c \in Conns, Offer(c)
      PROVE  TypeOK'
  <2>1. handler' \in [Conns -> HandlerStates]
    BY <1>2, HandlerAtType DEF HandlerStates, Offer
  <2>2. accepted' \in Seq(Conns) /\ Len(accepted') <= AcceptedCap
    BY <1>2, AcceptedSend DEF Offer
  <2> QED
    BY <1>2, <2>1, <2>2 DEF TypeOK, Offer
<1>3. ASSUME NEW c \in Conns, OfferFull(c)
      PROVE  TypeOK'
  <2>1. handler' \in [Conns -> HandlerStates]
    BY <1>3, HandlerAtType DEF HandlerStates, OfferFull
  <2>2. closer' \in [Conns -> CloserStates] /\ closed' \subseteq Conns
    BY <1>3, StartCloseType DEF OfferFull
  <2> QED
    <3>1. UNCHANGED <<slotVars, accepted, onDisc, shutdownVars, consumerVars>>
      BY <1>3 DEF OfferFull
    <3> QED
      BY <2>1, <2>2, <3>1 DEF TypeOK
<1>4. ASSUME NEW c \in Conns, HangUp(c)
      PROVE  TypeOK'
  BY <1>4, StartCloseType DEF TypeOK, HangUp
<1>5. ASSUME NEW c \in Conns,
             CloseSocket(c) \/ CallOnDisc(c) \/ ReturnOnDisc(c) \/ AnnounceDown(c)
      PROVE  TypeOK'
  <2>1. closer' \in [Conns -> CloserStates]
    BY <1>5, CloserAtType
    DEF CloserStates, CloseSocket, CallOnDisc, ReturnOnDisc, AnnounceDown
  <2>2. /\ reported' \in BOOLEAN
        /\ UNCHANGED <<handler, closed, active, live, accepted, onDisc, shutdownVars,
                       consumerVars>>
    BY <1>5 DEF TypeOK, CloseSocket, CallOnDisc, ReturnOnDisc, AnnounceDown
  <2> QED
    BY <2>1, <2>2 DEF TypeOK
<1>6. ASSUME NEW c \in Conns, Clear(c)
      PROVE  TypeOK'
  <2>1. closer' \in [Conns -> CloserStates]
    BY <1>6, CloserAtType DEF CloserStates, Clear, TypeOK
  <2>2. closed' \subseteq Conns
    BY <1>6 DEF Clear, TypeOK
  <2> QED
    BY <1>6, <2>1, <2>2 DEF TypeOK, Clear
<1>7. ASSUME TakeAccepted
      PROVE  TypeOK'
  BY <1>7, AcceptedReceive DEF TypeOK, TakeAccepted, ConsumerAt
<1>8. ASSUME WaitConnection \/ SkipStale \/ ReturnConnection \/ WaitCancelled \/ SessionEnds
      PROVE  TypeOK'
  BY <1>8 DEF TypeOK, ConsumerAt, WaitConnection, SkipStale, ReturnConnection,
              WaitCancelled, SessionEnds
<1>9. ASSUME OnDisconnect \/ Cancel \/ StopListening \/ ReadActive \/ CloseHTTP
      PROVE  TypeOK'
  BY <1>9 DEF TypeOK, OnDisconnect, Cancel, StopListening, ReadActive, CloseHTTP
<1>10. ASSUME SessionCloses
       PROVE  TypeOK'
  <2>1. held \in Conns
    BY <1>10 DEF TypeOK, HeldWhileServing, SessionCloses
  <2> QED
    BY <1>10, <2>1, StartCloseType DEF TypeOK, SessionCloses
<1>11. ASSUME CloseActive
       PROVE  TypeOK'
  BY <1>11, StartCloseType DEF TypeOK, CloseActive
<1>12. CASE UNCHANGED wsVars
  BY <1>12 DEF TypeOK, wsVars
<1> QED
  BY <1>1, <1>2, <1>3, <1>4, <1>5, <1>6, <1>7, <1>8, <1>9, <1>10, <1>11, <1>12
  DEF Next, HandlerStep, CloserStep, ConsumerStep, CloseStep

\* The initial state is well typed and the consumer holds nothing.
LEMMA TypeInit == Init => TypeOK /\ HeldWhileServing
<1> SUFFICES ASSUME Init
             PROVE  TypeOK /\ HeldWhileServing
  OBVIOUS
<1>1. accepted \in Seq(Conns) /\ Len(accepted) <= AcceptedCap
  <2>1. Len(<<>>) = 0 /\ <<>> \in Seq(Conns)
    BY EmptySeq
  <2> QED
    BY <2>1 DEF Init
<1>2. TypeOK
  BY <1>1 DEF Init, TypeOK, HandlerStates, CloserStates
<1>3. HeldWhileServing
  BY DEF Init, HeldWhileServing
<1> QED
  BY <1>2, <1>3

\* Every reachable state of the server is well typed.
THEOREM TypeCorrect == Spec => []TypeOK
<1>1. Init => TypeOK /\ HeldWhileServing
  BY TypeInit
<1>2. TypeOK /\ HeldWhileServing /\ [Next]_wsVars => (TypeOK /\ HeldWhileServing)'
  BY TypeStep, HeldStep
<1> QED
  BY <1>1, <1>2, PTL DEF Spec

-----------------------------------------------------------------------------
(* The inductive invariant                                                 *)
(*                                                                         *)
(* SlotOwnership is not inductive alone: a step of Close must be known to  *)
(* concern an admitted connection, and to be the first one for it.  The    *)
(* callers of Close get their connection from the handler, the queue, the  *)
(* consumer or Server.Close, so the invariant follows it there.            *)

\* `closed` is exactly the set of connections on which Close was called, and
\* only admitted connections are closed.
CloseBegun ==
  \A c \in Conns : /\ c \in closed <=> closer[c] # "open"
                   /\ closer[c] # "open" => Admitted(c)

\* What the queue, the consumer and Server.Close refer to.
HeldAdmitted ==
  /\ held # NoConn => handler[held] = "returned"
  /\ closeTarget # NoConn => Admitted(closeTarget)
QueueAdmitted ==
  accepted # <<>> => handler[accepted[1]] = "returned" /\ accepted[1] # held

IInv == TypeOK /\ HeldWhileServing /\ SlotOwnership /\ CloseBegun
        /\ HeldAdmitted /\ QueueAdmitted

\* The inductive invariant holds before the first request.
LEMMA IInvInit == Init => IInv
<1> SUFFICES ASSUME Init
             PROVE  IInv
  OBVIOUS
<1>1. TypeOK /\ HeldWhileServing
  BY TypeInit
<1>2. \A c \in Conns : ~Admitted(c) /\ closer[c] = "open" /\ active # c /\ c \notin closed
  BY ConnsAssumption DEF Init, Admitted
<1>3. SlotOwnership /\ CloseBegun
  BY <1>2 DEF Init, SlotOwnership, CloseBegun
<1>4. HeldAdmitted /\ QueueAdmitted
  BY DEF Init, HeldAdmitted, QueueAdmitted
<1> QED
  BY <1>1, <1>3, <1>4 DEF IInv

\* Closing an admitted connection keeps ownership and CloseBegun, and never
\* moves the slot.
LEMMA StartCloseStep ==
  ASSUME IInv, NEW c \in Conns, StartClose(c),
         UNCHANGED slotVars, Admitted(c)',
         \A d \in Conns : Admitted(d)' <=> Admitted(d)
  PROVE  SlotOwnership' /\ CloseBegun'
<1> USE DEF IInv, TypeOK
<1>1. \A d \in Conns :
        closer'[d] = IF d = c /\ closer[c] = "open" THEN "signalled" ELSE closer[d]
  BY DEF StartClose
<1>2. closed' = closed \cup {c}
  BY DEF StartClose
<1>3. SlotOwnership'
  BY <1>1 DEF SlotOwnership, slotVars
<1>4. CloseBegun'
  BY <1>1, <1>2 DEF CloseBegun
<1> QED
  BY <1>3, <1>4

\* A step of a handler that stays on the same side of Admitted.
LEMMA HandlerMoves ==
  ASSUME TypeOK, NEW c \in Conns, NEW from, NEW to, HandlerAt(c, from, to)
  PROVE  /\ handler[c] = from /\ handler'[c] = to
         /\ \A d \in Conns : d # c => handler'[d] = handler[d]
BY DEF TypeOK, HandlerAt

\* A step of a closing goroutine moves that connection's Close and no other.
LEMMA CloserMoves ==
  ASSUME TypeOK, NEW c \in Conns, NEW from, NEW to, CloserAt(c, from, to)
  PROVE  /\ closer[c] = from /\ closer'[c] = to
         /\ \A d \in Conns : d # c => closer'[d] = closer[d]
BY DEF TypeOK, CloserAt

\* Who owns the slot, and which connections Close was called on, after a step.
LEMMA OwnershipStep == IInv /\ TypeOK' /\ [Next]_wsVars => SlotOwnership' /\ CloseBegun'
<1> SUFFICES ASSUME IInv, TypeOK', [Next]_wsVars
             PROVE  SlotOwnership' /\ CloseBegun'
  OBVIOUS
<1> USE DEF IInv
<1>1. ASSUME NEW c \in Conns, Upgrade(c) \/ RejectBusy(c) \/ AnnounceUp(c) \/ Offer(c)
      PROVE  SlotOwnership' /\ CloseBegun'
  <2>1. /\ \A d \in Conns : Admitted(d)' <=> Admitted(d)
        /\ UNCHANGED <<closer, closed, active, live>>
    BY <1>1, HandlerMoves DEF Upgrade, RejectBusy, AnnounceUp, Offer, Admitted, slotVars
  <2> QED
    BY <2>1 DEF SlotOwnership, CloseBegun
<1>2. ASSUME NEW c \in Conns, Admit(c)
      PROVE  SlotOwnership' /\ CloseBegun'
  <2>1. /\ active = NoConn /\ active' = c /\ live' /\ UNCHANGED <<closer, closed>>
        /\ ~Admitted(c) /\ Admitted(c)'
        /\ \A d \in Conns : d # c => (Admitted(d)' <=> Admitted(d))
    BY <1>2, HandlerMoves DEF Admit, Admitted
  <2>2. closer[c] = "open"
    <3>1. closer[c] # "open" => Admitted(c)
      BY DEF CloseBegun
    <3> QED
      BY <2>1, <3>1
  <2> QED
    BY <2>1, <2>2, ConnsAssumption DEF SlotOwnership, CloseBegun
<1>3. ASSUME NEW c \in Conns, OfferFull(c)
      PROVE  SlotOwnership' /\ CloseBegun'
  <2>1. Admitted(c)' /\ \A d \in Conns : Admitted(d)' <=> Admitted(d)
    BY <1>3, HandlerMoves DEF OfferFull, Admitted
  <2> QED
    BY <1>3, <2>1, StartCloseStep DEF OfferFull
<1>4. ASSUME NEW c \in Conns, HangUp(c)
      PROVE  SlotOwnership' /\ CloseBegun'
  BY <1>4, StartCloseStep DEF HangUp, Admitted
<1>5. ASSUME NEW c \in Conns,
             CloseSocket(c) \/ CallOnDisc(c) \/ ReturnOnDisc(c) \/ AnnounceDown(c)
      PROVE  SlotOwnership' /\ CloseBegun'
  <2>1. /\ UNCHANGED <<handler, closed, active, live>>
        /\ closer[c] # "open" /\ closer'[c] # "open"
        /\ closer[c] \in {"open", "signalled", "clear"}
             <=> closer'[c] \in {"open", "signalled", "clear"}
        /\ \A d \in Conns : d # c => closer'[d] = closer[d]
    BY <1>5, CloserMoves
    DEF CloseSocket, CallOnDisc, ReturnOnDisc, AnnounceDown, slotVars
  <2> QED
    BY <2>1 DEF SlotOwnership, CloseBegun, Admitted
<1>6. ASSUME NEW c \in Conns, Clear(c)
      PROVE  SlotOwnership' /\ CloseBegun'
  <2>1. closer[c] = "clear" /\ closer'[c] \in {"done", "onDisc", "onChange"}
    BY <1>6, CloserMoves DEF Clear, TypeOK
  <2>2. /\ active' = NoConn /\ live' = FALSE /\ UNCHANGED handler
        /\ \A d \in Conns : d # c => closer'[d] = closer[d]
    BY <1>6, CloserMoves DEF Clear
  <2>3. active = c
    <3>1. /\ closer[c] # "open" => Admitted(c)
          /\ Admitted(c) /\ closer[c] \in {"open", "signalled", "clear"} => active = c
      BY DEF SlotOwnership, CloseBegun
    <3> QED
      BY <2>1, <3>1
  <2>4. closed' = closed
    <3>1. closer[c] # "open" => c \in closed
      BY DEF CloseBegun
    <3> QED
      BY <1>6, <2>1, <2>3, <3>1 DEF Clear
  <2> QED
    BY <2>1, <2>2, <2>3, <2>4, ConnsAssumption DEF SlotOwnership, CloseBegun, Admitted
<1>7. ASSUME SessionCloses
      PROVE  SlotOwnership' /\ CloseBegun'
  <2>1. held \in Conns /\ Admitted(held)
    BY <1>7 DEF SessionCloses, HeldWhileServing, HeldAdmitted, Admitted, TypeOK
  <2> QED
    BY <1>7, <2>1, StartCloseStep DEF SessionCloses, Admitted
<1>8. ASSUME CloseActive
      PROVE  SlotOwnership' /\ CloseBegun'
  <2>1. closeTarget \in Conns /\ Admitted(closeTarget)
    BY <1>8 DEF CloseActive, HeldAdmitted, TypeOK
  <2> QED
    BY <1>8, <2>1, StartCloseStep DEF CloseActive, Admitted
<1>9. CASE UNCHANGED <<connVars, active, live>>
  BY <1>9 DEF SlotOwnership, CloseBegun, Admitted, connVars
<1>10. ASSUME ConsumerStep \/ OnDisconnect \/ Cancel \/ StopListening \/ ReadActive
              \/ CloseHTTP \/ UNCHANGED wsVars
       PROVE  UNCHANGED <<connVars, active, live>>
  BY <1>10 DEF ConsumerStep, WaitConnection, TakeAccepted, SkipStale, ReturnConnection,
     WaitCancelled, SessionEnds, OnDisconnect, Cancel, StopListening, ReadActive,
     CloseHTTP, wsVars, slotVars
<1> QED
  BY <1>1, <1>2, <1>3, <1>4, <1>5, <1>6, <1>7, <1>8, <1>9, <1>10
  DEF Next, HandlerStep, CloserStep, CloseStep

\* A step of a handler never leaves "returned" or un-admits a connection.
LEMMA HandlersAdvance ==
  ASSUME TypeOK, [Next]_wsVars, NEW c \in Conns
  PROVE  /\ handler[c] = "returned" => handler'[c] = "returned"
         /\ Admitted(c) => Admitted(c)'
<1>1. ASSUME NEW d \in Conns,
             Upgrade(d) \/ RejectBusy(d) \/ Admit(d) \/ AnnounceUp(d) \/ Offer(d) \/ OfferFull(d)
      PROVE  /\ handler[c] = "returned" => handler'[c] = "returned"
             /\ Admitted(c) => Admitted(c)'
  BY <1>1, HandlerMoves
  DEF Upgrade, RejectBusy, Admit, AnnounceUp, Offer, OfferFull, Admitted
<1>2. CASE UNCHANGED handler
  BY <1>2 DEF Admitted
<1>3. ASSUME \/ \E d \in Conns : HangUp(d) \/ CloserStep(d)
             \/ ConsumerStep \/ SessionCloses \/ OnDisconnect \/ Cancel
             \/ StopListening \/ ReadActive \/ CloseStep \/ UNCHANGED wsVars
      PROVE  UNCHANGED handler
  BY <1>3 DEF HangUp, CloserStep, CloseSocket, Clear, CallOnDisc, ReturnOnDisc,
     AnnounceDown, ConsumerStep, WaitConnection, TakeAccepted, SkipStale,
     ReturnConnection, WaitCancelled, SessionEnds, SessionCloses, OnDisconnect, Cancel,
     StopListening, ReadActive, CloseStep, CloseActive, CloseHTTP, wsVars, connVars
<1> QED
  BY <1>1, <1>2, <1>3 DEF Next, HandlerStep

\* The queue, the consumer and Server.Close refer to admitted connections.
LEMMA HandoverStep == IInv /\ TypeOK' /\ [Next]_wsVars => HeldAdmitted' /\ QueueAdmitted'
<1> SUFFICES ASSUME IInv, TypeOK', [Next]_wsVars
             PROVE  HeldAdmitted' /\ QueueAdmitted'
  OBVIOUS
<1> USE DEF IInv
<1>h. held \in Conns \cup {NoConn} /\ closeTarget \in Conns \cup {NoConn}
  BY DEF TypeOK
<1>q. accepted # <<>> => accepted[1] \in Conns /\ accepted[1] # NoConn
  BY AcceptedReceive, ConnsAssumption
<1>1. CASE UNCHANGED <<held, closeTarget, accepted>>
  BY <1>1, <1>h, <1>q, HandlersAdvance DEF HeldAdmitted, QueueAdmitted
<1>2. ASSUME NEW c \in Conns, Offer(c)
      PROVE  HeldAdmitted' /\ QueueAdmitted'
  <2>1. Len(accepted) < AcceptedCap /\ accepted' = Append(accepted, c)
    BY <1>2 DEF Offer
  <2>2. accepted'[1] = c /\ handler[c] = "offer" /\ handler'[c] = "returned"
    BY <1>2, <2>1, AcceptedSend, HandlerMoves DEF Offer
  <2>3. UNCHANGED <<held, closeTarget>>
    BY <1>2 DEF Offer, consumerVars, shutdownVars
  <2>4. held # c
    BY <2>2, ConnsAssumption DEF HeldAdmitted
  <2> QED
    BY <1>h, <2>2, <2>3, <2>4, HandlersAdvance DEF HeldAdmitted, QueueAdmitted
<1>3. ASSUME TakeAccepted
      PROVE  HeldAdmitted' /\ QueueAdmitted'
  <2>1. /\ accepted # <<>> /\ held' = accepted[1] /\ accepted' = Tail(accepted)
        /\ UNCHANGED <<handler, closeTarget>>
    BY <1>3, AcceptedReceive DEF TakeAccepted, connVars, shutdownVars
  <2>2. Len(accepted') = 0
    BY <2>1, AcceptedReceive
  <2>3. accepted' = <<>>
    BY <2>2, EmptySeq DEF TypeOK
  <2> QED
    BY <2>1, <2>3 DEF HeldAdmitted, QueueAdmitted, Admitted
<1>4. ASSUME SkipStale \/ SessionEnds
      PROVE  HeldAdmitted' /\ QueueAdmitted'
  <2>1. held' = NoConn /\ UNCHANGED <<handler, closeTarget, accepted>>
    BY <1>4 DEF SkipStale, SessionEnds, connVars, shutdownVars
  <2> QED
    BY <1>q, <2>1 DEF HeldAdmitted, QueueAdmitted, Admitted
<1>5. ASSUME ReadActive
      PROVE  HeldAdmitted' /\ QueueAdmitted'
  <2>1. closeTarget' = active /\ UNCHANGED <<handler, held, accepted>>
    BY <1>5 DEF ReadActive, connVars, consumerVars
  <2>2. active # NoConn => Admitted(active)
    BY DEF SlotOwnership, TypeOK
  <2> QED
    BY <2>1, <2>2 DEF HeldAdmitted, QueueAdmitted, Admitted
<1>6. ASSUME \/ \E c \in Conns : \/ Upgrade(c) \/ RejectBusy(c) \/ Admit(c)
                                 \/ AnnounceUp(c) \/ OfferFull(c) \/ HangUp(c)
                                 \/ CloserStep(c)
             \/ WaitConnection \/ ReturnConnection \/ WaitCancelled \/ SessionCloses
             \/ OnDisconnect \/ Cancel \/ StopListening \/ CloseStep \/ UNCHANGED wsVars
      PROVE  UNCHANGED <<held, closeTarget, accepted>>
  BY <1>6 DEF Upgrade, RejectBusy, Admit, AnnounceUp, OfferFull, HangUp, CloserStep,
     CloseSocket, Clear, CallOnDisc, ReturnOnDisc, AnnounceDown, WaitConnection,
     ReturnConnection, WaitCancelled, SessionCloses, OnDisconnect, Cancel, StopListening,
     CloseStep, CloseActive, CloseHTTP, wsVars, consumerVars, shutdownVars
<1> QED
  BY <1>1, <1>2, <1>3, <1>4, <1>5, <1>6 DEF Next, HandlerStep, ConsumerStep

\* IInv is an inductive invariant of the server.
THEOREM Invariance == Spec => []IInv
<1>1. IInv /\ [Next]_wsVars => IInv'
  <2> SUFFICES ASSUME IInv, [Next]_wsVars
               PROVE  IInv'
    OBVIOUS
  <2>1. TypeOK' /\ HeldWhileServing'
    BY TypeStep, HeldStep DEF IInv
  <2> QED
    BY <2>1, OwnershipStep, HandoverStep DEF IInv
<1> QED
  BY IInvInit, <1>1, PTL DEF Spec

-----------------------------------------------------------------------------
(* What the server guarantees                                              *)

\* clearConnection can only clear the slot of the connection that called it
\* (server.go:256): the slot and the owner's Close always agree.
THEOREM SlotOwned == Spec => []SlotOwnership
BY Invariance, PTL DEF IInv

\* At most one browser connection is open at any time (README).
THEOREM OneBrowser == Spec => []OneBrowserAtATime
<1>1. IInv => OneBrowserAtATime
  BY DEF IInv, OneBrowserAtATime, CloseBegun, SlotOwnership
<1> QED
  BY Invariance, <1>1, PTL

\* WaitConnection hands each connection over at most once (server.go:144).
THEOREM HandedOverOnce == Spec => []HandoverOnce
<1>1. IInv => HandoverOnce
  <2> SUFFICES ASSUME IInv
               PROVE  HandoverOnce
    OBVIOUS
  <2>1. CASE Len(accepted) = 0
    BY <2>1 DEF HandoverOnce
  <2>2. CASE Len(accepted) = 1
    <3>1. accepted # <<>>
      BY <2>2, EmptySeq
    <3>2. \A i \in 1..Len(accepted) : i = 1
      BY <2>2
    <3> QED
      BY <3>1, <3>2 DEF IInv, QueueAdmitted, HandoverOnce
  <2> QED
    BY <2>1, <2>2, AcceptedShort DEF IInv
<1> QED
  BY Invariance, <1>1, PTL

-----------------------------------------------------------------------------
(* Refinement: the server implements the single slot of SessionSlot        *)

\* The abstract phase of a connection, one conjunct per phase.
LEMMA PhaseCases ==
  ASSUME TypeOK, NEW c \in Conns
  PROVE  /\ handler[c] \in {"idle", "upgraded"} => SlotPhase[c] = "away"
         /\ handler[c] = "busy" => SlotPhase[c] = "refused"
         /\ Admitted(c) /\ closer[c] \in {"open", "signalled", "clear"}
              => SlotPhase[c] = "owner"
         /\ Admitted(c) /\ closer[c] \notin {"open", "signalled", "clear"}
              => SlotPhase[c] = "left"
         /\ handler[c] \in {"idle", "upgraded", "busy"} \/ Admitted(c)
BY DEF TypeOK, HandlerStates, SlotPhase, Admitted

\* The same after a step.
LEMMA PhaseCasesPrime ==
  ASSUME TypeOK', NEW c \in Conns
  PROVE  /\ handler'[c] \in {"idle", "upgraded"} => SlotPhase'[c] = "away"
         /\ handler'[c] = "busy" => SlotPhase'[c] = "refused"
         /\ Admitted(c)' /\ closer'[c] \in {"open", "signalled", "clear"}
              => SlotPhase'[c] = "owner"
         /\ Admitted(c)' /\ closer'[c] \notin {"open", "signalled", "clear"}
              => SlotPhase'[c] = "left"
         /\ handler'[c] \in {"idle", "upgraded", "busy"} \/ Admitted(c)'
BY DEF TypeOK, HandlerStates, SlotPhase, Admitted

\* A step that changes the phase of one connection is an EXCEPT of SlotPhase.
LEMMA PhaseMoves ==
  ASSUME NEW c \in Conns, NEW p, SlotPhase'[c] = p,
         \A d \in Conns : d # c => SlotPhase'[d] = SlotPhase[d]
  PROVE  SlotPhase' = [SlotPhase EXCEPT ![c] = p]
<1>1. ASSUME NEW f, NEW g,
             f = [d \in Conns |-> f[d]], g = [d \in Conns |-> g[d]],
             g[c] = p, \A d \in Conns : d # c => g[d] = f[d]
      PROVE  g = [f EXCEPT ![c] = p]
  BY <1>1
<1>2. /\ SlotPhase = [d \in Conns |-> SlotPhase[d]]
      /\ SlotPhase' = [d \in Conns |-> SlotPhase'[d]]
  BY DEF SlotPhase
<1> QED
  BY <1>1, <1>2

\* A step that changes no phase and leaves the slot alone is a stutter.
LEMMA PhaseStutters ==
  ASSUME UNCHANGED active, \A d \in Conns : SlotPhase'[d] = SlotPhase[d]
  PROVE  UNCHANGED Slot!vars
<1>1. SlotPhase' = SlotPhase
  BY DEF SlotPhase
<1> QED
  BY <1>1 DEF Slot!vars

\* Calling Close on an admitted connection is not visible in SessionSlot.
LEMMA CloseStutters ==
  ASSUME IInv, TypeOK', NEW c \in Conns, StartClose(c), UNCHANGED active, Admitted(c),
         \A d \in Conns : Admitted(d)' <=> Admitted(d),
         \A d \in Conns : d # c \/ ~Admitted(d) => handler'[d] = handler[d]
  PROVE  UNCHANGED Slot!vars
<1>1. \A d \in Conns :
        closer'[d] = IF d = c /\ closer[c] = "open" THEN "signalled" ELSE closer[d]
  BY DEF StartClose, IInv, TypeOK
<1>2. ASSUME NEW d \in Conns
      PROVE  SlotPhase'[d] = SlotPhase[d]
  BY <1>1, PhaseCases, PhaseCasesPrime DEF IInv
<1> QED
  BY <1>2, PhaseStutters

\* Every step of the server is a step of SessionSlot or a stutter.
LEMMA SlotStep == IInv /\ IInv' /\ [Next]_wsVars => [Slot!Next]_(Slot!vars)
<1> SUFFICES ASSUME IInv, IInv', [Next]_wsVars
             PROVE  [Slot!Next]_(Slot!vars)
  OBVIOUS
<1>t. TypeOK /\ TypeOK'
  BY DEF IInv
<1>1. ASSUME NEW c \in Conns, Upgrade(c) \/ AnnounceUp(c) \/ Offer(c)
      PROVE  UNCHANGED Slot!vars
  <2>1. /\ UNCHANGED <<closer, active>>
        /\ \A d \in Conns : d # c => handler'[d] = handler[d]
        /\ \/ handler[c] = "idle" /\ handler'[c] = "upgraded"
           \/ Admitted(c) /\ Admitted(c)'
    BY <1>1, <1>t, HandlerMoves DEF Upgrade, AnnounceUp, Offer, Admitted, slotVars
  <2>2. ASSUME NEW d \in Conns
        PROVE  SlotPhase'[d] = SlotPhase[d]
    BY <2>1, <1>t, PhaseCases, PhaseCasesPrime DEF Admitted
  <2> QED
    BY <2>1, <2>2, PhaseStutters
<1>2. ASSUME NEW c \in Conns, RejectBusy(c)
      PROVE  Slot!Refuse(c)
  <2>1. /\ UNCHANGED <<closer, active>> /\ active # NoConn
        /\ \A d \in Conns : d # c => handler'[d] = handler[d]
        /\ handler[c] = "upgraded" /\ handler'[c] = "busy"
    BY <1>2, <1>t, HandlerMoves DEF RejectBusy, slotVars
  <2>2. ASSUME NEW d \in Conns, d # c
        PROVE  SlotPhase'[d] = SlotPhase[d]
    BY <2>1, <2>2, <1>t, PhaseCases, PhaseCasesPrime DEF Admitted
  <2>3. SlotPhase[c] = "away" /\ SlotPhase'[c] = "refused"
    BY <2>1, <1>t, PhaseCases, PhaseCasesPrime
  <2> QED
    BY <2>1, <2>2, <2>3, PhaseMoves DEF Slot!Refuse
<1>3. ASSUME NEW c \in Conns, Admit(c)
      PROVE  Slot!Enter(c)
  <2>1. /\ UNCHANGED closer /\ active = NoConn /\ active' = c
        /\ \A d \in Conns : d # c => handler'[d] = handler[d]
        /\ handler[c] = "upgraded" /\ handler'[c] = "announce"
    BY <1>3, <1>t, HandlerMoves DEF Admit
  <2>2. ASSUME NEW d \in Conns, d # c
        PROVE  SlotPhase'[d] = SlotPhase[d]
    BY <2>1, <2>2, <1>t, PhaseCases, PhaseCasesPrime DEF Admitted
  <2>3. SlotPhase[c] = "away"
    BY <2>1, <1>t, PhaseCases
  <2>4. Admitted(c)' /\ closer'[c] \in {"open", "signalled", "clear"}
    BY <2>1 DEF IInv, SlotOwnership
  <2>5. SlotPhase'[c] = "owner"
    BY <2>4, <1>t, PhaseCasesPrime
  <2> QED
    BY <2>1, <2>2, <2>3, <2>5, PhaseMoves DEF Slot!Enter
<1>4. ASSUME NEW c \in Conns, OfferFull(c)
      PROVE  UNCHANGED Slot!vars
  <2>1. /\ Admitted(c) /\ Admitted(c)' /\ UNCHANGED active
        /\ \A d \in Conns : d # c => handler'[d] = handler[d]
    BY <1>4, <1>t, HandlerMoves DEF OfferFull, Admitted, slotVars
  <2> QED
    BY <1>4, <2>1, <1>t, CloseStutters DEF OfferFull, Admitted
<1>5. ASSUME NEW c \in Conns, HangUp(c)
      PROVE  UNCHANGED Slot!vars
  BY <1>5, <1>t, CloseStutters DEF HangUp, Admitted, slotVars
<1>6. ASSUME NEW c \in Conns,
             CloseSocket(c) \/ CallOnDisc(c) \/ ReturnOnDisc(c) \/ AnnounceDown(c)
      PROVE  UNCHANGED Slot!vars
  <2>1. /\ UNCHANGED <<handler, active>>
        /\ closer[c] \in {"open", "signalled", "clear"}
             <=> closer'[c] \in {"open", "signalled", "clear"}
        /\ \A d \in Conns : d # c => closer'[d] = closer[d]
    BY <1>6, <1>t, CloserMoves
    DEF CloseSocket, CallOnDisc, ReturnOnDisc, AnnounceDown, slotVars
  <2>2. ASSUME NEW d \in Conns
        PROVE  SlotPhase'[d] = SlotPhase[d]
    BY <2>1, <1>t, PhaseCases, PhaseCasesPrime DEF Admitted
  <2> QED
    BY <2>1, <2>2, PhaseStutters
<1>7. ASSUME NEW c \in Conns, Clear(c)
      PROVE  Slot!Leave(c)
  <2>1. /\ UNCHANGED handler /\ active' = NoConn
        /\ \A d \in Conns : d # c => closer'[d] = closer[d]
        /\ closer[c] = "clear" /\ closer'[c] \in {"done", "onDisc", "onChange"}
    BY <1>7, <1>t, CloserMoves DEF Clear, TypeOK
  <2>2. Admitted(c) /\ active = c
    BY <2>1 DEF IInv, SlotOwnership, CloseBegun
  <2>3. ASSUME NEW d \in Conns, d # c
        PROVE  SlotPhase'[d] = SlotPhase[d]
    BY <2>1, <2>3, <1>t, PhaseCases, PhaseCasesPrime DEF Admitted
  <2>4. SlotPhase[c] = "owner" /\ SlotPhase'[c] = "left"
    BY <2>1, <2>2, <1>t, PhaseCases, PhaseCasesPrime DEF Admitted
  <2> QED
    BY <2>1, <2>2, <2>3, <2>4, PhaseMoves DEF Slot!Leave
<1>8. ASSUME SessionCloses
      PROVE  UNCHANGED Slot!vars
  <2>1. held \in Conns /\ Admitted(held)
    BY <1>8 DEF SessionCloses, IInv, HeldWhileServing, HeldAdmitted, Admitted, TypeOK
  <2> QED
    BY <1>8, <2>1, <1>t, CloseStutters DEF SessionCloses, Admitted, slotVars
<1>9. ASSUME CloseActive
      PROVE  UNCHANGED Slot!vars
  <2>1. closeTarget \in Conns /\ Admitted(closeTarget)
    BY <1>9 DEF CloseActive, IInv, HeldAdmitted, TypeOK
  <2> QED
    BY <1>9, <2>1, <1>t, CloseStutters DEF CloseActive, Admitted, slotVars
<1>10. ASSUME ConsumerStep \/ OnDisconnect \/ Cancel \/ StopListening \/ ReadActive
              \/ CloseHTTP \/ UNCHANGED wsVars
       PROVE  UNCHANGED Slot!vars
  <2>1. UNCHANGED <<handler, closer, active>>
    BY <1>10 DEF ConsumerStep, WaitConnection, TakeAccepted, SkipStale, ReturnConnection,
       WaitCancelled, SessionEnds, OnDisconnect, Cancel, StopListening, ReadActive,
       CloseHTTP, wsVars, slotVars, connVars
  <2> QED
    BY <2>1, PhaseStutters DEF SlotPhase, Admitted
<1> QED
  BY <1>1, <1>2, <1>3, <1>4, <1>5, <1>6, <1>7, <1>8, <1>9, <1>10
  DEF Next, HandlerStep, CloserStep, CloseStep, Slot!Next

\* The server implements SessionSlot (server.go:212-276): each connection
\* enters an empty slot, is refused, or leaves its own slot, once.
THEOREM Refinement == Spec => ImplementsSlot
<1>1. Init => Slot!Init
  <2> SUFFICES ASSUME Init
               PROVE  Slot!Init
    OBVIOUS
  <2>1. \A c \in Conns : SlotPhase[c] = "away"
    BY TypeInit, PhaseCases DEF Init
  <2>2. SlotPhase = [c \in Conns |-> SlotPhase[c]]
    BY DEF SlotPhase
  <2>3. SlotPhase = [c \in Conns |-> "away"]
    BY <2>1, <2>2
  <2> QED
    BY <2>3 DEF Init, Slot!Init
<1> QED
  BY <1>1, SlotStep, Invariance, PTL DEF Spec, ImplementsSlot, Slot!Spec

-----------------------------------------------------------------------------
(* Refinement: what App.Run sees of the server is Presence                 *)

\* The connections whose OnConnectionChange callback is under way: announced
\* by their handler, or cleared by their Close.
Pending(connected) ==
  IF connected THEN {c \in Conns : handler[c] = "announce"}
               ELSE {c \in Conns : closer[c] \in {"onDisc", "inOnDisc", "onChange"}}

UnderWay == [connected \in BOOLEAN |-> Cardinality(Pending(connected))]

Seen == INSTANCE Presence WITH registered <- TRUE, callbacks <- UnderWay

\* However many browsers there may be, only finitely many callbacks are under way.
PendingFinite == \A connected \in BOOLEAN : IsFiniteSet(Pending(connected))

\* One more callback of one kind.
LEMMA CallbackStarts ==
  ASSUME NEW connected \in BOOLEAN, NEW c, PendingFinite,
         c \notin Pending(connected),
         Pending(connected)' = Pending(connected) \cup {c},
         Pending(~connected)' = Pending(~connected)
  PROVE  /\ PendingFinite'
         /\ UnderWay' = [UnderWay EXCEPT ![connected] = @ + 1]
<1>1. /\ IsFiniteSet(Pending(connected) \cup {c})
      /\ Cardinality(Pending(connected) \cup {c}) = Cardinality(Pending(connected)) + 1
  BY FS_AddElement DEF PendingFinite
<1>2. \A b \in BOOLEAN : b = connected \/ b = ~connected
  OBVIOUS
<1>3. PendingFinite'
  BY <1>1, <1>2 DEF PendingFinite
<1>4. UnderWay' = [UnderWay EXCEPT ![connected] = @ + 1]
  BY <1>1, <1>2 DEF UnderWay
<1> QED
  BY <1>3, <1>4

\* One callback of one kind returns.
LEMMA CallbackEnds ==
  ASSUME NEW connected \in BOOLEAN, NEW c, PendingFinite,
         c \in Pending(connected),
         Pending(connected)' = Pending(connected) \ {c},
         Pending(~connected)' = Pending(~connected)
  PROVE  /\ PendingFinite'
         /\ UnderWay[connected] > 0
         /\ UnderWay' = [UnderWay EXCEPT ![connected] = @ - 1]
<1>1. /\ IsFiniteSet(Pending(connected) \ {c})
      /\ Cardinality(Pending(connected) \ {c}) = Cardinality(Pending(connected)) - 1
  BY FS_RemoveElement DEF PendingFinite
<1>2. \A b \in BOOLEAN : b = connected \/ b = ~connected
  OBVIOUS
<1>3. PendingFinite'
  BY <1>1, <1>2 DEF PendingFinite
<1>4. UnderWay' = [UnderWay EXCEPT ![connected] = @ - 1]
  BY <1>1, <1>2 DEF UnderWay
<1>5. UnderWay[connected] > 0
  <2>1. Cardinality(Pending(connected) \ {c}) \in Nat /\ Cardinality(Pending(connected)) \in Nat
    BY <1>1, FS_CardinalityType DEF PendingFinite
  <2> QED
    BY <1>1, <2>1 DEF UnderWay
<1> QED
  BY <1>3, <1>4, <1>5

\* No callback starts or returns.
LEMMA CallbacksKept ==
  ASSUME PendingFinite, \A connected \in BOOLEAN : Pending(connected)' = Pending(connected)
  PROVE  PendingFinite' /\ UNCHANGED UnderWay
BY DEF PendingFinite, UnderWay

\* A call of Close, first or not, runs no callback yet.
LEMMA CloseIsQuiet ==
  ASSUME TypeOK, NEW c \in Conns, StartClose(c),
         \A d \in Conns : handler'[d] = "announce" <=> handler[d] = "announce"
  PROVE  \A connected \in BOOLEAN : Pending(connected)' = Pending(connected)
<1>1. \A d \in Conns :
        closer'[d] = IF d = c /\ closer[c] = "open" THEN "signalled" ELSE closer[d]
  BY DEF StartClose, TypeOK
<1>2. Pending(TRUE)' = Pending(TRUE)
  BY DEF Pending
<1>3. Pending(FALSE)' = Pending(FALSE)
  BY <1>1 DEF Pending
<1> QED
  BY <1>2, <1>3

\* Every step of the server is a step of Presence or a stutter.
LEMMA PresenceStep ==
  IInv /\ PendingFinite /\ [Next]_wsVars
    => PendingFinite' /\ [Seen!PresenceNext]_(Seen!presenceVars)
<1> SUFFICES ASSUME IInv, PendingFinite, [Next]_wsVars
             PROVE  PendingFinite' /\ [Seen!PresenceNext]_(Seen!presenceVars)
  OBVIOUS
<1>t. TypeOK
  BY DEF IInv
<1>0. ASSUME UNCHANGED live, \A connected \in BOOLEAN : Pending(connected)' = Pending(connected)
      PROVE  PendingFinite' /\ UNCHANGED Seen!presenceVars
  BY <1>0, CallbacksKept DEF Seen!presenceVars
<1>1. ASSUME NEW c \in Conns, Admit(c)
      PROVE  PendingFinite' /\ Seen!Changes(TRUE)
  <2>1. /\ UNCHANGED closer /\ handler[c] = "upgraded" /\ handler'[c] = "announce"
        /\ \A d \in Conns : d # c => handler'[d] = handler[d]
    BY <1>1, <1>t, HandlerMoves DEF Admit
  <2>2. /\ c \notin Pending(TRUE) /\ Pending(TRUE)' = Pending(TRUE) \cup {c}
        /\ Pending(FALSE)' = Pending(FALSE)
    BY <2>1 DEF Pending
  <2>3. live = FALSE /\ live' = TRUE
    BY <1>1 DEF Admit, IInv, SlotOwnership, TypeOK
  <2>4. PendingFinite' /\ UnderWay' = [UnderWay EXCEPT ![TRUE] = @ + 1]
    BY <2>2, CallbackStarts
  <2> QED
    BY <2>3, <2>4 DEF Seen!Changes
<1>2. ASSUME NEW c \in Conns, AnnounceUp(c)
      PROVE  PendingFinite' /\ Seen!CallbackReturns(TRUE)
  <2>1. /\ UNCHANGED closer /\ handler[c] = "announce" /\ handler'[c] = "offer"
        /\ \A d \in Conns : d # c => handler'[d] = handler[d]
    BY <1>2, <1>t, HandlerMoves DEF AnnounceUp
  <2>2. /\ c \in Pending(TRUE) /\ Pending(TRUE)' = Pending(TRUE) \ {c}
        /\ Pending(FALSE)' = Pending(FALSE)
    BY <2>1 DEF Pending
  <2>3. /\ PendingFinite' /\ UnderWay[TRUE] > 0
        /\ UnderWay' = [UnderWay EXCEPT ![TRUE] = @ - 1]
    BY <2>2, CallbackEnds
  <2> QED
    BY <1>2, <2>3 DEF AnnounceUp, Seen!CallbackReturns
<1>3. ASSUME NEW c \in Conns, Clear(c)
      PROVE  PendingFinite' /\ Seen!Changes(FALSE)
  <2>1. Admitted(c) /\ active = c /\ closer[c] = "clear"
    BY <1>3, <1>t, CloserMoves DEF Clear, IInv, SlotOwnership, CloseBegun
  <2>2. live = TRUE /\ live' = FALSE
    BY <1>3, <2>1, ConnsAssumption DEF Clear, IInv, SlotOwnership, TypeOK
  <2>3. /\ UNCHANGED handler /\ closer'[c] \in {"onDisc", "onChange"}
        /\ \A d \in Conns : d # c => closer'[d] = closer[d]
    BY <1>3, <1>t, <2>2, CloserMoves DEF Clear, TypeOK
  <2>4. /\ c \notin Pending(FALSE) /\ Pending(FALSE)' = Pending(FALSE) \cup {c}
        /\ Pending(TRUE)' = Pending(TRUE)
    BY <2>1, <2>3 DEF Pending
  <2>5. PendingFinite' /\ UnderWay' = [UnderWay EXCEPT ![FALSE] = @ + 1]
    BY <2>4, CallbackStarts
  <2> QED
    BY <2>2, <2>5 DEF Seen!Changes
<1>4. ASSUME NEW c \in Conns, AnnounceDown(c)
      PROVE  PendingFinite' /\ Seen!CallbackReturns(FALSE)
  <2>1. /\ UNCHANGED handler /\ closer[c] = "onChange" /\ closer'[c] = "done"
        /\ \A d \in Conns : d # c => closer'[d] = closer[d]
    BY <1>4, <1>t, CloserMoves DEF AnnounceDown
  <2>2. /\ c \in Pending(FALSE) /\ Pending(FALSE)' = Pending(FALSE) \ {c}
        /\ Pending(TRUE)' = Pending(TRUE)
    BY <2>1 DEF Pending
  <2>3. /\ PendingFinite' /\ UnderWay[FALSE] > 0
        /\ UnderWay' = [UnderWay EXCEPT ![FALSE] = @ - 1]
    BY <2>2, CallbackEnds
  <2> QED
    BY <1>4, <2>3 DEF AnnounceDown, Seen!CallbackReturns
<1>5. ASSUME NEW c \in Conns, Upgrade(c) \/ RejectBusy(c) \/ Offer(c)
      PROVE  PendingFinite' /\ UNCHANGED Seen!presenceVars
  <2>1. /\ UNCHANGED <<closer, live>>
        /\ handler[c] # "announce" /\ handler'[c] # "announce"
        /\ \A d \in Conns : d # c => handler'[d] = handler[d]
    BY <1>5, <1>t, HandlerMoves DEF Upgrade, RejectBusy, Offer, slotVars
  <2>2. Pending(TRUE)' = Pending(TRUE) /\ Pending(FALSE)' = Pending(FALSE)
    BY <2>1 DEF Pending
  <2> QED
    BY <1>0, <2>1, <2>2
<1>6. ASSUME NEW c \in Conns, CloseSocket(c) \/ CallOnDisc(c) \/ ReturnOnDisc(c)
      PROVE  PendingFinite' /\ UNCHANGED Seen!presenceVars
  <2>1. /\ UNCHANGED <<handler, live>>
        /\ closer[c] \in {"onDisc", "inOnDisc", "onChange"}
             <=> closer'[c] \in {"onDisc", "inOnDisc", "onChange"}
        /\ \A d \in Conns : d # c => closer'[d] = closer[d]
    BY <1>6, <1>t, CloserMoves DEF CloseSocket, CallOnDisc, ReturnOnDisc, slotVars
  <2>2. Pending(TRUE)' = Pending(TRUE) /\ Pending(FALSE)' = Pending(FALSE)
    BY <2>1 DEF Pending
  <2> QED
    BY <1>0, <2>1, <2>2
<1>7. ASSUME NEW c \in Conns, OfferFull(c)
      PROVE  PendingFinite' /\ UNCHANGED Seen!presenceVars
  <2>1. \A d \in Conns : handler'[d] = "announce" <=> handler[d] = "announce"
    BY <1>7, <1>t, HandlerMoves DEF OfferFull
  <2> QED
    BY <1>0, <1>7, <1>t, <2>1, CloseIsQuiet DEF OfferFull, slotVars
<1>8. ASSUME NEW c \in Conns, HangUp(c)
      PROVE  PendingFinite' /\ UNCHANGED Seen!presenceVars
  BY <1>0, <1>8, <1>t, CloseIsQuiet DEF HangUp, slotVars
<1>9. ASSUME SessionCloses
      PROVE  PendingFinite' /\ UNCHANGED Seen!presenceVars
  <2>1. held \in Conns
    BY <1>9 DEF SessionCloses, IInv, HeldWhileServing, TypeOK
  <2> QED
    BY <1>0, <1>9, <1>t, <2>1, CloseIsQuiet DEF SessionCloses, slotVars
<1>10. ASSUME CloseActive
       PROVE  PendingFinite' /\ UNCHANGED Seen!presenceVars
  <2>1. closeTarget \in Conns
    BY <1>10, <1>t DEF CloseActive, TypeOK
  <2> QED
    BY <1>0, <1>10, <1>t, <2>1, CloseIsQuiet DEF CloseActive, slotVars
<1>11. ASSUME ConsumerStep \/ OnDisconnect \/ Cancel \/ StopListening \/ ReadActive
              \/ CloseHTTP \/ UNCHANGED wsVars
       PROVE  PendingFinite' /\ UNCHANGED Seen!presenceVars
  <2>1. UNCHANGED <<handler, closer, live>>
    BY <1>11 DEF ConsumerStep, WaitConnection, TakeAccepted, SkipStale, ReturnConnection,
       WaitCancelled, SessionEnds, OnDisconnect, Cancel, StopListening, ReadActive,
       CloseHTTP, wsVars, slotVars, connVars
  <2>2. Pending(TRUE)' = Pending(TRUE) /\ Pending(FALSE)' = Pending(FALSE)
    BY <2>1 DEF Pending
  <2> QED
    BY <1>0, <2>1, <2>2
<1> QED
  BY <1>1, <1>2, <1>3, <1>4, <1>5, <1>6, <1>7, <1>8, <1>9, <1>10, <1>11
  DEF Next, HandlerStep, CloserStep, CloseStep, Seen!PresenceNext

\* The server implements Presence (server.go:212-276): App.Run sees a browser
\* come and go by turns, with exactly one callback for each change, although
\* several connections are upgraded, announced and torn down at the same time.
THEOREM ServerPresence == Spec => Seen!PresenceSpec
<1>1. Init => PendingFinite /\ Seen!PresenceInit
  <2> SUFFICES ASSUME Init
               PROVE  PendingFinite /\ Seen!PresenceInit
    OBVIOUS
  <2>1. \A connected \in BOOLEAN : Pending(connected) = {}
    BY DEF Init, Pending
  <2>2. PendingFinite /\ UnderWay = Seen!Quiet
    BY <2>1, FS_EmptySet DEF PendingFinite, UnderWay, Seen!Quiet
  <2> QED
    BY <2>2 DEF Init, Seen!PresenceInit
<1>2. PendingFinite /\ IInv /\ [Next]_wsVars
        => PendingFinite' /\ [Seen!PresenceNext]_(Seen!presenceVars)
  BY PresenceStep
<1> QED
  BY <1>1, <1>2, Invariance, PTL DEF Spec, Seen!PresenceSpec
=============================================================================

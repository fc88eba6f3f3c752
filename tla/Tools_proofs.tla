---------------------------- MODULE Tools_proofs ----------------------------
(***************************************************************************)
(* Machine-checked proofs about what the tools use of the bridge:          *)
(* Forwarding (forwarded calls and their progress), Waiting (calls that    *)
(* wait for a session) and Connection (one WebSocket connection), for any  *)
(* number of calls, browsers and writers, any tokens and any capacity.     *)
(***************************************************************************)
EXTENDS Forwarding, Waiting, Connection, SequenceTheorems, TLAPS

-----------------------------------------------------------------------------
(* Forwarding                                                              *)

\* A token of the bridge's own is given to one call.
TokensDiffer ==
  \A f, g \in Forwards : remoteToken[f] # NoToken /\ remoteToken[f] = remoteToken[g] => f = g

\* A call gets its token when it registers, and only if its client gave one.
TokenWhenRegistered ==
  \A f \in Forwards :
    /\ at[f] \in {"start", "read", "ready"} => remoteToken[f] = NoToken /\ note[f] = "none"
    /\ remoteToken[f] # NoToken => localToken[f] # NoToken
    /\ note[f] # "none" => remoteToken[f] # NoToken

\* An entry of Manager.progress has the token of its call, which has yet to
\* unregister it.
EntriesOwned ==
  \A e \in progress :
    /\ e[1] = remoteToken[e[2]] /\ e[1] # NoToken
    /\ at[e[2]] \in {"registered", "asked", "answered", "returned"}

\* A connection whose session was read, or is installed, has had its session.
SessionsHad ==
  /\ session # NoConn => session \in had
  /\ \A f \in Forwards : /\ using[f] # NoConn => using[f] \in had
                         /\ at[f] \notin {"start", "read", "over"} => using[f] # NoConn

\* While the session a call uses is installed, the entry of the call is there
\* until its timer removes it.
EntryThere ==
  \A f \in Forwards :
    at[f] \in {"registered", "asked", "answered", "returned"} /\ remoteToken[f] # NoToken
      /\ session = using[f] => <<remoteToken[f], f>> \in progress

ForwardInv == /\ ToolsTypeOK /\ TokensDiffer /\ TokenWhenRegistered /\ EntriesOwned
              /\ SessionsHad /\ EntryThere /\ NoCrossTalk

\* No call has been made.
LEMMA ForwardInit == ToolsInit => ForwardInv
BY TokensAssumption, NoConnAssumption
   DEF ToolsInit, SessionsInit, ForwardInv, ToolsTypeOK, SessionsTypeOK, AtStates, TokensDiffer,
       TokenWhenRegistered, EntriesOwned, SessionsHad, EntryThere, NoCrossTalk

\* The steps of a call that give out no token.
LEMMA ForwardMoves ==
  ASSUME ForwardInv, NEW f \in Forwards,
         ReadsSession(f) \/ FindsLive(f) \/ NotConnected(f) \/ Asks(f) \/ NotebookAnswers(f)
  PROVE  ForwardInv'
<1> USE TokensAssumption, NoConnAssumption
    DEF ForwardInv, ToolsTypeOK, SessionsTypeOK, AtStates, TokensDiffer, TokenWhenRegistered,
        EntriesOwned, SessionsHad, EntryThere, NoCrossTalk, sessionVars, progressVars, AtGoes
<1>1. CASE ReadsSession(f)
  BY <1>1 DEF ReadsSession
<1>2. CASE FindsLive(f)
  BY <1>2 DEF FindsLive
<1>3. CASE NotConnected(f)
  BY <1>3 DEF NotConnected
<1>4. CASE Asks(f)
  BY <1>4 DEF Asks
<1>5. CASE NotebookAnswers(f)
  BY <1>5 DEF NotebookAnswers
<1> QED
  BY <1>1, <1>2, <1>3, <1>4, <1>5

\* The next token of the sequence is one no call has.
LEMMA ForwardRegisters ==
  ASSUME ForwardInv, NEW f \in Forwards, Registers(f)
  PROVE  ForwardInv'
<1> USE TokensAssumption
    DEF ForwardInv, ToolsTypeOK, SessionsTypeOK, AtStates, TokensDiffer, TokenWhenRegistered,
        EntriesOwned, SessionsHad, EntryThere, NoCrossTalk, sessionVars, AtGoes, Registers
<1>1. CASE localToken[f] = NoToken
  BY <1>1
<1>2. CASE localToken[f] # NoToken
  <2> DEFINE token == progressSeq + 1
  <2>1. /\ token \in Nat /\ token # NoToken
        /\ \A g \in Forwards : remoteToken[g] # token
        /\ \A e \in progress : e[1] # token
    OBVIOUS
  <2>2. /\ progressSeq' = token
        /\ remoteToken' = [remoteToken EXCEPT ![f] = token]
        /\ progress' = progress \cup {<<token, f>>}
    BY <1>2, <2>1
  <2> HIDE DEF token
  <2>3. ToolsTypeOK'
    <3>1. progressSeq' \in Nat /\ 1..progressSeq \subseteq 1..progressSeq' /\ token \in 1..progressSeq'
      BY <2>1, <2>2 DEF token
    <3> QED
      BY <2>1, <2>2, <3>1
  <2>4. TokensDiffer' /\ TokenWhenRegistered' /\ EntriesOwned' /\ EntryThere'
    BY <1>2, <2>1, <2>2
  <2> QED
    BY <2>3, <2>4
<1> QED
  BY <1>1, <1>2

\* A call returns, and later removes the entry it owns and no other.
LEMMA ForwardEnds ==
  ASSUME ForwardInv, NEW f \in Forwards,
         ForwardReturns(f) \/ ForwardFails(f) \/ Unregisters(f)
  PROVE  ForwardInv'
<1> USE TokensAssumption
    DEF ForwardInv, ToolsTypeOK, SessionsTypeOK, AtStates, TokensDiffer, TokenWhenRegistered,
        EntriesOwned, SessionsHad, EntryThere, NoCrossTalk, sessionVars, progressVars, AtGoes,
        Leaves
<1>1. CASE ForwardReturns(f)
  BY <1>1 DEF ForwardReturns
<1>2. CASE ForwardFails(f)
  BY <1>2 DEF ForwardFails
<1>3. CASE Unregisters(f)
  BY <1>3 DEF Unregisters
<1> QED
  BY <1>1, <1>2, <1>3

\* The notebook sends progress only of calls it was asked for.
LEMMA ForwardNotifies ==
  ASSUME ForwardInv, NEW f \in Forwards, NotebookNotifies(f)
  PROVE  ForwardInv'
BY TokensAssumption
   DEF ForwardInv, ToolsTypeOK, SessionsTypeOK, AtStates, TokensDiffer, TokenWhenRegistered,
       EntriesOwned, SessionsHad, EntryThere, NoCrossTalk, sessionVars, NotebookNotifies

\* A notification is that of the call whose token it has.
LEMMA ForwardProgress ==
  ASSUME ForwardInv, NEW f \in Forwards, RemoteProgress(f)
  PROVE  ForwardInv'
<1>1. \A g \in Forwards : <<remoteToken[f], g>> \in progress => f = g
  BY DEF ForwardInv, EntriesOwned, TokensDiffer
<1>2. /\ note' \in [Forwards -> {"none", "sent", "told", "dropped"}]
      /\ \A g \in Forwards : note'[g] # "none" <=> note[g] # "none"
  BY DEF RemoteProgress, ForwardInv, ToolsTypeOK
<1>3. heard' = heard \/ heard' = heard \cup {<<f, f>>}
  BY <1>1 DEF RemoteProgress
<1>4. heard' \subseteq Forwards \X Forwards /\ NoCrossTalk'
  BY <1>3 DEF ForwardInv, ToolsTypeOK, NoCrossTalk
<1>5. UNCHANGED <<sessionVars, at, using, localToken, remoteToken, progressSeq, progress>>
  BY DEF RemoteProgress
<1> QED
  BY <1>2, <1>4, <1>5
     DEF ForwardInv, ToolsTypeOK, SessionsTypeOK, TokensDiffer, TokenWhenRegistered,
         EntriesOwned, SessionsHad, EntryThere, sessionVars

\* No connection gets a session a second time, so a session that is dropped is
\* never that of a call again.
LEMMA ForwardSessions ==
  ASSUME ForwardInv, SessionStep
  PROVE  ForwardInv'
<1> USE TokensAssumption, NoConnAssumption
    DEF ForwardInv, ToolsTypeOK, SessionsTypeOK, AtStates, TokensDiffer, TokenWhenRegistered,
        EntriesOwned, SessionsHad, EntryThere, NoCrossTalk, forwardVars, progressVars
<1>1. ASSUME NEW c \in Conns, Enters(c) \/ Closes(c) \/ GivesUp(c), UNCHANGED forwardVars
      PROVE  ForwardInv'
  BY <1>1 DEF Enters, Closes, GivesUp
<1>2. ASSUME NEW c \in Conns, Installs(c), UNCHANGED forwardVars
      PROVE  ForwardInv'
  BY <1>2 DEF Installs
<1>3. CASE Frees /\ UNCHANGED forwardVars
  BY <1>3 DEF Frees
<1>4. CASE DropsWithProgress
  BY <1>4 DEF DropsWithProgress, Drops
<1> QED
  BY <1>1, <1>2, <1>3, <1>4 DEF SessionStep

\* ForwardInv is inductive.
LEMMA ForwardStepInv == ForwardInv /\ [ToolsNext]_toolVars => ForwardInv'
<1> SUFFICES ASSUME ForwardInv, [ToolsNext]_toolVars
             PROVE  ForwardInv'
  OBVIOUS
<1>1. CASE UNCHANGED toolVars
  BY <1>1 DEF toolVars, sessionVars, forwardVars, progressVars, ForwardInv, ToolsTypeOK,
              SessionsTypeOK, TokensDiffer, TokenWhenRegistered, EntriesOwned, SessionsHad,
              EntryThere, NoCrossTalk
<1>2. ASSUME NEW f \in Forwards, ForwardStep(f) \/ ProgressStep(f)
      PROVE  ForwardInv'
  BY <1>2, ForwardMoves, ForwardRegisters, ForwardEnds, ForwardNotifies,
     ForwardProgress
     DEF ForwardStep, ProgressStep
<1> QED
  BY <1>1, <1>2, ForwardSessions DEF ToolsNext

\* The inductive invariant of the forwarded calls.
THEOREM ForwardInvariance == ToolsSpec => []ForwardInv
BY ForwardInit, ForwardStepInv, PTL DEF ToolsSpec

\* The variables keep their types, and every token given out was counted
\* (manager.go:430), for any calls, browsers and tokens.
THEOREM ToolsTypeCorrect == ToolsSpec => []ToolsTypeOK
BY ForwardInvariance, PTL DEF ForwardInv

\* Progress of one call is never passed on as that of another
\* (manager.go:461-474), whatever tokens the clients choose.
THEOREM ProgressIsOwn == ToolsSpec => []NoCrossTalk
BY ForwardInvariance, PTL DEF ForwardInv

\* Calls that are over have left nothing in Manager.progress
\* (manager.go:429-459).
THEOREM ProgressMapBounded == ToolsSpec => []NothingLeftBehind
<1>1. ForwardInv => NothingLeftBehind
  BY DEF ForwardInv, EntriesOwned, NothingLeftBehind
<1> QED
  BY <1>1, ForwardInvariance, PTL

\* A notification is dropped only if its call has been over for the grace
\* period or the session it uses is not installed (manager.go:433-474).
THEOREM ProgressKept == ToolsSpec => ProgressReachesCaller
<1>1. ForwardInv /\ [ToolsNext]_toolVars =>
        [\A f \in Forwards : note[f] = "sent" /\ note'[f] = "dropped" =>
           at[f] = "over" \/ session # using[f]]_toolVars
  <2> SUFFICES ASSUME ForwardInv, ToolsNext,
                      NEW f \in Forwards, note[f] = "sent", note'[f] = "dropped",
                      at[f] # "over", session = using[f]
               PROVE  FALSE
    OBVIOUS
  <2>1. <<remoteToken[f], f>> \in progress
    BY DEF ForwardInv, TokenWhenRegistered, EntryThere, ToolsTypeOK, AtStates
  <2>2. ASSUME NEW g \in Forwards, ForwardStep(g) \/ NotebookAnswers(g) \/ NotebookNotifies(g)
        PROVE  note'[f] # "dropped"
    BY <2>2 DEF ForwardStep, ReadsSession, FindsLive, NotConnected, Registers, Asks,
                ForwardReturns, ForwardFails, Unregisters, NotebookAnswers, NotebookNotifies,
                progressVars, ForwardInv, ToolsTypeOK
  <2>3. ASSUME NEW g \in Forwards, RemoteProgress(g)
        PROVE  note'[f] # "dropped"
    BY <2>1, <2>3 DEF RemoteProgress, ForwardInv, ToolsTypeOK
  <2>4. CASE SessionStep
    BY <2>4 DEF SessionStep, DropsWithProgress, forwardVars, progressVars
  <2> QED
    BY <2>2, <2>3, <2>4 DEF ToolsNext, ProgressStep
<1> QED
  BY <1>1, ForwardInvariance, PTL DEF ToolsSpec, ProgressReachesCaller

-----------------------------------------------------------------------------
(* Waiting                                                                 *)

WaitInv == WaitTypeOK /\ OpenSawSession

\* Nobody waits.
LEMMA WaitInitInv == WaitInit => WaitInv
BY DEF WaitInit, SessionsInit, WaitInv, WaitTypeOK, SessionsTypeOK, OpenSawSession

\* A step of a call: a channel that is closed is that of a session.
LEMMA OpenStepInv ==
  ASSUME WaitInv, NEW o \in Opens, OpenStep(o) \/ TimesOut(o)
  PROVE  WaitInv'
<1> USE DEF WaitInv, WaitTypeOK, SessionsTypeOK, OpenSawSession, sessionVars, OpenGoes
<1>1. CASE AlreadyConnected(o)
  BY <1>1 DEF AlreadyConnected
<1>2. CASE OpenFails(o) \/ OpensBrowser(o)
  BY <1>2 DEF OpenFails, OpensBrowser
<1>3. CASE WaitsConnected(o)
  BY <1>3 DEF WaitsConnected, IsConnected
<1>4. CASE WakesUp(o)
  BY <1>4 DEF WakesUp
<1>5. CASE TimesOut(o)
  BY <1>5 DEF TimesOut
<1> QED
  BY <1>1, <1>2, <1>3, <1>4, <1>5 DEF OpenStep

\* WaitInv is inductive.
LEMMA WaitStepInv == WaitInv /\ [WaitNext]_waitVars => WaitInv'
<1> SUFFICES ASSUME WaitInv, [WaitNext]_waitVars
             PROVE  WaitInv'
  OBVIOUS
<1> USE NoConnAssumption DEF WaitInv, WaitTypeOK, SessionsTypeOK, OpenSawSession, openVars
<1>1. CASE UNCHANGED waitVars
  BY <1>1 DEF waitVars, sessionVars
<1>2. ASSUME NEW c \in Conns, Enters(c) \/ Closes(c) \/ GivesUp(c), UNCHANGED openVars
      PROVE  WaitInv'
  BY <1>2 DEF Enters, Closes, GivesUp
<1>3. ASSUME NEW c \in Conns, SetsSession(c)
      PROVE  WaitInv'
  BY <1>3 DEF SetsSession, Installs, Asleep
<1>4. CASE Frees /\ UNCHANGED openVars
  BY <1>4 DEF Frees
<1>5. CASE DropsSession
  BY <1>5 DEF DropsSession, Drops
<1> QED
  BY <1>1, <1>2, <1>3, <1>4, <1>5, OpenStepInv DEF WaitNext

\* connectedCh is open exactly while no session is installed
\* (manager.go:291-300 and 384-401).
THEOREM WaitTypeCorrect == WaitSpec => []WaitTypeOK
BY WaitInitInv, WaitStepInv, PTL DEF WaitSpec, WaitInv

\* A call of open_colab_browser_connection that says "true" saw a session
\* (manager.go:263-280), for any calls and browsers.
THEOREM OpenIsTrue == WaitSpec => []OpenSawSession
BY WaitInitInv, WaitStepInv, PTL DEF WaitSpec, WaitInv

-----------------------------------------------------------------------------
(* Connection                                                              *)

\* Until the session stops reading, the channel holds what comes after the
\* message it read last.
ChannelContinues ==
  reader # "stopped" =>
    /\ \A i \in 1..Len(readCh) : readCh[i] # ReadError => readCh[i] = Len(delivered) + i
    /\ readLoop \in {"reading", "sending", "reporting"} =>
         arrived = Len(delivered) + Len(readCh) + (IF readLoop = "sending" THEN 1 ELSE 0)

\* The read loop holds a message when it sends one.
LoopHolds == readLoop = "sending" => arrived # 0

ConnInv == ConnTypeOK /\ LoopHolds /\ ChannelContinues /\ DeliveredInOrder

\* Nothing is read or written.
LEMMA ConnInitInv == ConnInit => ConnInv
<1> SUFFICES ASSUME ConnInit PROVE ConnInv
  OBVIOUS
<1>1. Len(readCh) = 0 /\ Len(delivered) = 0
  BY DEF ConnInit
<1>2. readCh \in Seq(0..MaxIncoming) /\ delivered \in Seq(1..MaxIncoming)
  BY DEF ConnInit
<1>3. Len(readCh) <= ReadCap /\ 0 \in 0..MaxIncoming
  BY <1>1, MaxIncomingAssumption, ReadCapAssumption
<1>4. /\ peer = "reading" /\ arrived = 0 /\ readLoop = "reading" /\ reader = "away"
      /\ writing = [w \in Writes |-> "idle"] /\ writer = [w \in Writes |-> "none"]
      /\ ctxDone = {} /\ onWire = {} /\ broken = FALSE /\ closer = "idle" /\ once = "open"
  BY DEF ConnInit
<1>5. ConnTypeOK
  BY <1>2, <1>3, <1>4 DEF ConnTypeOK
<1>6. LoopHolds /\ ChannelContinues /\ DeliveredInOrder
  BY <1>1, <1>4 DEF LoopHolds, ChannelContinues, DeliveredInOrder
<1> QED
  BY <1>5, <1>6 DEF ConnInv

\* The channel with one item more.
LEMMA ChannelGrows ==
  ASSUME ConnTypeOK, NEW m \in 0..MaxIncoming, readCh' = Append(readCh, m)
  PROVE  /\ readCh' \in Seq(0..MaxIncoming)
         /\ Len(readCh') = Len(readCh) + 1 /\ Len(readCh) \in Nat
         /\ \A i \in 1..Len(readCh') : readCh'[i] = IF i = Len(readCh) + 1 THEN m ELSE readCh[i]
BY DEF ConnTypeOK

\* The read loop appends the message it read last.
LEMMA LoopStepInv ==
  ASSUME ConnInv, LoopStep
  PROVE  ConnInv'
<1> USE MaxIncomingAssumption, ReadCapAssumption
<1>1. CASE ReadFails \/ LoopEnds
  BY <1>1 DEF ReadFails, LoopEnds, LoopGoes, writeVars, ConnInv, ConnTypeOK, LoopHolds,
              ChannelContinues, DeliveredInOrder
<1>2. CASE ReadsMessage
  <2>1. /\ readLoop = "reading" /\ readLoop' = "sending" /\ arrived' = arrived + 1
        /\ arrived < MaxIncoming
        /\ UNCHANGED <<peer, readCh, reader, delivered, writeVars, closer, once>>
    BY <1>2 DEF ReadsMessage, LoopGoes
  <2>2. arrived \in Nat /\ Len(delivered) \in Nat /\ Len(readCh) \in Nat
    BY DEF ConnInv, ConnTypeOK
  <2>3. ChannelContinues' /\ LoopHolds'
    BY <2>1, <2>2 DEF ConnInv, ChannelContinues, LoopHolds
  <2>4. ConnTypeOK' /\ DeliveredInOrder'
    BY <2>1, <2>2 DEF ConnInv, ConnTypeOK, DeliveredInOrder, writeVars
  <2> QED
    BY <2>3, <2>4 DEF ConnInv
<1>3. CASE SendsMessage
  <2>1. /\ readLoop = "sending" /\ readLoop' = "reading" /\ Len(readCh) < ReadCap
        /\ UNCHANGED <<peer, arrived, reader, delivered, writeVars, closer, once>>
        /\ readCh' = Append(readCh, arrived)
    BY <1>3 DEF SendsMessage, LoopGoes
  <2>2. /\ readCh' \in Seq(0..MaxIncoming)
        /\ Len(readCh') = Len(readCh) + 1 /\ Len(readCh) \in Nat
        /\ \A i \in 1..Len(readCh') :
             readCh'[i] = IF i = Len(readCh) + 1 THEN arrived ELSE readCh[i]
    BY <2>1, ChannelGrows DEF ConnInv, ConnTypeOK
  <2> HIDE <1>3
  <2>3. ChannelContinues'
    <3> SUFFICES ASSUME reader # "stopped"
                 PROVE  /\ \A i \in 1..Len(readCh') :
                             readCh'[i] # ReadError => readCh'[i] = Len(delivered) + i
                        /\ arrived = Len(delivered) + Len(readCh')
      BY <2>1 DEF ChannelContinues
    <3>1. /\ arrived = Len(delivered) + Len(readCh) + 1
          /\ \A i \in 1..Len(readCh) : readCh[i] # ReadError => readCh[i] = Len(delivered) + i
      BY <2>1 DEF ConnInv, ChannelContinues
    <3>2. Len(delivered) \in Nat
      BY DEF ConnInv, ConnTypeOK
    <3> DEFINE n == Len(delivered)
               k == Len(readCh)
    <3>3. n \in Nat /\ k \in Nat /\ arrived = n + (k + 1)
      BY <2>2, <3>1, <3>2
    <3>4. ASSUME NEW i \in 1..Len(readCh'), readCh'[i] # ReadError
          PROVE  readCh'[i] = n + i
      <4> HIDE DEF n, k
      <4>1. i \in 1..(k + 1) /\ readCh'[i] = IF i = k + 1 THEN arrived ELSE readCh[i]
        BY <2>2 DEF k
      <4>2. CASE i = k + 1
        BY <3>3, <4>1, <4>2
      <4>3. CASE i # k + 1
        <5>1. i \in 1..k
          BY <3>3, <4>1, <4>3
        <5> QED
          BY <3>1, <3>4, <4>1, <4>3, <5>1 DEF n, k
      <4> QED
        BY <4>2, <4>3
    <3> QED
      BY <2>2, <3>3, <3>4
  <2>4. ConnTypeOK'
    BY <2>1, <2>2 DEF ConnInv, ConnTypeOK, writeVars
  <2>5. LoopHolds' /\ DeliveredInOrder'
    BY <2>1 DEF ConnInv, LoopHolds, DeliveredInOrder
  <2> QED
    BY <2>3, <2>4, <2>5 DEF ConnInv
<1>4. CASE ReportsError
  <2>1. /\ readLoop = "reporting" /\ readLoop' = "closing" /\ Len(readCh) < ReadCap
        /\ UNCHANGED <<peer, arrived, reader, delivered, writeVars, closer, once>>
        /\ readCh' = Append(readCh, ReadError)
    BY <1>4 DEF ReportsError, LoopGoes
  <2>2. /\ readCh' \in Seq(0..MaxIncoming)
        /\ Len(readCh') = Len(readCh) + 1 /\ Len(readCh) \in Nat
        /\ \A i \in 1..Len(readCh') :
             readCh'[i] = IF i = Len(readCh) + 1 THEN ReadError ELSE readCh[i]
    BY <2>1, ChannelGrows, ReadError \in 0..MaxIncoming DEF ConnInv, ReadError
  <2> HIDE <1>4
  <2>3. ChannelContinues'
    BY <2>1, <2>2 DEF ConnInv, ChannelContinues
  <2>4. ConnTypeOK'
    BY <2>1, <2>2 DEF ConnInv, ConnTypeOK, writeVars
  <2>5. LoopHolds' /\ DeliveredInOrder'
    BY <2>1 DEF ConnInv, LoopHolds, DeliveredInOrder
  <2> QED
    BY <2>3, <2>4, <2>5 DEF ConnInv
<1> QED
  BY <1>1, <1>2, <1>3, <1>4 DEF LoopStep

\* The session reads from the head of the channel.
LEMMA ReaderStepInv ==
  ASSUME ConnInv, ReaderStarts \/ ReaderStep
  PROVE  ConnInv'
<1>1. CASE ReaderStarts \/ ReadEnds
  BY <1>1 DEF ReaderStarts, ReadEnds, ReaderGoes, loopVars, writeVars, ConnInv, ConnTypeOK,
              LoopHolds, ChannelContinues, DeliveredInOrder
<1>2. CASE ReadReturnsMessage
  <2>1. /\ readCh' = Tail(readCh) /\ readCh # <<>> /\ readCh[1] # ReadError
        /\ reader = "reading" /\ delivered' = Append(delivered, readCh[1])
        /\ UNCHANGED <<peer, arrived, readLoop, reader, writeVars, closer, once>>
    BY <1>2 DEF ReadReturnsMessage
  <2> HIDE <1>2
  <2>2. /\ readCh \in Seq(0..MaxIncoming) /\ delivered \in Seq(1..MaxIncoming)
        /\ Len(readCh) <= ReadCap /\ Len(delivered) \in Nat
    BY DEF ConnInv, ConnTypeOK
  <2>3. /\ readCh' \in Seq(0..MaxIncoming)
        /\ Len(readCh) \in Nat \ {0} /\ Len(readCh') = Len(readCh) - 1
        /\ \A i \in 1..Len(readCh') : readCh'[i] = readCh[i + 1]
    BY <2>1, <2>2
  <2>4. \A i \in 1..Len(readCh) : readCh[i] # ReadError => readCh[i] = Len(delivered) + i
    BY <2>1 DEF ConnInv, ChannelContinues
  <2>5. readCh[1] \in 1..MaxIncoming /\ readCh[1] = Len(delivered) + 1
    BY <2>1, <2>2, <2>3, <2>4, MaxIncomingAssumption DEF ReadError
  <2>6. /\ delivered' \in Seq(1..MaxIncoming)
        /\ Len(delivered') = Len(delivered) + 1
        /\ \A i \in 1..Len(delivered') :
             delivered'[i] = IF i = Len(delivered) + 1 THEN readCh[1] ELSE delivered[i]
    BY <2>1, <2>2, <2>5
  <2>7. DeliveredInOrder'
    <3>1. \A i \in 1..Len(delivered) : delivered[i] = i
      BY DEF ConnInv, DeliveredInOrder
    <3> QED
      BY <2>2, <2>5, <2>6, <3>1 DEF DeliveredInOrder
  <2>8. ChannelContinues'
    <3>1. \A i \in 1..Len(readCh') : readCh'[i] # ReadError => readCh'[i] = Len(delivered') + i
      BY <2>2, <2>3, <2>4, <2>6
    <3>2. readLoop \in {"reading", "sending", "reporting"} =>
            arrived = Len(delivered) + Len(readCh) + (IF readLoop = "sending" THEN 1 ELSE 0)
      BY <2>1 DEF ConnInv, ChannelContinues
    <3>3. Len(delivered') + Len(readCh') = Len(delivered) + Len(readCh)
      BY <2>2, <2>3, <2>6
    <3> QED
      BY <2>1, <3>1, <3>2, <3>3 DEF ChannelContinues
  <2>9. ConnTypeOK' /\ LoopHolds'
    BY <2>1, <2>2, <2>3, <2>6, ReadCapAssumption
       DEF ConnInv, ConnTypeOK, LoopHolds, writeVars
  <2> QED
    BY <2>7, <2>8, <2>9 DEF ConnInv
<1>3. CASE ReadReturnsError
  <2>1. /\ readCh' = Tail(readCh) /\ readCh # <<>> /\ reader' = "stopped"
        /\ UNCHANGED <<peer, arrived, readLoop, delivered, writeVars, closer, once>>
    BY <1>3 DEF ReadReturnsError, ReaderGoes
  <2>2. readCh' \in Seq(0..MaxIncoming) /\ Len(readCh') <= ReadCap
    BY <2>1, ReadCapAssumption DEF ConnInv, ConnTypeOK
  <2> QED
    BY <2>1, <2>2 DEF ConnInv, ConnTypeOK, LoopHolds, ChannelContinues, DeliveredInOrder, writeVars
<1> QED
  BY <1>1, <1>2, <1>3 DEF ReaderStep

\* Writers and closers leave the messages alone.
LEMMA WriteStepInv ==
  ASSUME ConnInv, NEW w \in Writes,
         StartsWrite(w) \/ WriterStep(w) \/ WriteStep(w) \/ ContextEnds(w)
  PROVE  ConnInv'
<1> USE DEF ConnInv, ConnTypeOK, LoopHolds, ChannelContinues, DeliveredInOrder, loopVars,
            WriteGoes, WriterGoes
<1>1. CASE StartsWrite(w)
  BY <1>1 DEF StartsWrite
<1>2. CASE WriterLocks(w)
  BY <1>2 DEF WriterLocks
<1>3. CASE WriterSends(w)
  BY <1>3 DEF WriterSends
<1>4. CASE WriterFails(w)
  BY <1>4 DEF WriterFails
<1>5. CASE WriteSucceeds(w)
  BY <1>5 DEF WriteSucceeds
<1>6. CASE WriteCloses(w)
  BY <1>6 DEF WriteCloses
<1>7. CASE WriteClosed(w)
  BY <1>7 DEF WriteClosed
<1>8. CASE WriteAbandons(w)
  BY <1>8 DEF WriteAbandons
<1>9. CASE ContextEnds(w)
  BY <1>9 DEF ContextEnds
<1> QED
  BY <1>1, <1>2, <1>3, <1>4, <1>5, <1>6, <1>7, <1>8, <1>9 DEF WriterStep, WriteStep

\* ConnInv is inductive.
LEMMA ConnStepInv == ConnInv /\ [ConnNext]_connVars => ConnInv'
<1> SUFFICES ASSUME ConnInv, [ConnNext]_connVars
             PROVE  ConnInv'
  OBVIOUS
<1>1. CASE UNCHANGED connVars
  BY <1>1 DEF connVars, loopVars, writeVars, ConnInv, ConnTypeOK, LoopHolds, ChannelContinues,
              DeliveredInOrder
<1>2. CASE CallsClose \/ CloserStep \/ PeerChanges
  <2>1. UNCHANGED <<loopVars, reader, delivered, writeVars>>
    BY <1>2 DEF CallsClose, CloserStep, CloseReturns, SignalsClosed, CloseLocks, Shuts,
                PeerChanges
  <2>2. /\ peer' \in {"reading", "stalled", "gone"}
        /\ closer' \in {"idle", "closing", "done"}
        /\ once' \in {"open", "signalled", "locked", "shut"}
    BY <1>2 DEF CallsClose, CloserStep, CloseReturns, SignalsClosed, CloseLocks, Shuts,
                PeerChanges, ConnInv, ConnTypeOK
  <2> QED
    BY <2>1, <2>2 DEF loopVars, writeVars, ConnInv, ConnTypeOK, LoopHolds, ChannelContinues,
                      DeliveredInOrder
<1> QED
  BY <1>1, <1>2, LoopStepInv, ReaderStepInv, WriteStepInv DEF ConnNext

\* The inductive invariant of a connection.
THEOREM ConnInvariance == ConnSpec => []ConnInv
BY ConnInitInv, ConnStepInv, PTL DEF ConnSpec

\* The variables keep their types, and the channel its capacity
\* (connection.go:35-57), for any capacity and any number of writers.
THEOREM ConnTypeCorrect == ConnSpec => []ConnTypeOK
BY ConnInvariance, PTL DEF ConnInv

\* The session reads the browser's messages in their order and with no gap
\* (connection.go:41-71), for any capacity of readCh.
THEOREM ReadInOrder == ConnSpec => []DeliveredInOrder
BY ConnInvariance, PTL DEF ConnInv
=============================================================================

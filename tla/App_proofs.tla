----------------------------- MODULE App_proofs -----------------------------
(***************************************************************************)
(* Machine-checked proofs about App, for any set of bridge processes: they *)
(* use the lock of Instance the way Instance allows, so its guarantees     *)
(* hold; the recorded port is the one served; and the fixed port is only   *)
(* ever served by the bridge with the lock.                                *)
(***************************************************************************)
EXTENDS App, Files_proofs

-----------------------------------------------------------------------------
(* The inductive invariant                                                 *)

\* How far Acquire is follows from where App.Run is: past start-up a bridge
\* has its lock open or was told that another one has it.
RunAndLockOf(p) ==
    /\ pc[p] = "token" => lock[p] = "none"
    /\ pc[p] = "acquire" => lock[p] \in {"none", "acquired", "refused"}
    /\ pc[p] = "listen" => lock[p] \in {"open", "told"}
    /\ pc[p] \in {"readLive", "update"} => lock[p] = "open"
    /\ pc[p] \in {"serve", "closeServer"} => lock[p] \in {"open", "told"}

RunAndLock == \A p \in Procs : RunAndLockOf(p)

\* The configured port is served with the lock open.
ConfiguredOpen ==
  \A p \in Procs : Listening(p) /\ port[p] = "configured" => lock[p] = "open"

\* Whoever can call Update has a port to record.
PortKnown ==
  \A p \in Procs :
    Listening(p) \/ live[p] \/ (\E b \in BOOLEAN : callbacks[p][b] > 0) => port[p] \in Ports

AppInv == /\ TokenInv
          /\ InstanceInv
          /\ ATypeOK
          /\ RunAndLock
          /\ ConfiguredOpen
          /\ PortKnown
          /\ PortRecorded

\* A step of one process.
AppStep(p) == LoadsToken(p) \/ RunStep(p) \/ Dies(p)

\* The invariant holds before the first process starts.
LEMMA AppInit == AInit => AppInv
<1> SUFFICES ASSUME AInit
             PROVE  AppInv
  OBVIOUS
<1>1. InstanceInv /\ TokenInv
  BY InstanceInit, TokenInit DEF AInit
<1>2. ATypeOK
  BY <1>1, MaxBrowsersAssumption DEF AInit, ATypeOK, InstanceInv, TokenInv, PCs
<1>3. RunAndLock /\ ConfiguredOpen /\ PortRecorded
  BY DEF AInit, IInit, RunAndLock, RunAndLockOf, ConfiguredOpen, PortRecorded, Listening
<1>4. PortKnown
  BY DEF AInit, PortKnown, Listening
<1> QED
  BY <1>1, <1>2, <1>3, <1>4 DEF AppInv

-----------------------------------------------------------------------------
(* Refinement                                                              *)

\* A process of the app only takes steps that Instance knows, or none.
LEMMA AppUsesLock ==
  ASSUME ATypeOK, PortKnown, NEW p \in Procs, AppStep(p)
  PROVE  InstanceStep(p) \/ UNCHANGED instanceVars
<1>1. CASE Acquire(p) \/ AcquireFails(p) \/ AlreadyRunning(p)
  BY <1>1 DEF Acquire, AcquireFails, AlreadyRunning, InstanceStep
<1>2. CASE AcquireReturnsLock(p)
  BY <1>2, PortsAssumption DEF AcquireReturnsLock, InstanceStep
<1>3. CASE StartupUpdate(p)
  <2>1. Update(p, port[p], seen[p]) /\ Listening(p)
    BY <1>3 DEF StartupUpdate, PcAt, Listening
  <2>2. port[p] \in Ports /\ seen[p] \in BOOLEAN
    BY <2>1 DEF PortKnown, ATypeOK
  <2> QED
    BY <2>1, <2>2 DEF InstanceStep
<1>4. ASSUME NEW connected \in BOOLEAN, OnChange(p, connected)
      PROVE  InstanceStep(p) \/ UNCHANGED instanceVars
  <2>1. port[p] \in Ports
    BY <1>4 DEF OnChange, PortKnown
  <2> QED
    BY <1>4, <2>1 DEF OnChange, InstanceStep
<1>5. CASE StartupUpdateFails(p) \/ ClosesLock(p) \/ Dies(p)
  BY <1>5 DEF StartupUpdateFails, ClosesLock, Dies, InstanceStep
<1>6. CASE Returns(p)
  BY <1>6 DEF Returns, InstanceStep
<1>7. CASE ListensConfigured(p) \/ ListensEphemeral(p) \/ ListenFails(p) \/ ReadLive(p)
           \/ BrowserConnects(p) \/ BrowserLeaves(p) \/ Stops(p) \/ CloseServer(p)
  BY <1>7 DEF ListensConfigured, ListensEphemeral, Listens, ListenFails, ReadLive,
              BrowserConnects, BrowserLeaves, Changes, Stops, CloseServer
<1>8. CASE LoadsToken(p)
  BY <1>8 DEF LoadsToken
<1> QED
  BY <1>1, <1>2, <1>3, <1>4, <1>5, <1>6, <1>7, <1>8
  DEF AppStep, RunStep, StartStep, BrowserStep, StopStep

\* So every step of the app is a step of Instance or leaves it alone.
LEMMA InstanceSimulated == ATypeOK /\ PortKnown /\ [ANext]_allVars => [INext]_instanceVars
<1> SUFFICES ASSUME ATypeOK, PortKnown, [ANext]_allVars
             PROVE  [INext]_instanceVars
  OBVIOUS
<1>1. CASE UNCHANGED allVars
  BY <1>1 DEF allVars
<1>2. ASSUME NEW p \in Procs, AppStep(p)
      PROVE  [INext]_instanceVars
  BY <1>2, AppUsesLock DEF INext
<1> QED
  BY <1>1, <1>2 DEF ANext, AppStep

\* And every step is one of Token or leaves the token file alone.
LEMMA TokenSimulated == [ANext]_allVars => [TNext]_tokenVars
<1> SUFFICES ASSUME [ANext]_allVars
             PROVE  [TNext]_tokenVars
  OBVIOUS
<1>1. CASE UNCHANGED allVars
  BY <1>1 DEF allVars
<1>2. ASSUME NEW p \in Procs, LoadsToken(p) \/ Dies(p)
      PROVE  [TNext]_tokenVars
  BY <1>2 DEF LoadsToken, Dies, TNext
<1>3. ASSUME NEW p \in Procs, RunStep(p)
      PROVE  UNCHANGED tokenVars
  <2>1. CASE StartStep(p)
    BY <2>1 DEF StartStep, Acquire, AcquireReturnsLock, AcquireFails, AlreadyRunning,
                ListensConfigured, ListensEphemeral, Listens, ListenFails, ReadLive,
                StartupUpdate, StartupUpdateFails
  <2>2. CASE BrowserStep(p)
    BY <2>2 DEF BrowserStep, BrowserConnects, BrowserLeaves, Changes, OnChange
  <2>3. CASE StopStep(p)
    BY <2>3 DEF StopStep, Stops, CloseServer, ClosesLock, Returns
  <2> QED
    BY <1>3, <2>1, <2>2, <2>3 DEF RunStep
<1> QED
  BY <1>1, <1>2, <1>3 DEF ANext

-----------------------------------------------------------------------------
(* The steps of one process                                                *)

\* Loading the token leads to the lock, to an error, or stays.
LEMMA LoadsTo ==
  ASSUME ATypeOK, NEW p \in Procs, LoadsToken(p)
  PROVE  \E to \in {"token", "acquire", "returned"} : pc' = [pc EXCEPT ![p] = to]
<1>1. CASE loading'[p] = "loaded"
  BY <1>1 DEF LoadsToken
<1>2. CASE loading'[p] = "error"
  BY <1>2 DEF LoadsToken
<1>3. CASE loading'[p] \notin {"loaded", "error"}
  BY <1>3 DEF LoadsToken
<1> QED
  BY <1>1, <1>2, <1>3

\* A step of one process changes the run, the port and the browser of no
\* other process.
LEMMA OtherRuns ==
  ASSUME ATypeOK, NEW p \in Procs, AppStep(p)
  PROVE  \A q \in Procs \ {p} :
           /\ pc'[q] = pc[q] /\ port'[q] = port[q]
           /\ live'[q] = live[q] /\ callbacks'[q] = callbacks[q]
<1> USE DEF ATypeOK, PcAt, browserVars
<1>1. CASE LoadsToken(p) \/ Dies(p)
  BY <1>1, LoadsTo DEF LoadsToken, Dies
<1>2. CASE StartStep(p)
  BY <1>2 DEF StartStep, Acquire, AcquireReturnsLock, AcquireFails, AlreadyRunning,
              ListensConfigured, ListensEphemeral, Listens, ListenFails, ReadLive,
              StartupUpdate, StartupUpdateFails, appVars
<1>3. CASE BrowserStep(p)
  BY <1>3 DEF BrowserStep, BrowserConnects, BrowserLeaves, Changes, OnChange
<1>4. CASE StopStep(p)
  BY <1>4 DEF StopStep, Stops, CloseServer, ClosesLock, Returns, appVars
<1> QED
  BY <1>1, <1>2, <1>3, <1>4 DEF AppStep, RunStep

\* Every step keeps ATypeOK.
LEMMA ATypeStep ==
  ASSUME ATypeOK, ITypeOK', TTypeOK', NEW p \in Procs, AppStep(p)
  PROVE  ATypeOK'
<1> USE DEF PCs, browserVars
<1>1. CASE Acquire(p) \/ ClosesLock(p)
  BY <1>1 DEF Acquire, ClosesLock, appVars, browserVars, ATypeOK
<1>2. CASE AcquireReturnsLock(p) \/ AcquireFails(p) \/ AlreadyRunning(p)
  BY <1>2 DEF AcquireReturnsLock, AcquireFails, AlreadyRunning, PcAt, ATypeOK
<1>3. CASE ListensConfigured(p) \/ ListensEphemeral(p)
  BY <1>3, PortsAssumption DEF ListensConfigured, ListensEphemeral, Listens, PcAt, ATypeOK
<1>4. CASE ListenFails(p) \/ StartupUpdate(p) \/ StartupUpdateFails(p) \/ Stops(p)
           \/ CloseServer(p) \/ Returns(p) \/ Dies(p)
  BY <1>4 DEF ListenFails, StartupUpdate, StartupUpdateFails, Stops, CloseServer, Returns,
              Dies, PcAt, ATypeOK
<1>5. CASE ReadLive(p)
  BY <1>5 DEF ReadLive, PcAt, ATypeOK
<1>6. ASSUME NEW b \in BOOLEAN, Changes(p, b), browsers' \in [Procs -> 0..MaxBrowsers]
      PROVE  ATypeOK'
  <2>1. callbacks' \in [Procs -> [BOOLEAN -> Nat]]
    BY <1>6 DEF Changes, ATypeOK
  <2> QED
    BY <1>6, <2>1 DEF Changes, ATypeOK
<1>7. CASE BrowserConnects(p)
  <2>1. browsers' \in [Procs -> 0..MaxBrowsers]
    <3>1. browsers[p] + 1 \in 0..MaxBrowsers
      BY <1>7, MaxBrowsersAssumption DEF BrowserConnects, ATypeOK
    <3> QED
      BY <1>7, <3>1 DEF BrowserConnects, ATypeOK
  <2> QED
    BY <1>7, <2>1, <1>6 DEF BrowserConnects
<1>8. CASE BrowserLeaves(p)
  BY <1>8, <1>6 DEF BrowserLeaves, ATypeOK
<1>9. ASSUME NEW b \in BOOLEAN, OnChange(p, b)
      PROVE  ATypeOK'
  <2>1. callbacks[p][b] - 1 \in Nat
    BY <1>9 DEF OnChange, ATypeOK
  <2>2. callbacks' \in [Procs -> [BOOLEAN -> Nat]]
    BY <1>9, <2>1 DEF OnChange, ATypeOK
  <2> QED
    BY <1>9, <2>2 DEF OnChange, ATypeOK
<1>10. CASE LoadsToken(p)
  <2>1. pc' \in [Procs -> PCs]
    BY <1>10, LoadsTo DEF ATypeOK
  <2> QED
    BY <1>10, <2>1 DEF LoadsToken, ATypeOK
<1> QED
  BY <1>1, <1>2, <1>3, <1>4, <1>5, <1>7, <1>8, <1>9, <1>10
  DEF AppStep, RunStep, StartStep, BrowserStep, StopStep

\* Start-up and shutdown keep App.Run and Acquire together.
LEMMA RunAndLockStep ==
  ASSUME ATypeOK, RunAndLock, PortKnown, NEW p \in Procs, AppStep(p)
  PROVE  RunAndLock'
<1>1. \A q \in Procs \ {p} : pc'[q] = pc[q] /\ lock'[q] = lock[q]
  <2>1. \A q \in Procs \ {p} : lock'[q] = lock[q]
    BY AppUsesLock, OtherLocks DEF ATypeOK, instanceVars
  <2> QED
    BY <2>1, OtherRuns
<1>2. RunAndLockOf(p)'
  <2> USE DEF RunAndLockOf, PcAt, ATypeOK, ITypeOK
  <2>1. RunAndLockOf(p)
    BY DEF RunAndLock
  <2>2. CASE LoadsToken(p)
    BY <2>1, <2>2, LoadsTo DEF LoadsToken, instanceVars
  <2>3. CASE Acquire(p)
    BY <2>1, <2>3 DEF Acquire, TryLock, LockHeld, LockAt, appVars
  <2>4. CASE AcquireReturnsLock(p) \/ AcquireFails(p) \/ AlreadyRunning(p)
    BY <2>1, <2>4 DEF AcquireReturnsLock, AcquireFails, AlreadyRunning, WriteInitial,
                      ReadOwner, LockAt
  <2>5. CASE ListensConfigured(p) \/ ListensEphemeral(p)
    BY <2>1, <2>5 DEF ListensConfigured, ListensEphemeral, Listens, HasLock, instanceVars
  <2>6. CASE ListenFails(p) \/ ReadLive(p) \/ Stops(p) \/ CloseServer(p)
    BY <2>1, <2>6 DEF ListenFails, ReadLive, Stops, CloseServer, instanceVars
  <2>7. CASE StartupUpdate(p) \/ StartupUpdateFails(p)
    BY <2>1, <2>7 DEF StartupUpdate, StartupUpdateFails, Update, UpdateFails, instanceVars
  <2>8. CASE BrowserStep(p)
    BY <2>1, <2>8 DEF BrowserStep, BrowserConnects, BrowserLeaves, Changes, OnChange, Update,
                      UpdateFails, instanceVars
  <2>9. CASE ClosesLock(p) \/ Returns(p) \/ Dies(p)
    BY <2>1, <2>9 DEF ClosesLock, Returns, Dies, appVars
  <2> QED
    BY <2>2, <2>3, <2>4, <2>5, <2>6, <2>7, <2>8, <2>9 DEF AppStep, RunStep, StartStep, StopStep
<1> QED
  BY <1>1, <1>2 DEF RunAndLock, RunAndLockOf

\* A port is known before the first callback, and the configured port is
\* only taken by the bridge with the lock and given up before the lock.
LEMMA PortStep ==
  ASSUME ATypeOK, ATypeOK', RunAndLock, RunAndLock', ConfiguredOpen, PortKnown,
         NEW p \in Procs, AppStep(p)
  PROVE  ConfiguredOpen' /\ PortKnown'
<1>1. \A q \in Procs \ {p} : /\ pc'[q] = pc[q] /\ lock'[q] = lock[q] /\ port'[q] = port[q]
                             /\ live'[q] = live[q] /\ callbacks'[q] = callbacks[q]
  <2>1. \A q \in Procs \ {p} : lock'[q] = lock[q]
    BY AppUsesLock, OtherLocks DEF ATypeOK, instanceVars
  <2> QED
    BY <2>1, OtherRuns
<1>2. /\ Listening(p)' /\ port'[p] = "configured" => lock'[p] = "open"
      /\ Listening(p)' => port'[p] \in Ports
  <2> USE DEF PcAt, ATypeOK, Listening
  <2>0. /\ Listening(p) /\ port[p] = "configured" => lock[p] = "open"
        /\ Listening(p) => port[p] \in Ports
    BY DEF ConfiguredOpen, PortKnown
  <2>1. CASE ListensConfigured(p)
    BY <2>1, PortsAssumption DEF ListensConfigured, Listens, HasLock, RunAndLock, RunAndLockOf,
                                 instanceVars
  <2>2. CASE ListensEphemeral(p)
    BY <2>2, PortsAssumption DEF ListensEphemeral, Listens
  <2>3. CASE LoadsToken(p)
    BY <2>0, <2>3, LoadsTo DEF LoadsToken
  <2>4. CASE Acquire(p) \/ AcquireReturnsLock(p) \/ AcquireFails(p) \/ AlreadyRunning(p)
             \/ ListenFails(p) \/ ClosesLock(p) \/ Returns(p) \/ Dies(p)
    BY <2>4 DEF Acquire, AcquireReturnsLock, AcquireFails, AlreadyRunning, ListenFails,
                ClosesLock, Returns, Dies, appVars
  <2>5. CASE ReadLive(p) \/ Stops(p) \/ CloseServer(p) \/ StartupUpdateFails(p)
    BY <2>0, <2>5 DEF ReadLive, Stops, CloseServer, StartupUpdateFails, UpdateFails,
                      instanceVars
  <2>6. CASE StartupUpdate(p)
    BY <2>0, <2>6 DEF StartupUpdate, Update
  <2>7. CASE BrowserStep(p)
    BY <2>0, <2>7 DEF BrowserStep, BrowserConnects, BrowserLeaves, Changes, OnChange, Update,
                      UpdateFails, instanceVars
  <2> QED
    BY <2>1, <2>2, <2>3, <2>4, <2>5, <2>6, <2>7 DEF AppStep, RunStep, StartStep, StopStep
<1>3. live'[p] \/ (\E b \in BOOLEAN : callbacks'[p][b] > 0) => port'[p] \in Ports
  <2>1. CASE ListensConfigured(p) \/ ListensEphemeral(p)
    BY <2>1, PortsAssumption DEF ListensConfigured, ListensEphemeral, Listens, ATypeOK
  <2>2. CASE BrowserConnects(p)
    BY <2>2, PortsAssumption DEF BrowserConnects, Changes, NoPort, ATypeOK
  <2>3. CASE BrowserLeaves(p)
    BY <2>3 DEF BrowserLeaves, Changes, PortKnown
  <2>4. ASSUME NEW b \in BOOLEAN, OnChange(p, b)
        PROVE  port'[p] \in Ports
    BY <2>4 DEF OnChange, PortKnown
  <2>5. CASE \/ LoadsToken(p) \/ Acquire(p) \/ AcquireReturnsLock(p) \/ AcquireFails(p)
             \/ AlreadyRunning(p) \/ ListenFails(p) \/ ReadLive(p) \/ StartupUpdate(p)
             \/ StartupUpdateFails(p) \/ StopStep(p) \/ Dies(p)
    <3>1. UNCHANGED <<port, live, callbacks>>
      BY <2>5 DEF LoadsToken, Acquire, AcquireReturnsLock, AcquireFails, AlreadyRunning,
         ListenFails, ReadLive, StartupUpdate, StartupUpdateFails, StopStep, Stops,
         CloseServer, ClosesLock, Returns, Dies, appVars, browserVars
    <3> QED
      BY <3>1 DEF PortKnown
  <2> QED
    BY <2>1, <2>2, <2>3, <2>4, <2>5 DEF AppStep, RunStep, StartStep, BrowserStep
<1> QED
  BY <1>1, <1>2, <1>3 DEF ConfiguredOpen, PortKnown, Listening

\* The port in state.json: only the bridge with the lock writes it, first
\* before it serves, then from its callbacks with the same port.
LEMMA PortRecordedStep ==
  ASSUME InstanceInv, InstanceInv', ATypeOK, ATypeOK', RunAndLock, PortKnown, PortRecorded,
         NEW p \in Procs, AppStep(p)
  PROVE  PortRecorded'
<1> SUFFICES ASSUME NEW q \in Procs, pc'[q] = "serve", lock'[q] = "open"
             PROVE  stateFile'.port = port'[q]
  BY DEF PortRecorded, InstanceInv, OwnerRecorded
<1>1. CASE q # p
  <2>1. pc[q] = "serve" /\ port'[q] = port[q]
    BY <1>1, OtherRuns
  <2>2. lock[q] = "open" /\ stateFile' = stateFile
    <3>1. CASE InstanceStep(p)
      <4>1. lock[q] = "open"
        BY <1>1, <3>1, OtherLocks DEF InstanceInv
      <4>2. holder = q
        BY <4>1 DEF InstanceInv, HolderLocks
      <4> QED
        BY <1>1, <3>1, <4>1, <4>2, WriterHolds DEF InstanceInv
    <3>2. CASE UNCHANGED instanceVars
      BY <3>2 DEF instanceVars
    <3> QED
      BY <3>1, <3>2, AppUsesLock
  <2> QED
    BY <2>1, <2>2 DEF PortRecorded
<1>2. CASE q = p
  <2>1. CASE StartupUpdate(p)
    <3>1. lock[p] = "open" /\ port' = port
      BY <2>1 DEF StartupUpdate, PcAt, RunAndLock, RunAndLockOf
    <3> QED
      BY <1>2, <2>1, <3>1 DEF StartupUpdate, Update, Written
  <2>2. ASSUME NEW b \in BOOLEAN, OnChange(p, b)
        PROVE  stateFile'.port = port'[q]
    <3>1. pc[p] = "serve" /\ lock[p] = "open" /\ port' = port
      BY <1>2, <2>2 DEF OnChange, Update, UpdateFails, instanceVars
    <3>2. CASE Update(p, port[p], b)
      BY <1>2, <3>1, <3>2 DEF Update, Written
    <3>3. CASE UpdateFails(p)
      BY <1>2, <3>1, <3>3 DEF UpdateFails, instanceVars, PortRecorded
    <3> QED
      BY <2>2, <3>2, <3>3 DEF OnChange
  <2>3. CASE BrowserConnects(p) \/ BrowserLeaves(p)
    BY <1>2, <2>3 DEF BrowserConnects, BrowserLeaves, Changes, instanceVars, PortRecorded
  <2>4. CASE ListensConfigured(p) \/ ListensEphemeral(p)
    BY <1>2, <2>4 DEF ListensConfigured, ListensEphemeral, Listens, PcAt, HasLock,
                      instanceVars, ATypeOK
  <2>5. CASE \/ Acquire(p) \/ AcquireReturnsLock(p) \/ AcquireFails(p) \/ AlreadyRunning(p)
             \/ ListenFails(p) \/ ReadLive(p) \/ StartupUpdateFails(p) \/ Stops(p)
             \/ CloseServer(p) \/ ClosesLock(p) \/ Returns(p) \/ Dies(p)
    BY <1>2, <2>5 DEF Acquire, AcquireReturnsLock, AcquireFails, AlreadyRunning, ListenFails,
       ReadLive, StartupUpdateFails, Stops, CloseServer, ClosesLock, Returns, Dies, PcAt,
       appVars, browserVars, ATypeOK
  <2>6. CASE LoadsToken(p)
    BY <1>2, <2>6, LoadsTo DEF ATypeOK
  <2> QED
    BY <2>1, <2>2, <2>3, <2>4, <2>5, <2>6 DEF AppStep, RunStep, StartStep, BrowserStep, StopStep
<1> QED
  BY <1>1, <1>2

-----------------------------------------------------------------------------
(* What the processes guarantee                                            *)

\* AppInv is inductive for any interleaving of the processes.
THEOREM AppInvariance == ASpec => []AppInv
<1>1. AppInv /\ [ANext]_allVars => AppInv'
  <2> SUFFICES ASSUME AppInv, [ANext]_allVars
               PROVE  AppInv'
    OBVIOUS
  <2>1. InstanceInv' /\ TokenInv'
    BY InstanceSimulated, InstanceInvStep, TokenSimulated, TokenInvStep DEF AppInv
  <2>2. CASE UNCHANGED allVars
    <3>1. ATypeOK'
      BY <2>1, <2>2 DEF allVars, appVars, browserVars, AppInv, ATypeOK, InstanceInv, TokenInv
    <3>2. RunAndLock' /\ ConfiguredOpen' /\ PortKnown' /\ PortRecorded'
      BY <2>2 DEF allVars, appVars, browserVars, instanceVars, AppInv, RunAndLock,
                  RunAndLockOf, ConfiguredOpen, PortKnown, PortRecorded, Listening
    <3> QED
      BY <2>1, <3>1, <3>2 DEF AppInv
  <2>3. ASSUME NEW p \in Procs, AppStep(p)
        PROVE  AppInv'
    <3>1. ATypeOK'
      BY <2>1, <2>3, ATypeStep DEF AppInv, InstanceInv, TokenInv
    <3>2. RunAndLock'
      BY <2>3, RunAndLockStep DEF AppInv
    <3>3. ConfiguredOpen' /\ PortKnown'
      BY <2>3, <3>1, <3>2, PortStep DEF AppInv
    <3>4. PortRecorded'
      BY <2>1, <2>3, <3>1, PortRecordedStep DEF AppInv
    <3> QED
      BY <2>1, <3>1, <3>2, <3>3, <3>4 DEF AppInv
  <2> QED
    BY <2>2, <2>3 DEF ANext, AppStep
<1> QED
  BY AppInit, <1>1, PTL DEF ASpec

\* Every reachable state of the processes is well typed.
THEOREM ATypeCorrect == ASpec => []ATypeOK
BY AppInvariance, PTL DEF AppInv

\* App.Run of any number of processes uses the lock and state.json only in
\* the ways Instance describes.
THEOREM InstanceRefinement == ASpec => ISpec
<1>1. AInit => IInit
  BY DEF AInit
<1>2. AppInv /\ [ANext]_allVars => [INext]_instanceVars
  BY InstanceSimulated DEF AppInv
<1> QED
  BY <1>1, <1>2, AppInvariance, PTL DEF ASpec, ISpec

\* The properties of state.json hold of the bridges.
THEOREM BridgeState ==
  ASpec => []OwnerRecorded /\ []ClosedLeavesNothing /\ WrittenByHolder
BY InstanceRefinement, OwnerIsRecorded, NothingLeft, HolderWrites, PTL

\* The bridges use the token file the way Token describes, so all of them
\* have the token in the file.
THEOREM BridgesAgree == ASpec => []TokensAgree
BY AppInvariance, PTL DEF AppInv, TokenInv

\* A serving bridge with the lock has the port it listens on in state.json,
\* whichever of start-up and a callback wrote last (app.go:93-121).
THEOREM PortIsRecorded == ASpec => []PortRecorded
BY AppInvariance, PTL DEF AppInv

\* The fixed port is only served by the bridge with the OS lock: it is given
\* up before the lock is (app.go:86-116).
THEOREM FixedPortLocked == ASpec => []FixedPortHasLock
<1>1. AppInv => FixedPortHasLock
  BY DEF AppInv, ConfiguredOpen, FixedPortHasLock, InstanceInv, HolderLocks
<1> QED
  BY AppInvariance, <1>1, PTL

-----------------------------------------------------------------------------
(* Refinement: the browser of a bridge is what Presence allows             *)
(*                                                                         *)
(* Presence is what ColabWS was proved to implement (ServerPresence).      *)

Browser(p) == INSTANCE Presence
  WITH live <- live[p], registered <- HasLock(p), callbacks <- callbacks[p]

\* No browser can connect before the callback is registered (app.go:157).
QuietAtStart ==
  \A p \in Procs : pc[p] \in {"token", "acquire", "listen"} =>
    live[p] = FALSE /\ callbacks[p] = Browser(p)!Quiet

\* A browser's step leaves the run and the lock of its bridge where they are.
LEMMA BrowserOnly ==
  ASSUME ATypeOK, NEW p \in Procs, BrowserStep(p)
  PROVE  /\ UNCHANGED <<pc, lock>>
         /\ pc[p] \notin {"token", "acquire", "listen"}
              \/ \E connected \in BOOLEAN : callbacks[p][connected] > 0
BY DEF BrowserStep, BrowserConnects, BrowserLeaves, Changes, OnChange, Update, UpdateFails,
       Alive, instanceVars

\* Only a browser's step changes what the bridge sees of it.
LEMMA BridgeOnly ==
  ASSUME NEW p \in Procs, AppStep(p), ~BrowserStep(p)
  PROVE  UNCHANGED <<live, callbacks>>
<1> USE DEF browserVars
<1>1. CASE LoadsToken(p) \/ Dies(p)
  BY <1>1 DEF LoadsToken, Dies
<1>2. CASE StartStep(p)
  BY <1>2 DEF StartStep, Acquire, AcquireReturnsLock, AcquireFails, AlreadyRunning,
              ListensConfigured, ListensEphemeral, Listens, ListenFails, ReadLive,
              StartupUpdate, StartupUpdateFails, appVars
<1>3. CASE StopStep(p)
  BY <1>3 DEF StopStep, Stops, CloseServer, ClosesLock, Returns, appVars
<1> QED
  BY <1>1, <1>2, <1>3 DEF AppStep, RunStep

\* A run never goes back to its start.
LEMMA StartsOnce ==
  ASSUME ATypeOK, NEW p \in Procs, AppStep(p),
         pc'[p] \in {"token", "acquire", "listen"}
  PROVE  pc[p] \in {"token", "acquire", "listen"}
<1> USE DEF ATypeOK, PcAt
<1>1. CASE LoadsToken(p)
  BY <1>1 DEF LoadsToken
<1>2. CASE StartStep(p)
  BY <1>2 DEF StartStep, Acquire, AcquireReturnsLock, AcquireFails, AlreadyRunning,
              ListensConfigured, ListensEphemeral, Listens, ListenFails, ReadLive,
              StartupUpdate, StartupUpdateFails, appVars
<1>3. CASE BrowserStep(p)
  BY <1>3, BrowserOnly
<1>4. CASE StopStep(p)
  BY <1>4 DEF StopStep, Stops, CloseServer, ClosesLock, Returns, appVars
<1>5. CASE Dies(p)
  BY <1>5 DEF Dies
<1> QED
  BY <1>1, <1>2, <1>3, <1>4, <1>5 DEF AppStep, RunStep

\* Until the bridge listens nothing of a browser is seen, after a step too.
LEMMA QuietStep == ATypeOK /\ QuietAtStart /\ [ANext]_allVars => QuietAtStart'
<1> SUFFICES ASSUME ATypeOK, QuietAtStart, [ANext]_allVars
             PROVE  QuietAtStart'
  OBVIOUS
<1>1. CASE UNCHANGED allVars
  BY <1>1 DEF allVars, appVars, browserVars, QuietAtStart, Browser!Quiet
<1>2. ASSUME NEW p \in Procs, AppStep(p), NEW q \in Procs,
             pc'[q] \in {"token", "acquire", "listen"}
      PROVE  live'[q] = FALSE /\ callbacks'[q] = Browser(q)!Quiet
  <2>1. pc[q] \in {"token", "acquire", "listen"}
    BY <1>2, OtherRuns, StartsOnce
  <2>2. live[q] = FALSE /\ callbacks[q] = Browser(q)!Quiet
    BY <2>1 DEF QuietAtStart
  <2>3. live'[q] = live[q] /\ callbacks'[q] = callbacks[q]
    <3>1. CASE q # p
      BY <1>2, <3>1, OtherRuns
    <3>2. CASE q = p
      <4>1. \A connected \in BOOLEAN : ~(callbacks[p][connected] > 0)
        BY <2>2, <3>2 DEF Browser!Quiet
      <4>2. ~BrowserStep(p)
        BY <2>1, <3>2, <4>1, BrowserOnly
      <4> QED
        BY <1>2, <4>2, BridgeOnly
    <3> QED
      BY <3>1, <3>2
  <2> QED
    BY <2>2, <2>3
<1> QED
  BY <1>1, <1>2 DEF ANext, AppStep, QuietAtStart, Browser!Quiet

\* Apart from the browser's steps, Acquire registers the callback and a death
\* ends it; the lock that was had and closed still has its callback.
LEMMA LockRegisters ==
  ASSUME ATypeOK, RunAndLock, NEW p \in Procs, AppStep(p), ~BrowserStep(p)
  PROVE  \/ AcquireReturnsLock(p) /\ HasLock(p)'
         \/ HasLock(p)' = HasLock(p)
         \/ HasLock(p)' = FALSE
<1> USE DEF HasLock, ATypeOK, ITypeOK, PcAt
<1>1. CASE AcquireReturnsLock(p)
  BY <1>1 DEF AcquireReturnsLock, WriteInitial, LockAt
<1>2. CASE Acquire(p) \/ AcquireFails(p) \/ AlreadyRunning(p)
  BY <1>2 DEF Acquire, AcquireFails, AlreadyRunning, TryLock, LockHeld, LockFails,
              WriteInitialFails, ReadOwner, LockAt
<1>3. CASE ListensConfigured(p) \/ ListensEphemeral(p) \/ ListenFails(p) \/ ReadLive(p)
           \/ Stops(p) \/ CloseServer(p) \/ LoadsToken(p)
  BY <1>3 DEF ListensConfigured, ListensEphemeral, Listens, ListenFails, ReadLive, Stops,
              CloseServer, LoadsToken, instanceVars
<1>4. CASE StartupUpdate(p) \/ StartupUpdateFails(p)
  BY <1>4 DEF StartupUpdate, StartupUpdateFails, Update, UpdateFails, instanceVars
<1>5. CASE ClosesLock(p)
  BY <1>5 DEF ClosesLock, CloseRemoves, CloseKeeps, LockAt
<1>6. CASE Returns(p)
  BY <1>6 DEF Returns, CloseUnlocks, LockAt, instanceVars
<1>7. CASE Dies(p)
  BY <1>7 DEF Dies, Crash
<1> QED
  BY <1>1, <1>2, <1>3, <1>4, <1>5, <1>6, <1>7 DEF AppStep, RunStep, StartStep, StopStep

\* The steps of a browser are those of Presence.
LEMMA BrowserSimulated ==
  ASSUME ATypeOK, NEW p \in Procs, BrowserStep(p)
  PROVE  Browser(p)!PresenceNext
<1>l. HasLock(p)' = HasLock(p)
  BY BrowserOnly DEF HasLock
<1>1. ASSUME NEW connected \in BOOLEAN, Changes(p, connected), live[p] = ~connected
      PROVE  Browser(p)!Changes(connected)
  <2>1. live'[p] = connected
    BY <1>1 DEF Changes, ATypeOK
  <2>2. callbacks'[p] = IF HasLock(p) THEN [callbacks[p] EXCEPT ![connected] = @ + 1]
                                      ELSE callbacks[p]
    BY <1>1 DEF Changes, ATypeOK
  <2> QED
    BY <1>1, <1>l, <2>1, <2>2 DEF Browser!Changes
<1>2. CASE BrowserConnects(p)
  <2>1. live[p] = FALSE
    BY <1>2 DEF BrowserConnects, ATypeOK
  <2> QED
    BY <1>1, <1>2, <2>1 DEF BrowserConnects, Browser!PresenceNext
<1>3. CASE BrowserLeaves(p)
  <2>1. live[p] = TRUE
    BY <1>3 DEF BrowserLeaves, ATypeOK
  <2> QED
    BY <1>1, <1>3, <2>1 DEF BrowserLeaves, Browser!PresenceNext
<1>4. ASSUME NEW connected \in BOOLEAN, OnChange(p, connected)
      PROVE  Browser(p)!CallbackReturns(connected)
  <2>1. callbacks'[p] = [callbacks[p] EXCEPT ![connected] = @ - 1]
    BY <1>4 DEF OnChange, ATypeOK
  <2> QED
    BY <1>4, <1>l, <2>1 DEF OnChange, Browser!CallbackReturns
<1> QED
  BY <1>2, <1>3, <1>4 DEF BrowserStep, Browser!PresenceNext

\* Every step is, for the browser of each bridge, a step of Presence or none.
LEMMA PresenceSimulated ==
  ASSUME NEW p \in Procs
  PROVE  AppInv /\ QuietAtStart /\ [ANext]_allVars
           => [Browser(p)!PresenceNext]_(Browser(p)!presenceVars)
<1> SUFFICES ASSUME AppInv, QuietAtStart, [ANext]_allVars
             PROVE  Browser(p)!PresenceNext \/ UNCHANGED Browser(p)!presenceVars
  OBVIOUS
<1>t. ATypeOK /\ RunAndLock /\ PortKnown
  BY DEF AppInv
<1>1. CASE UNCHANGED allVars
  BY <1>1 DEF allVars, appVars, browserVars, instanceVars, HasLock, Browser!presenceVars
<1>2. ASSUME NEW q \in Procs, AppStep(q), q # p
      PROVE  UNCHANGED Browser(p)!presenceVars
  <2>1. lock'[p] = lock[p]
    BY <1>2, <1>t, AppUsesLock, OtherLocks DEF ATypeOK, instanceVars
  <2> QED
    BY <1>2, <1>t, <2>1, OtherRuns DEF HasLock, Browser!presenceVars
<1>3. ASSUME AppStep(p), ~BrowserStep(p)
      PROVE  Browser(p)!PresenceNext \/ UNCHANGED Browser(p)!presenceVars
  <2>1. live'[p] = live[p] /\ callbacks'[p] = callbacks[p]
    BY <1>3, BridgeOnly
  <2>2. CASE AcquireReturnsLock(p) /\ HasLock(p)'
    <3>1. live[p] = FALSE /\ callbacks[p] = Browser(p)!Quiet
      BY <2>2 DEF AcquireReturnsLock, PcAt, QuietAtStart
    <3> QED
      BY <2>1, <2>2, <3>1 DEF Browser!Registers, Browser!PresenceNext
  <2>3. CASE HasLock(p)' = HasLock(p)
    BY <2>1, <2>3 DEF Browser!presenceVars
  <2>4. CASE HasLock(p)' = FALSE
    BY <2>1, <2>4 DEF Browser!Ends, Browser!PresenceNext
  <2> QED
    BY <1>3, <1>t, <2>2, <2>3, <2>4, LockRegisters
<1> QED
  BY <1>1, <1>2, <1>3, <1>t, BrowserSimulated DEF ANext, AppStep

\* What App takes for granted of each bridge's server is no more and no other
\* than Presence, which the server implements: app.go:157, "no browser
\* connection transition can be missed".
THEOREM AppPresence == ASSUME NEW p \in Procs PROVE ASpec => Browser(p)!PresenceSpec
<1>1. AInit => QuietAtStart /\ Browser(p)!PresenceInit
  BY DEF AInit, QuietAtStart, HasLock, Browser!PresenceInit, Browser!Quiet
<1>2. ATypeOK /\ QuietAtStart /\ [ANext]_allVars => QuietAtStart'
  BY QuietStep
<1>3. AppInv /\ QuietAtStart /\ [ANext]_allVars
        => [Browser(p)!PresenceNext]_(Browser(p)!presenceVars)
  BY PresenceSimulated
<1>4. AppInv => ATypeOK
  BY DEF AppInv
<1> QED
  BY <1>1, <1>2, <1>3, <1>4, AppInvariance, PTL DEF ASpec, Browser!PresenceSpec

\* And App leaves nothing out: a running bridge whose server listens can take
\* any step of Presence, a change under the bound on browsers, a callback
\* once Update lets it through.
LEMMA PresenceAllowed ==
  ASSUME ATypeOK, NEW p \in Procs, NEW connected \in BOOLEAN,
         Alive(p), port[p] # NoPort,
         live' = [live EXCEPT ![p] = live'[p]],
         callbacks' = [callbacks EXCEPT ![p] = callbacks'[p]],
         UNCHANGED <<tokenVars, pc, port, seen>>
  PROVE  /\ /\ Browser(p)!Changes(connected) /\ UNCHANGED instanceVars
            /\ IF connected THEN /\ browsers[p] < MaxBrowsers
                                 /\ browsers' = [browsers EXCEPT ![p] = @ + 1]
                            ELSE UNCHANGED browsers
            => BrowserStep(p)
         /\ /\ Browser(p)!CallbackReturns(connected) /\ UNCHANGED browsers
            /\ Update(p, port[p], connected) \/ UpdateFails(p)
            => BrowserStep(p)
<1>1. ASSUME Browser(p)!Changes(connected), UNCHANGED instanceVars,
             IF connected THEN /\ browsers[p] < MaxBrowsers
                               /\ browsers' = [browsers EXCEPT ![p] = @ + 1]
                          ELSE UNCHANGED browsers
      PROVE  BrowserStep(p)
  <2>1. live[p] = ~connected /\ live' = [live EXCEPT ![p] = connected]
    BY <1>1 DEF Browser!Changes
  <2>2. callbacks' = IF HasLock(p) THEN [callbacks EXCEPT ![p][connected] = @ + 1]
                                   ELSE callbacks
    <3>1. CASE HasLock(p)
      BY <1>1, <3>1 DEF Browser!Changes, ATypeOK
    <3>2. CASE ~HasLock(p)
      BY <1>1, <3>2 DEF Browser!Changes, ATypeOK
    <3> QED
      BY <3>1, <3>2
  <2>3. Changes(p, connected)
    BY <1>1, <2>1, <2>2 DEF Changes
  <2>4. CASE connected = TRUE
    BY <1>1, <2>1, <2>3, <2>4 DEF BrowserStep, BrowserConnects
  <2>5. CASE connected = FALSE
    BY <1>1, <2>1, <2>3, <2>5 DEF BrowserStep, BrowserLeaves
  <2> QED
    BY <2>4, <2>5
<1>2. ASSUME Browser(p)!CallbackReturns(connected), UNCHANGED browsers,
             Update(p, port[p], connected) \/ UpdateFails(p)
      PROVE  BrowserStep(p)
  <2>1. UNCHANGED live /\ callbacks[p][connected] > 0
    <3>1. live'[p] = live[p] /\ callbacks[p][connected] > 0
      BY <1>2 DEF Browser!CallbackReturns
    <3>2. [live EXCEPT ![p] = live[p]] = live
      BY DEF ATypeOK
    <3> QED
      BY <3>1, <3>2
  <2>2. callbacks' = [callbacks EXCEPT ![p][connected] = @ - 1]
    BY <1>2 DEF Browser!CallbackReturns
  <2> QED
    BY <1>2, <2>1, <2>2 DEF BrowserStep, OnChange, Alive
<1> QED
  BY <1>1, <1>2
=============================================================================

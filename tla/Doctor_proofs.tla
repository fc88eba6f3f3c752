--------------------------- MODULE Doctor_proofs ---------------------------
(***************************************************************************)
(* Machine-checked proofs about Doctor, for any set of bridge processes:   *)
(* doctor is an observer of App, and what it puts together of its readings *)
(* is true of the bridge it names.                                         *)
(***************************************************************************)
EXTENDS Doctor, App_proofs

-----------------------------------------------------------------------------
(* The inductive invariant                                                 *)

\* Whoever is named in a state.json has had the lock, and cannot get it again.
HasOwned(s) == s # NoState => lock[s.pid] \in {"open", "removed", "kept", "closed", "left", "crashed"}

\* The report is there when doctor is done, and only then.
ReportWhenDone == /\ step # "done" => code = "none"
                  /\ step \in {"never", "ready"} => steady = NoProc
                  /\ step = "alive" => recorded # NoState

\* What doctor has read so far is true of a bridge that serves all the time.
SteadyReadings ==
  steady # NoProc =>
    /\ pc[steady] = "serve" /\ lock[steady] = "open"
    /\ option \in {NoPort, port[steady]}
    /\ step \notin {"state"} =>
         recorded # NoState /\ recorded.pid = steady /\ recorded.port = port[steady]
    /\ step \notin {"state", "alive"} => pidAlive

DocInv == /\ DocTypeOK
          /\ HasOwned(stateFile) /\ HasOwned(recorded)
          /\ ReportWhenDone
          /\ SteadyReadings
          /\ SteadyIsHealthy

\* doctor has read nothing.
LEMMA DocInitInv == DocInit /\ AppInv => DocInv
BY ProcsAssumption, NoStateAssumption
   DEF DocInit, AInit, IInit, AppInv, DocInv, DocTypeOK, Steps, NoPort, HasOwned,
       ReportWhenDone, SteadyReadings, SteadyIsHealthy

-----------------------------------------------------------------------------
(* The steps of the bridges                                                *)

\* A process that had the lock keeps it or gives it up for good.
LEMMA OwnedStays ==
  ASSUME ITypeOK, [INext]_instanceVars, NEW p \in Procs,
         lock[p] \in {"open", "removed", "kept", "closed", "left", "crashed"}
  PROVE  lock'[p] \in {"open", "removed", "kept", "closed", "left", "crashed"}
<1>1. CASE UNCHANGED instanceVars
  BY <1>1 DEF instanceVars
<1>2. ASSUME NEW q \in Procs, InstanceStep(q)
      PROVE  lock'[p] \in {"open", "removed", "kept", "closed", "left", "crashed"}
  BY <1>2 DEF ITypeOK, InstanceStep, TryLock, LockHeld, LockFails, ReadOwner, WriteInitial,
              Update, WriteInitialFails, UpdateFails, CloseRemoves, CloseKeeps, CloseUnlocks,
              Crash, LockAt, instanceVars
<1> QED
  BY <1>1, <1>2 DEF INext

\* A new state.json names the process that wrote it, which has the lock.
LEMMA WrittenOwned ==
  ASSUME ITypeOK, [INext]_instanceVars, HasOwned(stateFile)
  PROVE  HasOwned(stateFile)'
<1>1. CASE stateFile' = stateFile
  BY <1>1, OwnedStays DEF HasOwned, ITypeOK, State
<1>2. ASSUME NEW q \in Procs, InstanceStep(q), stateFile' # stateFile
      PROVE  HasOwned(stateFile)'
  BY <1>2, WrittenState
     DEF ITypeOK, InstanceStep, TryLock, LockHeld, LockFails, ReadOwner, WriteInitial, Update,
         WriteInitialFails, UpdateFails, CloseRemoves, CloseKeeps, CloseUnlocks, Crash, LockAt,
         instanceVars, HasOwned, Written
<1> QED
  BY <1>1, <1>2 DEF INext, instanceVars

\* A bridge that serves on keeps its port.
LEMMA ServesOn ==
  ASSUME AppInv, AppInv', [ANext]_allVars, NEW p \in Procs,
         pc[p] = "serve", pc'[p] = "serve", lock[p] = "open"
  PROVE  lock'[p] = "open" /\ port'[p] = port[p]
<1>1. lock'[p] = "open"
  <2>1. lock'[p] \in {"open", "removed", "kept", "closed", "left", "crashed"}
    BY InstanceSimulated, OwnedStays DEF AppInv, InstanceInv
  <2> QED
    BY <2>1 DEF AppInv, RunAndLock, RunAndLockOf
<1>2. CASE UNCHANGED allVars
  BY <1>1, <1>2 DEF allVars, appVars
<1>3. ASSUME NEW q \in Procs, AppStep(q), q # p
      PROVE  port'[p] = port[p]
  BY <1>3, OtherRuns DEF AppInv
<1>4. CASE AppStep(p)
  <2>1. CASE LoadsToken(p) \/ Dies(p)
    BY <2>1, pc \in [Procs -> PCs] DEF LoadsToken, Dies, AppInv, ATypeOK
  <2>2. CASE StartStep(p)
    BY <2>2 DEF StartStep, Acquire, AcquireReturnsLock, AcquireFails, AlreadyRunning,
                ListensConfigured, ListensEphemeral, Listens, ListenFails, ReadLive,
                StartupUpdate, StartupUpdateFails, appVars, PcAt
  <2>3. CASE BrowserStep(p)
    <3>1. port' = port
      BY <2>3 DEF BrowserStep, BrowserConnects, BrowserLeaves, Changes, OnChange
    <3> QED
      BY <1>1, <3>1
  <2>4. CASE StopStep(p)
    BY <2>4, pc \in [Procs -> PCs]
       DEF StopStep, Stops, CloseServer, ClosesLock, Returns, appVars, PcAt, AppInv, ATypeOK
  <2> QED
    BY <1>4, <2>1, <2>2, <2>3, <2>4 DEF AppStep, RunStep
<1> QED
  BY <1>1, <1>2, <1>3, <1>4 DEF ANext, AppStep

\* Bridges do not disturb what doctor knows.
LEMMA BridgeStepInv ==
  ASSUME DocInv, AppInv, AppInv', BridgeStep
  PROVE  DocInv'
<1>1. /\ [ANext]_allVars /\ [INext]_instanceVars /\ ITypeOK
      /\ UNCHANGED <<step, option, recorded, pidAlive, tokenCheck, code>>
      /\ steady' = IF steady # NoProc /\ pc'[steady] = "serve" THEN steady ELSE NoProc
  BY InstanceSimulated DEF BridgeStep, readings, AppInv, InstanceInv
<1>2. DocTypeOK'
  BY <1>1 DEF DocInv, DocTypeOK, AppInv
<1>3. HasOwned(stateFile)'
  BY <1>1, WrittenOwned DEF DocInv
<1>4. HasOwned(recorded)'
  BY <1>1, OwnedStays DEF DocInv, DocTypeOK, HasOwned, State
<1>5. ReportWhenDone' /\ SteadyIsHealthy'
  BY <1>1 DEF DocInv, ReportWhenDone, SteadyIsHealthy
<1>6. SteadyReadings'
  <2> SUFFICES ASSUME steady' # NoProc
               PROVE  /\ pc'[steady] = "serve" /\ lock'[steady] = "open"
                      /\ port'[steady] = port[steady]
    BY <1>1 DEF DocInv, SteadyReadings
  <2>1. steady \in Procs /\ pc'[steady] = "serve" /\ pc[steady] = "serve" /\ lock[steady] = "open"
    BY <1>1 DEF DocInv, DocTypeOK, SteadyReadings
  <2> QED
    BY <1>1, <2>1, ServesOn
<1> QED
  BY <1>2, <1>3, <1>4, <1>5, <1>6 DEF DocInv

-----------------------------------------------------------------------------
(* The steps of doctor                                                     *)

\* Of the process that is recorded and answers on the recorded port, the lock
\* is open.
LEMMA AnswersOwn ==
  ASSUME DocInv, AppInv, recorded # NoState, Listening(recorded.pid)
  PROVE  /\ lock[recorded.pid] = "open" /\ holder = recorded.pid
         /\ stateFile # NoState /\ stateFile.pid = recorded.pid
<1>1. recorded.pid \in Procs
  BY DEF DocInv, DocTypeOK, State
<1>2. lock[recorded.pid] = "open"
  BY <1>1 DEF DocInv, HasOwned, AppInv, RunAndLock, RunAndLockOf, Listening
<1> QED
  BY <1>1, <1>2 DEF AppInv, InstanceInv, HolderLocks, OwnerRecorded

\* The bridge that has served all the time answers on the port doctor asks
\* for, and it alone.
LEMMA SteadyAnswers ==
  ASSUME DocInv, AppInv, steady # NoProc, step \in {"dial", "health"}
  PROVE  /\ Answers(steady) /\ pc[steady] = "serve" /\ Number = recorded.port
         /\ recorded # NoState /\ recorded.pid = steady /\ pidAlive
         /\ \A q \in Procs : Answers(q) => q = steady
<1>1. /\ steady \in Procs /\ pc[steady] = "serve" /\ lock[steady] = "open"
      /\ recorded # NoState /\ recorded.pid = steady /\ recorded.port = port[steady] /\ pidAlive
      /\ option \in {NoPort, port[steady]}
  BY DEF DocInv, DocTypeOK, SteadyReadings
<1>2. port[steady] \in Ports /\ NoPort \notin Ports
  BY <1>1, PortsAssumption DEF AppInv, PortKnown, Listening, NoPort
<1>3. Number = port[steady]
  BY <1>1, <1>2 DEF Number
<1>4. Answers(steady)
  BY <1>1, <1>3 DEF Answers, Listening
<1>5. ASSUME NEW q \in Procs, Answers(q)
      PROVE  q = steady
  <2>1. CASE Number = "ephemeral"
    BY <1>1, <1>5, <2>1 DEF Answers
  <2>2. CASE Number = "configured"
    BY <1>1, <1>3, <1>5, <2>2
       DEF Answers, AppInv, ConfiguredOpen, InstanceInv, HolderLocks
  <2> QED
    BY <1>2, <1>3, <2>1, <2>2, PortsAssumption
<1> QED
  BY <1>1, <1>3, <1>4, <1>5

\* A diagnosis is one of the codes.
LEMMA DiagnoseCodes ==
  ASSUME NEW listening \in BOOLEAN, NEW health, NEW knownErrors \in BOOLEAN
  PROVE  Diagnose(listening, health, knownErrors) \in Codes
BY DEF Diagnose, Codes

\* doctor's readings are of the bridge that serves all the time.
LEMMA DoctorReads ==
  ASSUME DocInv, AppInv,
         DoctorBegins \/ InspectState \/ InspectProcess \/ StatToken \/ ValidateToken \/ DialAccepted
  PROVE  DocInv'
<1>0. UNCHANGED allVars /\ code' = code /\ AppInv
  BY DEF DoctorBegins, InspectState, InspectProcess, StatToken, ValidateToken, DialAccepted
<1>1. UNCHANGED <<stateFile, holder, lock, pc, port>> /\ ATypeOK'
  BY <1>0 DEF allVars, instanceVars, appVars, tokenVars, browserVars, AppInv, ATypeOK, ITypeOK,
              TTypeOK
<1> USE <1>0, <1>1
    DEF DocInv, DocTypeOK, HasOwned, ReportWhenDone, SteadyReadings, SteadyIsHealthy, Steps,
        StepAt, readings
<1>2. CASE DoctorBegins
  BY <1>2 DEF DoctorBegins, Steadily
<1>3. CASE InspectState
  BY <1>3 DEF InspectState, AppInv, PortRecorded, ATypeOK, ITypeOK
<1>4. CASE InspectProcess
  BY <1>4 DEF InspectProcess
<1>5. CASE StatToken
  BY <1>5 DEF StatToken
<1>6. CASE ValidateToken
  BY <1>6 DEF ValidateToken
<1>7. CASE DialAccepted
  BY <1>7 DEF DialAccepted
<1> QED
  BY <1>2, <1>3, <1>4, <1>5, <1>6, <1>7

\* And its diagnosis of that bridge is that it is healthy.
LEMMA DoctorReports ==
  ASSUME DocInv, AppInv, DialRefused \/ HealthFails \/ \E p \in Procs : HealthNames(p)
  PROVE  DocInv'
<1>1. /\ UNCHANGED <<allVars, option, recorded, pidAlive, tokenCheck, steady>>
      /\ step \in {"dial", "health"} /\ step' = "done"
  BY DEF DialRefused, HealthFails, HealthNames, Reports, StepAt, readings
<1>2. UNCHANGED <<stateFile, holder, lock, pc, port>> /\ ATypeOK'
  BY <1>1 DEF allVars, instanceVars, appVars, tokenVars, browserVars, AppInv, ATypeOK, ITypeOK,
              TTypeOK
<1>3. code' \in Codes
  BY DiagnoseCodes DEF DialRefused, HealthFails, HealthNames, Reports
<1>4. ASSUME steady # NoProc
      PROVE  code' \in {"healthy", "invalid_token_file", "missing_token_file"}
  <2>1. PICK p \in Procs : HealthNames(p)
    BY <1>1, <1>4, SteadyAnswers DEF DialRefused, HealthFails, DocInv, DocTypeOK
  <2>2. p = steady
    BY <1>1, <1>4, <2>1, SteadyAnswers DEF HealthNames
  <2>3. PICK knownErrors \in BOOLEAN : code' = Diagnose(TRUE, steady, knownErrors)
    BY <2>1, <2>2 DEF HealthNames, Reports
  <2> QED
    BY <1>1, <1>4, <2>3, SteadyAnswers DEF Diagnose
<1> QED
  BY <1>1, <1>2, <1>3, <1>4
     DEF DocInv, DocTypeOK, Steps, HasOwned, ReportWhenDone, SteadyReadings, SteadyIsHealthy

-----------------------------------------------------------------------------
(* What doctor guarantees                                                  *)

\* doctor only looks: the bridges behave as if it were not there.
THEOREM DoctorObserves == DocSpec => ASpec
<1>1. DocInit => AInit
  BY DEF DocInit
<1>2. [DocNext]_doctorVars => [ANext]_allVars
  BY DEF DocNext, DoctorStep, BridgeStep, DoctorBegins, InspectState, InspectProcess, StatToken,
         ValidateToken, DialAccepted, DialRefused, HealthFails, HealthNames, Reports, doctorVars
<1> QED
  BY <1>1, <1>2, PTL DEF DocSpec, ASpec

\* DocInv holds of doctor beside any number of bridges.
THEOREM DoctorInvariance == DocSpec => [](DocInv /\ AppInv)
<1>1. DocInit /\ AppInv => DocInv
  BY DocInitInv
<1>2. DocInv /\ AppInv /\ AppInv' /\ [DocNext]_doctorVars => DocInv'
  <2> SUFFICES ASSUME DocInv, AppInv, AppInv', [DocNext]_doctorVars
               PROVE  DocInv'
    OBVIOUS
  <2>1. CASE UNCHANGED doctorVars
    <3>1. DocTypeOK'
      BY <2>1 DEF doctorVars, docVars, readings, DocInv, DocTypeOK, AppInv
    <3> QED
      BY <2>1, <3>1 DEF doctorVars, docVars, readings, allVars, instanceVars, appVars, DocInv,
                        HasOwned, ReportWhenDone, SteadyReadings, SteadyIsHealthy
  <2> QED
    BY <2>1, BridgeStepInv, DoctorReads, DoctorReports DEF DocNext, DoctorStep
<1> QED
  BY <1>1, <1>2, DoctorObserves, AppInvariance, PTL DEF DocSpec

\* The variables of doctor and of the bridges keep their types.
THEOREM DocTypeCorrect == DocSpec => []DocTypeOK
BY DoctorInvariance, PTL DEF DocInv

\* A bridge that serves throughout is diagnosed as healthy (doctor.go:91-108
\* and 341-400), for any number of other bridges.
THEOREM NoFalseAlarm == DocSpec => []SteadyIsHealthy
BY DoctorInvariance, PTL DEF DocInv

\* A healthy verdict is about one bridge, which has the lock at that moment.
THEOREM HealthyOwner == DocSpec => HealthyIsOwner
<1>1. DocInv /\ AppInv /\ [DocNext]_doctorVars =>
        [code' = "healthy" /\ code = "none" =>
           LET p == recorded.pid IN
             /\ holder = p
             /\ stateFile # NoState /\ stateFile.pid = p
             /\ Listening(p) /\ port[p] = recorded.port]_doctorVars
  <2> SUFFICES ASSUME DocInv, AppInv, DocNext, code' = "healthy", code = "none"
               PROVE  /\ holder = recorded.pid
                      /\ stateFile # NoState /\ stateFile.pid = recorded.pid
                      /\ Listening(recorded.pid) /\ port[recorded.pid] = recorded.port
    BY DEF doctorVars
  <2>1. PICK listening \in BOOLEAN, health \in Procs \cup {NoProc}, knownErrors \in BOOLEAN :
          /\ code' = Diagnose(listening, health, knownErrors)
          /\ health # NoProc => Answers(health)
    BY DEF DocNext, DoctorStep, BridgeStep, DoctorBegins, InspectState, InspectProcess, StatToken,
           ValidateToken, DialAccepted, DialRefused, HealthFails, HealthNames, Reports
  <2>2. /\ health # NoProc /\ recorded # NoState
        /\ recorded.pid = health /\ recorded.port = Number
    BY <2>1 DEF Diagnose
  <2>3. Listening(recorded.pid) /\ port[recorded.pid] = recorded.port
    BY <2>1, <2>2 DEF Answers
  <2> QED
    BY <2>2, <2>3, AnswersOwn
<1> QED
  BY <1>1, DoctorInvariance, PTL DEF DocSpec, HealthyIsOwner
=============================================================================

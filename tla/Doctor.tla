------------------------------- MODULE Doctor -------------------------------
(***************************************************************************)
(* doctor.Run of internal/doctor beside the bridges of App: it reads       *)
(* state.json, asks whether the recorded process is alive, looks at the    *)
(* token file, dials the port and asks /healthz who is there, one after    *)
(* the other, while bridges start, stop and die.  The diagnosis is made of *)
(* these readings, each of a moment of its own.                            *)
(*                                                                         *)
(* A process id is not used again, and an ephemeral port belongs to the    *)
(* process that got it.  A bridge that serves answers in time.  Another    *)
(* program may be on the configured port while no bridge is.               *)
(***************************************************************************)
EXTENDS App

VARIABLES
  step,        \* where doctor.Run is ("never": it is not called)
  option,      \* Options.Port: the configured port, or NoPort to infer it
  recorded,    \* StateCheck.Data, or NoState
  pidAlive,    \* StateCheck.PIDAlive
  tokenCheck,  \* TokenCheck: whether the file exists, and is valid
  code,        \* Report.DiagnosisCode
  steady       \* a bridge that has served, with the lock, since doctor began

readings == <<option, recorded, pidAlive, tokenCheck>>
docVars  == <<step, readings, code, steady>>
doctorVars == <<allVars, docVars>>

Steps == {"never", "ready", "state", "alive", "stat", "validate", "dial", "health", "done"}

Codes == {"port_in_use_by_other_process", "stale_state", "missing_state", "state_mismatch",
          "state_without_listener", "invalid_token_file", "missing_token_file", "healthy",
          "port_unknown", "recent_startup_error", "not_running"}

\* The types of doctor's variables and of those of the bridges beside it, in
\* which no callback runs more often than it was called for.
DocTypeOK == /\ ATypeOK
             /\ step \in Steps
             /\ option \in {"configured", NoPort}
             /\ recorded \in State \cup {NoState}
             /\ pidAlive \in BOOLEAN
             /\ tokenCheck \in {"missing", "invalid", "valid"}
             /\ code \in Codes \cup {"none"}
             /\ steady \in Procs \cup {NoProc}

DocInit == /\ AInit
           /\ step \in {"never", "ready"}
           /\ option = NoPort
           /\ recorded = NoState
           /\ pidAlive = FALSE
           /\ tokenCheck = "missing"
           /\ code = "none"
           /\ steady = NoProc

StepAt(from, to) == step = from /\ step' = to

\* p serves with the lock, on the port doctor is asked about.
Steadily(p, number) == /\ pc[p] = "serve" /\ lock[p] = "open"
                       /\ number \in {NoPort, port[p]}

DoctorBegins ==
  /\ StepAt("ready", "state")
  /\ option' \in {"configured", NoPort}
  /\ steady' \in IF \E p \in Procs : Steadily(p, option')
                   THEN {p \in Procs : Steadily(p, option')} ELSE {NoProc}
  /\ UNCHANGED <<allVars, recorded, pidAlive, tokenCheck, code>>

-----------------------------------------------------------------------------
(* inspectState and inspectToken                                           *)

\* instance.Read: a file that is there is complete (writeLocked renames it).
InspectState ==
  /\ StepAt("state", IF stateFile = NoState THEN "stat" ELSE "alive")
  /\ recorded' = stateFile
  /\ UNCHANGED <<allVars, option, pidAlive, tokenCheck, code, steady>>

\* processAlive(state.PID)
InspectProcess ==
  /\ StepAt("alive", "stat")
  /\ pidAlive' = (pc[recorded.pid] \notin {"returned", "crashed"})
  /\ UNCHANGED <<allVars, option, recorded, tokenCheck, code, steady>>

\* os.Lstat of the token file ...
StatToken ==
  /\ StepAt("stat", IF tokenFile = NoFile THEN "dial" ELSE "validate")
  /\ UNCHANGED <<allVars, readings, code, steady>>

\* ... and ValidateTokenFile, for which it has to be there still and be whole.
ValidateToken ==
  /\ StepAt("validate", "dial")
  /\ tokenCheck' = IF tokenFile # NoFile /\ tokenFile.whole THEN "valid" ELSE "invalid"
  /\ UNCHANGED <<allVars, option, recorded, pidAlive, code, steady>>

-----------------------------------------------------------------------------
(* inspectPort and diagnose                                                *)

\* Fault: the port is not inferred from state.json.
NumberNotInferred == "configured"

\* Port.Number: what the caller says, or what state.json says, or unknown.
Number == IF option # NoPort THEN option
          ELSE IF recorded # NoState THEN recorded.port ELSE NoPort

\* Bridge p is on the port of that number.
Answers(p) == /\ Listening(p) /\ port[p] = Number
              /\ Number = "ephemeral" => p = recorded.pid

\* Fault: a process that is not the recorded one will do.
DiagnoseIgnoresPid(listening, health, knownErrors) ==
  IF listening /\ health = NoProc THEN "port_in_use_by_other_process"
  ELSE IF recorded # NoState /\ ~pidAlive THEN "stale_state"
  ELSE IF health # NoProc /\ recorded = NoState THEN "missing_state"
  ELSE IF health # NoProc /\ recorded.port # Number THEN "state_mismatch"
  ELSE IF tokenCheck = "invalid" THEN "invalid_token_file"
  ELSE IF health # NoProc THEN "healthy" ELSE "not_running"

\* The first that applies; health is the process /healthz names, if any.
Diagnose(listening, health, knownErrors) ==
  IF listening /\ health = NoProc THEN "port_in_use_by_other_process"
  ELSE IF recorded # NoState /\ ~pidAlive THEN "stale_state"
  ELSE IF health # NoProc /\ recorded = NoState THEN "missing_state"
  ELSE IF health # NoProc /\ (recorded.pid # health \/ recorded.port # Number)
    THEN "state_mismatch"
  ELSE IF recorded # NoState /\ ~listening THEN "state_without_listener"
  ELSE IF tokenCheck = "invalid" THEN "invalid_token_file"
  ELSE IF health # NoProc
    THEN IF tokenCheck = "missing" THEN "missing_token_file" ELSE "healthy"
  ELSE IF Number = NoPort THEN "port_unknown"
  ELSE IF knownErrors THEN "recent_startup_error" ELSE "not_running"

\* The log may hold a known error of whatever time.
Reports(listening, health) ==
  /\ \E knownErrors \in BOOLEAN : code' = Diagnose(listening, health, knownErrors)
  /\ UNCHANGED <<allVars, readings, steady>>

\* Somebody accepts the connection: a bridge, or another program.
DialAccepted ==
  /\ StepAt("dial", "health")
  /\ Number # NoPort
  /\ (\E p \in Procs : Answers(p)) \/ Number = "configured"
  /\ UNCHANGED <<allVars, readings, code, steady>>

\* No port to dial, or nobody is there; a bridge that is stopping may have
\* closed its listener.
DialRefused ==
  /\ StepAt("dial", "done")
  /\ \A p \in Procs : Answers(p) => pc[p] = "closeServer"
  /\ Reports(FALSE, NoProc)

\* fetchHealth: the bridge that is there now names itself ...
HealthNames(p) ==
  /\ StepAt("health", "done")
  /\ Answers(p)
  /\ Reports(TRUE, p)

\* ... or there is none (any more), or no answer that identifies as one.
HealthFails ==
  /\ StepAt("health", "done")
  /\ \A p \in Procs : Answers(p) => pc[p] = "closeServer"
  /\ Reports(TRUE, NoProc)

-----------------------------------------------------------------------------
DoctorStep == \/ DoctorBegins \/ InspectState \/ InspectProcess \/ StatToken \/ ValidateToken
              \/ DialAccepted \/ DialRefused \/ HealthFails
              \/ \E p \in Procs : HealthNames(p)

\* doctor reads only, and the bridges do not know of it.
BridgeStep == /\ ANext
              /\ steady' = IF steady # NoProc /\ pc'[steady] = "serve" THEN steady ELSE NoProc
              /\ UNCHANGED <<step, readings, code>>

DocNext == DoctorStep \/ BridgeStep

DocSpec == DocInit /\ [][DocNext]_doctorVars

-----------------------------------------------------------------------------
(* Properties                                                              *)

\* doctor.go: "colab-mcp-go is listening and its local state is consistent".
\* state.json, the process and the port are read one after the other, and yet
\* at the moment of a healthy verdict all three are of one bridge: the process
\* the report names has the lock, state.json is its own, and it is the one
\* that listens on the port the report names.
HealthyIsOwner ==
  [][code' = "healthy" /\ code = "none" =>
       LET p == recorded.pid IN
         /\ holder = p
         /\ stateFile # NoState /\ stateFile.pid = p
         /\ Listening(p) /\ port[p] = recorded.port]_doctorVars

\* No false alarm: a bridge that serves from before doctor's first reading to
\* after its last is found healthy, whatever other bridges start, fall back,
\* stop or die meanwhile.  (What is wrong with the token file is reported.)
SteadyIsHealthy ==
  code # "none" /\ steady # NoProc =>
    code \in {"healthy", "invalid_token_file", "missing_token_file"}
=============================================================================

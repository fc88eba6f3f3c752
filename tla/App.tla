-------------------------------- MODULE App --------------------------------
(***************************************************************************)
(* app.App.Run of several bridge processes with one configuration (a token *)
(* file and a fixed port): start-up with its fallbacks, the updates of     *)
(* state.json from the connection callbacks, and the deferred shutdown,    *)
(* over the token file of Token and the lock of Instance.  Of the          *)
(* WebSocket server there is only what App.Run sees of it: a browser that  *)
(* comes and goes (Live), and one callback for each change, run by some    *)
(* goroutine later on; that much is Presence, which ColabWS implements.    *)
(***************************************************************************)
EXTENDS Naturals, Instance, Token

CONSTANTS
  Strict,      \* the processes started with --no-fallback
  MaxBrowsers  \* bound: browser connections of one process

ASSUME StrictAssumption == Strict \subseteq Procs
ASSUME MaxBrowsersAssumption == MaxBrowsers \in Nat
ASSUME PortsAssumption == Ports = {"configured", "ephemeral"}

VARIABLES
  pc,        \* where App.Run is, per process
  port,      \* Server.port of a process, once it listens
  live,      \* Server.live
  seen,      \* what the start-up read of Live returned
  callbacks, \* OnConnectionChange callbacks under way, by their argument
  browsers   \* browser connections so far

browserVars == <<live, seen, callbacks, browsers>>
appVars == <<pc, port, browserVars>>
allVars == <<tokenVars, instanceVars, appVars>>

PCs == {"token", "acquire", "listen", "readLive", "update", "serve",
        "closeServer", "closeLock", "returned", "crashed"}
NoPort == "none"

ATypeOK == /\ TTypeOK
           /\ ITypeOK
           /\ pc \in [Procs -> PCs]
           /\ port \in [Procs -> Ports \cup {NoPort}]
           /\ live \in [Procs -> BOOLEAN]
           /\ seen \in [Procs -> BOOLEAN]
           /\ callbacks \in [Procs -> [BOOLEAN -> Nat]]
           /\ browsers \in [Procs -> 0..MaxBrowsers]

AInit == /\ TInit
         /\ IInit
         /\ pc = [p \in Procs |-> "token"]
         /\ port = [p \in Procs |-> NoPort]
         /\ live = [p \in Procs |-> FALSE]
         /\ seen = [p \in Procs |-> FALSE]
         /\ callbacks = [p \in Procs |-> [b \in BOOLEAN |-> 0]]
         /\ browsers = [p \in Procs |-> 0]

PcAt(p, from, to) == pc[p] = from /\ pc' = [pc EXCEPT ![p] = to]

\* Acquire returned a Lock, so there is an onChange callback and a deferred Close.
HasLock(p) == lock[p] \in {"open", "removed", "kept", "closed", "left"}

-----------------------------------------------------------------------------
(* Start-up                                                                *)

\* LoadOrCreateToken; an error ends App.Run.
LoadsToken(p) ==
  /\ pc[p] = "token"
  /\ TokenStep(p)
  /\ pc' = [pc EXCEPT ![p] = CASE loading'[p] = "loaded" -> "acquire"
                                [] loading'[p] = "error"  -> "returned"
                                [] OTHER -> "token"]
  /\ UNCHANGED <<instanceVars, port, browserVars>>

Acquire(p) == /\ pc[p] = "acquire"
              /\ TryLock(p) \/ LockHeld(p)
              /\ UNCHANGED <<tokenVars, appVars>>

AcquireReturnsLock(p) == /\ PcAt(p, "acquire", "listen")
                         /\ WriteInitial(p, "configured")
                         /\ UNCHANGED <<tokenVars, port, browserVars>>

AcquireFails(p) == /\ PcAt(p, "acquire", "returned")
                   /\ LockFails(p) \/ WriteInitialFails(p)
                   /\ UNCHANGED <<tokenVars, port, browserVars>>

\* AlreadyRunningError: go on without the lock, unless --no-fallback.
AlreadyRunning(p) == /\ PcAt(p, "acquire", IF p \in Strict THEN "returned" ELSE "listen")
                     /\ ReadOwner(p)
                     /\ UNCHANGED <<tokenVars, port, browserVars>>

Listening(p) == pc[p] \in {"readLive", "update", "serve", "closeServer"}

\* Without the lock the bind port is 0 and nothing is recorded.
Listens(p, n) == /\ PcAt(p, "listen", IF HasLock(p) THEN "readLive" ELSE "serve")
                 /\ port' = [port EXCEPT ![p] = n]
                 /\ UNCHANGED <<tokenVars, instanceVars, browserVars>>

\* Fault: a bridge without the lock keeps the configured port.
ListensUnlocked(p) ==
  /\ \A q \in Procs : ~(Listening(q) /\ port[q] = "configured")
  /\ Listens(p, "configured")

ListensConfigured(p) ==
  /\ HasLock(p)
  /\ \A q \in Procs : ~(Listening(q) /\ port[q] = "configured")
  /\ Listens(p, "configured")

\* Another program, or a bridge that is going away, has the configured port.
ListensEphemeral(p) == /\ HasLock(p) => p \notin Strict
                       /\ Listens(p, "ephemeral")

ListenFails(p) == /\ PcAt(p, "listen", "closeLock")
                  /\ UNCHANGED <<tokenVars, instanceVars, port, browserVars>>

\* stateLock.Update(ws.Port(), ws.Live()): Live is read before Update locks.
ReadLive(p) == /\ PcAt(p, "readLive", "update")
               /\ seen' = [seen EXCEPT ![p] = live[p]]
               /\ UNCHANGED <<tokenVars, instanceVars, port, live, callbacks, browsers>>

\* Fault: the port that was bound is not recorded at start-up.
StartupSkipsUpdate(p) == /\ PcAt(p, "update", "serve")
                         /\ UNCHANGED <<tokenVars, instanceVars, port, browserVars>>

StartupUpdate(p) == /\ PcAt(p, "update", "serve")
                    /\ Update(p, port[p], seen[p])
                    /\ UNCHANGED <<tokenVars, port, browserVars>>

StartupUpdateFails(p) == /\ PcAt(p, "update", "closeServer")
                         /\ UpdateFails(p)
                         /\ UNCHANGED <<tokenVars, port, browserVars>>

-----------------------------------------------------------------------------
(* The browser of a process, and the OnConnectionChange callbacks          *)

\* A request that was upgraded before the server closed may still be admitted.
Alive(p) == pc[p] \notin {"token", "acquire", "listen", "returned", "crashed"}

Changes(p, connected) ==
  /\ live' = [live EXCEPT ![p] = connected]
  /\ callbacks' = IF HasLock(p) THEN [callbacks EXCEPT ![p][connected] = @ + 1]
                                ELSE callbacks
  /\ UNCHANGED <<tokenVars, instanceVars, pc, port, seen>>

BrowserConnects(p) == /\ Alive(p) /\ ~live[p]
                      /\ port[p] # NoPort
                      /\ browsers[p] < MaxBrowsers
                      /\ browsers' = [browsers EXCEPT ![p] = @ + 1]
                      /\ Changes(p, TRUE)

BrowserLeaves(p) == /\ Alive(p) /\ live[p]
                    /\ Changes(p, FALSE)
                    /\ UNCHANGED browsers

\* The callback runs in its own goroutine: before, while or after App.Run
\* closes the lock, and possibly when App.Run has returned.
OnChange(p, connected) ==
  /\ pc[p] # "crashed" /\ callbacks[p][connected] > 0
  /\ callbacks' = [callbacks EXCEPT ![p][connected] = @ - 1]
  /\ Update(p, port[p], connected) \/ UpdateFails(p)
  /\ UNCHANGED <<tokenVars, pc, port, live, seen, browsers>>

-----------------------------------------------------------------------------
(* Shutdown: the deferred calls run in the reverse order                   *)

\* The context is done: the listener goes, and the manager returns.
Stops(p) == /\ PcAt(p, "serve", "closeServer")
            /\ UNCHANGED <<tokenVars, instanceVars, port, browserVars>>

\* ws.Close, once the manager has returned.
CloseServer(p) == /\ PcAt(p, "closeServer", "closeLock")
                  /\ UNCHANGED <<tokenVars, instanceVars, port, browserVars>>

ClosesLock(p) == /\ pc[p] = "closeLock"
                 /\ CloseRemoves(p) \/ CloseKeeps(p)
                 /\ UNCHANGED <<tokenVars, appVars>>

Returns(p) == /\ PcAt(p, "closeLock", "returned")
              /\ CloseUnlocks(p) \/ (~HasLock(p) /\ UNCHANGED instanceVars)
              /\ UNCHANGED <<tokenVars, port, browserVars>>

Dies(p) == /\ pc[p] # "returned"
           /\ pc' = [pc EXCEPT ![p] = "crashed"]
           /\ Crash(p)
           /\ TokenCrash(p) \/ (pc[p] # "token" /\ UNCHANGED tokenVars)
           /\ UNCHANGED <<port, browserVars>>

-----------------------------------------------------------------------------
StartStep(p) ==
  \/ Acquire(p) \/ AcquireReturnsLock(p) \/ AcquireFails(p) \/ AlreadyRunning(p)
  \/ ListensConfigured(p) \/ ListensEphemeral(p) \/ ListenFails(p)
  \/ ReadLive(p) \/ StartupUpdate(p) \/ StartupUpdateFails(p)

BrowserStep(p) == \/ BrowserConnects(p) \/ BrowserLeaves(p)
                  \/ \E connected \in BOOLEAN : OnChange(p, connected)

StopStep(p) == Stops(p) \/ CloseServer(p) \/ ClosesLock(p) \/ Returns(p)

RunStep(p) == StartStep(p) \/ BrowserStep(p) \/ StopStep(p)

ANext == \E p \in Procs : LoadsToken(p) \/ RunStep(p) \/ Dies(p)

ASpec == AInit /\ [][ANext]_allVars

-----------------------------------------------------------------------------
(* Properties                                                              *)

\* README: the state records the "bound port".  Once a bridge with the lock
\* serves, state.json names the port it listens on, whichever of start-up and
\* a browser's callback wrote it last.
PortRecorded ==
  \A p \in Procs : pc[p] = "serve" /\ lock[p] = "open" =>
    stateFile # NoState /\ stateFile.pid = p /\ stateFile.port = port[p]

\* README: "Only the first process can own the fixed port and the state lock."
\* The fixed port is only ever served by the bridge that has the state lock.
FixedPortHasLock ==
  \A p \in Procs : Listening(p) /\ port[p] = "configured" => holder = p

\* README: the state records the "browser connection state"; app.go:157 "no
\* browser connection transition can be missed".  With no callback under way,
\* a serving bridge with the lock has the state of its browser in state.json.
ConnectionRecorded ==
  \A p \in Procs :
    pc[p] = "serve" /\ lock[p] = "open" /\ callbacks[p] = [b \in BOOLEAN |-> 0]
      => stateFile # NoState /\ stateFile.ws_connected = live[p]
=============================================================================

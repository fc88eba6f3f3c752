------------------------------ MODULE Instance ------------------------------
(***************************************************************************)
(* The single-instance lock and state.json of internal/instance, shared by *)
(* the bridge processes that use one token directory.  The OS lock on      *)
(* state.json.lock is external: one process holds it, an attempt never     *)
(* waits, and the kernel gives it up when the process dies.                *)
(*                                                                         *)
(* writeLocked replaces state.json by renaming a complete temporary file,  *)
(* so a write is one step and a reader never sees half of it; a write that *)
(* fails, or a process that dies before the rename, leaves the old file.   *)
(* Lock.Close removes the file and unlocks in two steps, with Lock.mu held *)
(* over both, so an Update waits for it and then finds the lock closed.    *)
(***************************************************************************)
EXTENDS Processes

CONSTANTS
  NoState,  \* state.json does not exist
  Ports     \* the ports state.json can name

\* state.json; started_at and last_updated tell no property apart.
State == [pid : Procs, port : Ports, ws_connected : BOOLEAN]

ASSUME NoStateAssumption == NoState \notin State

VARIABLES
  stateFile,  \* state.json
  holder,     \* the process that holds the OS lock
  lock,       \* how far Acquire, or the Lock it returned, is, per process
  blocker     \* the process whose lock made Acquire fail, per process

instanceVars == <<stateFile, holder, lock, blocker>>

\* "kept" and "left": Close could not remove state.json.
LockStates == {"none", "refused", "told", "acquired", "failed", "open",
               "removed", "kept", "closed", "left", "crashed"}

ITypeOK == /\ stateFile \in State \cup {NoState}
           /\ holder \in Procs \cup {NoProc}
           /\ lock \in [Procs -> LockStates]
           /\ blocker \in [Procs -> Procs \cup {NoProc}]

IInit == /\ stateFile = NoState
         /\ holder = NoProc
         /\ lock = [p \in Procs |-> "none"]
         /\ blocker = [p \in Procs |-> NoProc]

LockAt(p, from, to) == lock[p] = from /\ lock' = [lock EXCEPT ![p] = to]

-----------------------------------------------------------------------------
(* Acquire                                                                 *)

TryLock(p) == /\ holder = NoProc
              /\ LockAt(p, "none", "acquired")
              /\ holder' = p
              /\ UNCHANGED <<stateFile, blocker>>

\* errLockHeld.
LockHeld(p) == /\ holder # NoProc
               /\ LockAt(p, "none", "refused")
               /\ blocker' = [blocker EXCEPT ![p] = holder]
               /\ UNCHANGED <<stateFile, holder>>

\* The lock file cannot be opened or locked.
LockFails(p) == /\ LockAt(p, "none", "failed")
                /\ UNCHANGED <<stateFile, holder, blocker>>

\* Read, for the owner that AlreadyRunningError names (if there is a file).
ReadOwner(p) == /\ LockAt(p, "refused", "told")
                /\ UNCHANGED <<stateFile, holder, blocker>>

Written(p, port, connected) == [pid |-> p, port |-> port, ws_connected |-> connected]

WriteInitial(p, port) == /\ LockAt(p, "acquired", "open")
                         /\ stateFile' = Written(p, port, FALSE)
                         /\ UNCHANGED <<holder, blocker>>

WriteInitialFails(p) == /\ DiskFails
                        /\ LockAt(p, "acquired", "failed")
                        /\ holder' = NoProc
                        /\ UNCHANGED <<stateFile, blocker>>

-----------------------------------------------------------------------------
(* Lock.Update and Lock.Close                                              *)

\* Fault: an Update does not look whether the lock was closed.
UpdateIgnoresClosed(p, port, connected) ==
  /\ lock[p] \in {"open", "closed", "left"}
  /\ stateFile' = Written(p, port, connected)
  /\ UNCHANGED <<holder, lock, blocker>>

Update(p, port, connected) ==
  /\ lock[p] \in {"open", "closed", "left"}
  /\ stateFile' = IF lock[p] = "open" THEN Written(p, port, connected) ELSE stateFile
  /\ UNCHANGED <<holder, lock, blocker>>

UpdateFails(p) == /\ DiskFails /\ lock[p] = "open"
                  /\ UNCHANGED instanceVars

CloseRemoves(p) == /\ LockAt(p, "open", "removed")
                   /\ stateFile' = NoState
                   /\ UNCHANGED <<holder, blocker>>

CloseKeeps(p) == /\ DiskFails
                 /\ LockAt(p, "open", "kept")
                 /\ UNCHANGED <<stateFile, holder, blocker>>

CloseUnlocks(p) == /\ LockAt(p, "removed", "closed") \/ LockAt(p, "kept", "left")
                   /\ holder' = NoProc
                   /\ UNCHANGED <<stateFile, blocker>>

-----------------------------------------------------------------------------
\* The process dies inside Acquire or with the lock; its files stay.
Crash(p) == /\ lock[p] \in {"none", "refused", "told", "acquired", "open", "removed", "kept"}
            /\ lock' = [lock EXCEPT ![p] = "crashed"]
            /\ holder' = IF holder = p THEN NoProc ELSE holder
            /\ UNCHANGED <<stateFile, blocker>>

InstanceStep(p) ==
  \/ TryLock(p) \/ LockHeld(p) \/ LockFails(p) \/ ReadOwner(p)
  \/ \E port \in Ports : \/ WriteInitial(p, port)
                         \/ \E connected \in BOOLEAN : Update(p, port, connected)
  \/ WriteInitialFails(p) \/ UpdateFails(p)
  \/ CloseRemoves(p) \/ CloseKeeps(p) \/ CloseUnlocks(p) \/ Crash(p)

INext == \E p \in Procs : InstanceStep(p)

ISpec == IInit /\ [][INext]_instanceVars

-----------------------------------------------------------------------------
(* Properties                                                              *)

\* README: "The state records the PID ..."; doctor looks the owner up there.
\* While a bridge has the lock open, state.json is there and is that
\* bridge's, whatever the bridge before it was doing when it stopped: no
\* late Update overwrites it and no late Close removes it.
OwnerRecorded ==
  \A p \in Procs : lock[p] = "open" => stateFile # NoState /\ stateFile.pid = p

\* README: state.json "is removed after a normal shutdown", and stays removed
\* although a callback of the last browser may still call Update.
ClosedLeavesNothing ==
  \A p \in Procs : lock[p] \in {"removed", "closed"} =>
    stateFile = NoState \/ stateFile.pid # p

\* state.json only changes in the hands of the process with the OS lock, and
\* what it writes is its own.
WrittenByHolder ==
  [][stateFile' # stateFile =>
       holder # NoProc /\ (stateFile' = NoState \/ stateFile'.pid = holder)]_instanceVars

\* state.go:39: AlreadyRunningError reports "the process that currently owns
\* the single-instance lock".  What a refused process would read names the
\* process that refused it, or the one that has the lock by now.
OwnerNamed ==
  \A p \in Procs : lock[p] = "refused" /\ stateFile # NoState =>
    stateFile.pid \in {blocker[p], holder}
=============================================================================

---------------------------- MODULE Files_proofs ----------------------------
(***************************************************************************)
(* Machine-checked proofs about the files that bridge processes share, for *)
(* any set of processes: Instance (who holds the OS lock, whose state.json *)
(* it is, and what is left of it) and Token (all of them end up with the   *)
(* token that is in the file).                                             *)
(***************************************************************************)
EXTENDS Instance, Token, TLAPS

-----------------------------------------------------------------------------
(* The OS lock and state.json                                              *)

\* The OS lock belongs to the process that is between Acquire's attempt and
\* the last step of Close.  A write is only reached from there, which is why
\* the two properties of state.json are inductive together with it.
HolderLocks ==
  \A p \in Procs : holder = p <=> lock[p] \in {"acquired", "open", "removed", "kept"}

InstanceInv == ITypeOK /\ HolderLocks /\ OwnerRecorded /\ ClosedLeavesNothing

\* What a process writes into state.json is a state, and its own.
LEMMA WrittenState ==
  ASSUME NEW p \in Procs, NEW port \in Ports, NEW connected \in BOOLEAN
  PROVE  /\ Written(p, port, connected) \in State
         /\ Written(p, port, connected).pid = p
         /\ Written(p, port, connected) # NoState
BY NoStateAssumption DEF Written, State

\* The properties hold before the first process starts.
LEMMA InstanceInit == IInit => InstanceInv
BY ProcsAssumption DEF IInit, InstanceInv, ITypeOK, LockStates, HolderLocks, OwnerRecorded,
                       ClosedLeavesNothing

\* A step of one process moves no other process's Lock.
LEMMA OtherLocks ==
  ASSUME ITypeOK, NEW p \in Procs, InstanceStep(p)
  PROVE  \A q \in Procs \ {p} : lock'[q] = lock[q]
BY DEF ITypeOK, InstanceStep, TryLock, LockHeld, LockFails, ReadOwner, WriteInitial, Update,
       WriteInitialFails, UpdateFails, CloseRemoves, CloseKeeps, CloseUnlocks, Crash, LockAt,
       instanceVars

\* Every step of a process keeps ITypeOK and HolderLocks.
LEMMA LockingStep ==
  ASSUME ITypeOK, HolderLocks, NEW p \in Procs, InstanceStep(p)
  PROVE  ITypeOK' /\ HolderLocks'
<1>1. CASE TryLock(p) \/ LockHeld(p) \/ LockFails(p) \/ ReadOwner(p)
  BY <1>1, ProcsAssumption DEF TryLock, LockHeld, LockFails, ReadOwner, LockAt, ITypeOK,
                               LockStates, HolderLocks
<1>2. ASSUME NEW port \in Ports, WriteInitial(p, port)
      PROVE  ITypeOK' /\ HolderLocks'
  BY <1>2, WrittenState DEF WriteInitial, LockAt, ITypeOK, LockStates, HolderLocks
<1>3. ASSUME NEW port \in Ports, NEW connected \in BOOLEAN, Update(p, port, connected)
      PROVE  ITypeOK' /\ HolderLocks'
  BY <1>3, WrittenState DEF Update, ITypeOK, HolderLocks
<1>4. CASE WriteInitialFails(p) \/ CloseUnlocks(p)
  BY <1>4, ProcsAssumption DEF WriteInitialFails, CloseUnlocks, LockAt, ITypeOK, LockStates,
                               HolderLocks
<1>5. CASE UpdateFails(p)
  BY <1>5 DEF UpdateFails, instanceVars, ITypeOK, HolderLocks
<1>6. CASE CloseRemoves(p) \/ CloseKeeps(p)
  BY <1>6 DEF CloseRemoves, CloseKeeps, LockAt, ITypeOK, LockStates, HolderLocks
<1>7. CASE Crash(p)
  BY <1>7, ProcsAssumption DEF Crash, ITypeOK, LockStates, HolderLocks
<1> QED
  BY <1>1, <1>2, <1>3, <1>4, <1>5, <1>6, <1>7 DEF InstanceStep

\* A change of state.json is made by the holder of the OS lock, and leaves
\* its own state or nothing.
LEMMA WriterHolds ==
  ASSUME ITypeOK, HolderLocks, NEW p \in Procs, InstanceStep(p), stateFile' # stateFile
  PROVE  /\ holder = p
         /\ stateFile' = NoState \/ stateFile'.pid = p
<1>1. ASSUME NEW port \in Ports, WriteInitial(p, port)
      PROVE  holder = p /\ stateFile'.pid = p
  BY <1>1, WrittenState DEF WriteInitial, LockAt, HolderLocks
<1>2. ASSUME NEW port \in Ports, NEW connected \in BOOLEAN, Update(p, port, connected)
      PROVE  holder = p /\ stateFile'.pid = p
  BY <1>2, WrittenState DEF Update, HolderLocks
<1>3. CASE CloseRemoves(p)
  BY <1>3 DEF CloseRemoves, LockAt, HolderLocks
<1> QED
  BY <1>1, <1>2, <1>3 DEF InstanceStep, TryLock, LockHeld, LockFails, ReadOwner,
     WriteInitialFails, UpdateFails, CloseKeeps, CloseUnlocks, Crash, instanceVars

\* Every step of a process keeps the two properties of state.json.
LEMMA StateFileStep ==
  ASSUME InstanceInv, ITypeOK', HolderLocks', NEW p \in Procs, InstanceStep(p)
  PROVE  OwnerRecorded' /\ ClosedLeavesNothing'
<1> USE DEF InstanceInv
<1>1. ASSUME NEW q \in Procs, lock'[q] = "open"
      PROVE  stateFile' # NoState /\ stateFile'.pid = q
  <2>1. CASE q # p
    <3>1. lock[q] = "open" /\ holder = q
      BY <1>1, <2>1, OtherLocks DEF HolderLocks
    <3>2. stateFile' = stateFile
      BY <2>1, <3>1, WriterHolds
    <3> QED
      BY <3>1, <3>2 DEF OwnerRecorded
  <2>2. CASE q = p /\ stateFile' = stateFile
    <3>1. lock[p] = "open" \/ \E port \in Ports : WriteInitial(p, port)
      BY <1>1, <2>2 DEF InstanceStep, TryLock, LockHeld, LockFails, ReadOwner, Update,
         WriteInitialFails, UpdateFails, CloseRemoves, CloseKeeps, CloseUnlocks, Crash,
         LockAt, ITypeOK, instanceVars
    <3> QED
      BY <2>2, <3>1, WrittenState DEF OwnerRecorded, WriteInitial
  <2>3. CASE q = p /\ stateFile' # stateFile
    <3>1. stateFile' = NoState => CloseRemoves(p)
      BY <2>3, WrittenState DEF InstanceStep, TryLock, LockHeld, LockFails, ReadOwner,
         WriteInitial, Update, WriteInitialFails, UpdateFails, CloseKeeps, CloseUnlocks,
         Crash, instanceVars
    <3>2. stateFile' # NoState
      BY <1>1, <2>3, <3>1 DEF CloseRemoves, LockAt, ITypeOK
    <3> QED
      BY <2>3, <3>2, WriterHolds
  <2> QED
    BY <2>1, <2>2, <2>3
<1>2. ASSUME NEW q \in Procs, lock'[q] \in {"removed", "closed"}
      PROVE  stateFile' = NoState \/ stateFile'.pid # q
  <2>1. CASE stateFile' = stateFile /\ lock[q] \in {"removed", "closed"}
    BY <2>1 DEF ClosedLeavesNothing
  <2>2. CASE lock[q] \notin {"removed", "closed"}
    <3>1. q = p
      BY <1>2, <2>2, OtherLocks
    <3>2. CloseRemoves(p)
      BY <1>2, <2>2, <3>1 DEF InstanceStep, TryLock, LockHeld, LockFails, ReadOwner,
         WriteInitial, Update, WriteInitialFails, UpdateFails, CloseKeeps, CloseUnlocks,
         Crash, LockAt, ITypeOK, instanceVars
    <3> QED
      BY <3>2 DEF CloseRemoves
  <2>3. CASE stateFile' # stateFile /\ lock[q] \in {"removed", "closed"}
    <3>1. holder = p /\ (stateFile' = NoState \/ stateFile'.pid = p)
      BY <2>3, WriterHolds
    <3>2. CASE q # p
      BY <3>1, <3>2
    <3>3. CASE q = p
      BY <2>3, <3>3 DEF InstanceStep, TryLock, LockHeld, LockFails, ReadOwner, WriteInitial,
         Update, WriteInitialFails, UpdateFails, CloseRemoves, CloseKeeps, CloseUnlocks,
         Crash, LockAt, instanceVars
    <3> QED
      BY <3>2, <3>3
  <2> QED
    BY <2>1, <2>2, <2>3
<1> QED
  BY <1>1, <1>2 DEF OwnerRecorded, ClosedLeavesNothing

\* InstanceInv is inductive for any interleaving of the processes.
LEMMA InstanceInvStep == InstanceInv /\ [INext]_instanceVars => InstanceInv'
<1> SUFFICES ASSUME InstanceInv, [INext]_instanceVars
             PROVE  InstanceInv'
  OBVIOUS
<1>1. CASE UNCHANGED instanceVars
  BY <1>1 DEF instanceVars, InstanceInv, ITypeOK, HolderLocks, OwnerRecorded,
              ClosedLeavesNothing
<1>2. ASSUME NEW p \in Procs, InstanceStep(p)
      PROVE  InstanceInv'
  <2>1. ITypeOK' /\ HolderLocks'
    BY <1>2, LockingStep DEF InstanceInv
  <2> QED
    BY <1>2, <2>1, StateFileStep DEF InstanceInv
<1> QED
  BY <1>1, <1>2 DEF INext

\* The inductive invariant of the lock and state.json.
THEOREM InstanceInvariance == ISpec => []InstanceInv
BY InstanceInit, InstanceInvStep, PTL DEF ISpec

\* While a bridge has the lock open, state.json is there and is its own
\* (state.go:97-204), for any number of bridges, crashes and late updates.
THEOREM OwnerIsRecorded == ISpec => []OwnerRecorded
BY InstanceInvariance, PTL DEF InstanceInv

\* A bridge that closed its lock leaves no state.json of its own, even when a
\* callback calls Update after Close (state.go:139).
THEOREM NothingLeft == ISpec => []ClosedLeavesNothing
BY InstanceInvariance, PTL DEF InstanceInv

\* Only the holder of the OS lock changes state.json.
THEOREM HolderWrites == ISpec => WrittenByHolder
<1>1. InstanceInv /\ [INext]_instanceVars =>
        [stateFile' # stateFile =>
           holder # NoProc /\ (stateFile' = NoState \/ stateFile'.pid = holder)]_instanceVars
  <2> SUFFICES ASSUME InstanceInv, INext, stateFile' # stateFile
               PROVE  holder # NoProc /\ (stateFile' = NoState \/ stateFile'.pid = holder)
    BY DEF instanceVars
  <2>1. PICK p \in Procs : InstanceStep(p)
    BY DEF INext
  <2> QED
    BY <2>1, WriterHolds, ProcsAssumption DEF InstanceInv
<1> QED
  BY <1>1, InstanceInvariance, PTL DEF ISpec, WrittenByHolder

-----------------------------------------------------------------------------
(* The token file                                                          *)

\* TokensAgree is not inductive: it also takes that the file belongs to the
\* process that is still filling it, and is not yet whole before the write.
CreatorOwns ==
  \A p \in Procs :
    /\ loading[p] = "write" => tokenFile = [by |-> p, whole |-> FALSE]
    /\ loading[p] = "close" => tokenFile = [by |-> p, whole |-> TRUE]
    /\ loading[p] = "discard" => tokenFile # NoFile /\ tokenFile.by = p

\* A process that loaded a token has one.
LoadedToken == \A p \in Procs : loading[p] = "loaded" => token[p] \in Procs

TokenInv == TTypeOK /\ CreatorOwns /\ LoadedToken /\ TokensAgree

\* What a creator makes of the file is a token file.
LEMMA FileStates ==
  ASSUME NEW p \in Procs, NEW b \in BOOLEAN
  PROVE  /\ [by |-> p, whole |-> b] \in TokenFile
         /\ [by |-> p, whole |-> b] # NoFile
BY NoFileAssumption DEF TokenFile

\* The properties hold before the first process starts.
LEMMA TokenInit == TInit => TokenInv
BY DEF TInit, TokenInv, TTypeOK, LoadingStates, CreatorOwns, LoadedToken, TokensAgree

\* A step of one process moves no other process.
LEMMA OtherLoading ==
  ASSUME TTypeOK, NEW p \in Procs, TokenStep(p) \/ TokenCrash(p)
  PROVE  \A q \in Procs \ {p} : loading'[q] = loading[q] /\ token'[q] = token[q]
BY DEF TTypeOK, TokenStep, ReadToken, ReadMissing, ReadGivesUp, LoadFails, CreateToken,
       CreateExists, WriteToken, WriteFails, Discard, CloseToken, TokenCrash, LoadingAt

\* Every step keeps the types.
LEMMA TTypeStep ==
  ASSUME TTypeOK, NEW p \in Procs, TokenStep(p) \/ TokenCrash(p)
  PROVE  TTypeOK'
<1>1. CASE ReadToken(p)
  BY <1>1 DEF ReadToken, LoadingAt, TTypeOK, LoadingStates, TokenFile
<1>2. CASE CreateToken(p) \/ WriteToken(p)
  BY <1>2, FileStates DEF CreateToken, WriteToken, LoadingAt, TTypeOK, LoadingStates
<1>3. CASE ReadMissing(p) \/ ReadGivesUp(p) \/ LoadFails(p) \/ CreateExists(p) \/ WriteFails(p)
           \/ Discard(p) \/ CloseToken(p) \/ TokenCrash(p)
  BY <1>3 DEF ReadMissing, ReadGivesUp, LoadFails, CreateExists, WriteFails, Discard, CloseToken,
              TokenCrash, LoadingAt, TTypeOK, LoadingStates
<1> QED
  BY <1>1, <1>2, <1>3 DEF TokenStep

\* Only the process that made the file changes it, and only a missing file
\* is made.
LEMMA FileOwner ==
  ASSUME TTypeOK, CreatorOwns, NEW p \in Procs, TokenStep(p) \/ TokenCrash(p),
         tokenFile' # tokenFile
  PROVE  \/ CreateToken(p)
         \/ WriteToken(p) /\ tokenFile = [by |-> p, whole |-> FALSE]
         \/ Discard(p) /\ tokenFile # NoFile /\ tokenFile.by = p
BY DEF CreatorOwns, TokenStep, ReadToken, ReadMissing, ReadGivesUp, LoadFails, CreateExists,
       WriteToken, WriteFails, Discard, CloseToken, TokenCrash, LoadingAt

\* CreatorOwns is kept: the file of a process that is filling it is not
\* touched by another one.
LEMMA CreatorStep ==
  ASSUME TTypeOK, CreatorOwns, NEW p \in Procs, TokenStep(p) \/ TokenCrash(p)
  PROVE  CreatorOwns'
<1> SUFFICES ASSUME NEW q \in Procs
             PROVE  /\ loading'[q] = "write" => tokenFile' = [by |-> q, whole |-> FALSE]
                    /\ loading'[q] = "close" => tokenFile' = [by |-> q, whole |-> TRUE]
                    /\ loading'[q] = "discard" => tokenFile' # NoFile /\ tokenFile'.by = q
  BY DEF CreatorOwns
<1>1. CASE q # p /\ loading[q] \in {"write", "close", "discard"}
  <2>1. tokenFile # NoFile /\ tokenFile.by = q
    <3>1. /\ [by |-> q, whole |-> FALSE] # NoFile
          /\ [by |-> q, whole |-> TRUE] # NoFile
      BY FileStates
    <3> QED
      BY <1>1, <3>1 DEF CreatorOwns
  <2>2. tokenFile' = tokenFile
    BY <1>1, <2>1, FileOwner DEF CreateToken
  <2> QED
    BY <1>1, <2>2, OtherLoading DEF CreatorOwns
<1>2. CASE q # p /\ loading[q] \notin {"write", "close", "discard"}
  BY <1>2, OtherLoading
<1>3. CASE q = p
  <2>1. CASE CreateToken(p) \/ WriteToken(p)
    BY <1>3, <2>1 DEF TTypeOK, CreateToken, WriteToken, LoadingAt
  <2>2. CASE WriteFails(p)
    <3>1. /\ [by |-> p, whole |-> FALSE] # NoFile
          /\ [by |-> p, whole |-> TRUE] # NoFile
      BY FileStates
    <3> QED
      BY <1>3, <2>2, <3>1 DEF TTypeOK, CreatorOwns, WriteFails, LoadingAt
  <2>3. CASE ReadToken(p) \/ ReadMissing(p) \/ ReadGivesUp(p) \/ LoadFails(p) \/ CreateExists(p)
             \/ Discard(p) \/ CloseToken(p) \/ TokenCrash(p)
    BY <1>3, <2>3 DEF TTypeOK, ReadToken, ReadMissing, ReadGivesUp, LoadFails, CreateExists,
                         Discard, CloseToken, TokenCrash, LoadingAt
  <2> QED
    BY <2>1, <2>2, <2>3 DEF TokenStep
<1> QED
  BY <1>1, <1>2, <1>3

\* A process that loads a token takes the one in the whole file, and keeps it.
LEMMA LoadedStep ==
  ASSUME TTypeOK, CreatorOwns, NEW p \in Procs, TokenStep(p) \/ TokenCrash(p),
         loading'[p] = "loaded"
  PROVE  /\ tokenFile' = tokenFile
         /\ token'[p] \in Procs
         /\ tokenFile = [by |-> token'[p], whole |-> TRUE]
<1>1. ReadToken(p) \/ CloseToken(p)
  BY DEF TTypeOK, TokenStep, ReadToken, ReadMissing, ReadGivesUp, LoadFails, CreateToken,
         CreateExists, WriteToken, WriteFails, Discard, CloseToken, TokenCrash, LoadingAt
<1>2. CASE ReadToken(p)
  BY <1>2 DEF ReadToken, TTypeOK, TokenFile
<1>3. CASE CloseToken(p)
  BY <1>3 DEF CloseToken, LoadingAt, TTypeOK, CreatorOwns
<1> QED
  BY <1>1, <1>2, <1>3

\* A token that was loaded stays in the file until its creator withdraws it.
LEMMA AgreeStep ==
  ASSUME TokenInv, NEW p \in Procs, TokenStep(p) \/ TokenCrash(p)
  PROVE  LoadedToken' /\ TokensAgree'
<1> SUFFICES ASSUME NEW q \in Procs, loading'[q] = "loaded"
             PROVE  /\ token'[q] \in Procs
                    /\ \/ tokenFile' = [by |-> token'[q], whole |-> TRUE]
                       \/ loading'[token'[q]] = "error"
  BY DEF LoadedToken, TokensAgree, Withdrawn
<1> USE DEF TokenInv
<1>1. CASE q = p
  BY <1>1, LoadedStep
<1>2. CASE q # p
  <2>1. loading[q] = "loaded" /\ token'[q] = token[q] /\ token[q] \in Procs
    BY <1>2, OtherLoading DEF LoadedToken
  <2>2. CASE loading[token[q]] = "error"
    <3>1. loading'[token[q]] = "error"
      BY <2>1, <2>2, OtherLoading DEF TTypeOK, TokenStep, ReadToken, ReadMissing, ReadGivesUp,
         LoadFails, CreateToken, CreateExists, WriteToken, WriteFails, Discard, CloseToken,
         TokenCrash, LoadingAt
    <3> QED
      BY <2>1, <3>1
  <2>3. CASE tokenFile = [by |-> token[q], whole |-> TRUE]
    <3>1. CASE tokenFile' = tokenFile
      BY <2>1, <2>3, <3>1
    <3>2. CASE tokenFile' # tokenFile
      <4>1. Discard(p) /\ p = token[q]
        BY <2>1, <2>3, <3>2, FileOwner, FileStates DEF CreateToken
      <4> QED
        BY <2>1, <4>1 DEF Discard, LoadingAt, TTypeOK
    <3> QED
      BY <3>1, <3>2
  <2> QED
    BY <2>1, <2>2, <2>3 DEF TokensAgree, Withdrawn
<1> QED
  BY <1>1, <1>2

\* TokenInv is inductive for any interleaving of the processes.
LEMMA TokenInvStep == TokenInv /\ [TNext]_tokenVars => TokenInv'
<1> SUFFICES ASSUME TokenInv, [TNext]_tokenVars
             PROVE  TokenInv'
  OBVIOUS
<1>1. CASE UNCHANGED tokenVars
  BY <1>1 DEF tokenVars, TokenInv, TTypeOK, CreatorOwns, LoadedToken, TokensAgree, Withdrawn
<1>2. ASSUME NEW p \in Procs, TokenStep(p) \/ TokenCrash(p)
      PROVE  TokenInv'
  BY <1>2, TTypeStep, CreatorStep, AgreeStep DEF TokenInv
<1> QED
  BY <1>1, <1>2 DEF TNext

\* Processes that start at the same time, in any number, use the one token in
\* the file (token.go:19-61), whichever of them crash while they create it.
THEOREM OneToken == TSpec => []TokensAgree
<1>1. TSpec => []TokenInv
  BY TokenInit, TokenInvStep, PTL DEF TSpec
<1> QED
  BY <1>1, PTL DEF TokenInv
=============================================================================

------------------------------- MODULE Token -------------------------------
(***************************************************************************)
(* colabws.LoadOrCreateToken: the persistent connection token that bridge  *)
(* processes with one --token-file share.  A process reads the file, and   *)
(* creates it with O_EXCL when there is none; another process can see the  *)
(* file between its creation and the one write that fills it, and retries  *)
(* for a while.  A token is named by the process that generated it.  Files *)
(* no bridge writes (wrong permissions, malformed contents) are left out.  *)
(***************************************************************************)
EXTENDS Processes

CONSTANT NoFile   \* the token file does not exist

VARIABLES
  tokenFile, \* the token file: who created it, and whether it is filled
  loading,   \* where LoadOrCreateToken is, per process
  token      \* the token it returned, per process

tokenVars == <<tokenFile, loading, token>>

TokenFile == [by : Procs, whole : BOOLEAN]

ASSUME NoFileAssumption == NoFile \notin TokenFile

LoadingStates == {"read", "create", "write", "close", "discard", "reread",
                  "loaded", "error", "crashed"}

TTypeOK == /\ tokenFile \in TokenFile \cup {NoFile}
           /\ loading \in [Procs -> LoadingStates]
           /\ token \in [Procs -> Procs \cup {NoProc}]

TInit == /\ tokenFile = NoFile
         /\ loading = [p \in Procs |-> "read"]
         /\ token = [p \in Procs |-> NoProc]

LoadingAt(p, from, to) == loading[p] = from /\ loading' = [loading EXCEPT ![p] = to]

-----------------------------------------------------------------------------
(* readTokenFileWithRetry, before ("read") and after ("reread") a creation *)

ReadToken(p) == /\ tokenFile # NoFile /\ tokenFile.whole
                /\ LoadingAt(p, "read", "loaded") \/ LoadingAt(p, "reread", "loaded")
                /\ token' = [token EXCEPT ![p] = tokenFile.by]
                /\ UNCHANGED tokenFile

\* os.ErrNotExist: create it, but only the first time.
ReadMissing(p) == /\ tokenFile = NoFile
                  /\ LoadingAt(p, "read", "create") \/ LoadingAt(p, "reread", "error")
                  /\ UNCHANGED <<tokenFile, token>>

\* Incomplete at each of the attempts.
ReadGivesUp(p) == /\ tokenFile # NoFile /\ ~tokenFile.whole
                  /\ LoadingAt(p, "read", "error") \/ LoadingAt(p, "reread", "error")
                  /\ UNCHANGED <<tokenFile, token>>

\* Any other error of reading, or before there is a file of this process: the
\* directory, the random bytes, or OpenFile.
LoadFails(p) == /\ DiskFails
                /\ \E from \in {"read", "create", "reread"} : LoadingAt(p, from, "error")
                /\ UNCHANGED <<tokenFile, token>>

-----------------------------------------------------------------------------
(* The creation                                                            *)

\* Fault: the file is opened without O_EXCL.
CreateTruncates(p) == /\ LoadingAt(p, "create", "write")
                      /\ tokenFile' = [by |-> p, whole |-> FALSE]
                      /\ UNCHANGED token

CreateToken(p) == /\ tokenFile = NoFile
                  /\ LoadingAt(p, "create", "write")
                  /\ tokenFile' = [by |-> p, whole |-> FALSE]
                  /\ UNCHANGED token

\* os.ErrExist: somebody else was first.
CreateExists(p) == /\ tokenFile # NoFile
                   /\ LoadingAt(p, "create", "reread")
                   /\ UNCHANGED <<tokenFile, token>>

WriteToken(p) == /\ LoadingAt(p, "write", "close")
                 /\ tokenFile' = [by |-> p, whole |-> TRUE]
                 /\ UNCHANGED token

WriteFails(p) == /\ DiskFails
                 /\ LoadingAt(p, "write", "discard") \/ LoadingAt(p, "close", "discard")
                 /\ UNCHANGED <<tokenFile, token>>

\* The deferred os.Remove.
Discard(p) == /\ LoadingAt(p, "discard", "error")
              /\ tokenFile' = NoFile
              /\ UNCHANGED token

CloseToken(p) == /\ LoadingAt(p, "close", "loaded")
                 /\ token' = [token EXCEPT ![p] = p]
                 /\ UNCHANGED tokenFile

\* The process dies; the file stays as it is.
TokenCrash(p) == /\ loading[p] \notin {"loaded", "error", "crashed"}
                 /\ loading' = [loading EXCEPT ![p] = "crashed"]
                 /\ UNCHANGED <<tokenFile, token>>

-----------------------------------------------------------------------------
TokenStep(p) == \/ ReadToken(p) \/ ReadMissing(p) \/ ReadGivesUp(p) \/ LoadFails(p)
                \/ CreateToken(p) \/ CreateExists(p) \/ WriteToken(p) \/ WriteFails(p)
                \/ Discard(p) \/ CloseToken(p)

TNext == \E p \in Procs : TokenStep(p) \/ TokenCrash(p)

TSpec == TInit /\ [][TNext]_tokenVars

-----------------------------------------------------------------------------
(* Properties                                                              *)

\* The process that made token x met an error and removed the file again.
Withdrawn(x) == loading[x] = "error"

\* README: --token-file is "a persistent URL-safe connection token", with
\* which a browser tab reconnects to a later bridge.  Bridges that start at
\* the same time all use the one token that is in the file, whoever's turn it
\* was to create it, unless its creator failed and withdrew it.
TokensAgree ==
  \A p \in Procs : loading[p] = "loaded" =>
    \/ tokenFile = [by |-> token[p], whole |-> TRUE]
    \/ Withdrawn(token[p])
=============================================================================

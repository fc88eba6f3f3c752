------------------------------ MODULE Sessions ------------------------------
(***************************************************************************)
(* What the server and the manager promise to the tools about the remote   *)
(* session: connections take the slot one at a time, each gets at most one *)
(* session and only when none is installed, a session is dropped some time *)
(* after a connection closed, and WaitConnected sleeps on a channel that   *)
(* is open exactly while no session is installed.  A session may be that   *)
(* of a connection that is gone, and the slot may be the next one's.       *)
(***************************************************************************)
CONSTANTS Conns, NoConn

ASSUME NoConnAssumption == NoConn \notin Conns

VARIABLES
  slot,     \* the connection in the slot; ws.Live() is slot # NoConn
  gone,     \* connections that are closed
  had,      \* connections that had their session, or will not get one
  session,  \* Manager.remoteSession, as its connection
  waitOpen  \* connectedCh is open: who calls WaitConnected now sleeps

sessionVars == <<slot, gone, had, session, waitOpen>>

SessionsTypeOK == /\ slot \in Conns \cup {NoConn}
                  /\ gone \subseteq Conns
                  /\ had \subseteq Conns
                  /\ session \in Conns \cup {NoConn}
                  /\ waitOpen \in BOOLEAN

SessionsInit == /\ slot = NoConn
                /\ gone = {}
                /\ had = {}
                /\ session = NoConn
                /\ waitOpen = TRUE

Enters(c) == /\ slot = NoConn /\ c \notin gone
             /\ slot' = c
             /\ UNCHANGED <<gone, had, session, waitOpen>>

Closes(c) == /\ gone' = gone \cup {c}
             /\ UNCHANGED <<slot, had, session, waitOpen>>

Frees == /\ slot # NoConn
         /\ slot' = NoConn
         /\ gone' = gone \cup {slot}
         /\ UNCHANGED <<had, session, waitOpen>>

\* The connection is closed without a session.
GivesUp(c) == /\ gone' = gone \cup {c}
              /\ had' = had \cup {c}
              /\ UNCHANGED <<slot, session, waitOpen>>

Installs(c) == /\ session = NoConn /\ c \notin had
               /\ slot = c \/ c \in gone
               /\ session' = c
               /\ had' = had \cup {c}
               /\ waitOpen' = FALSE
               /\ UNCHANGED <<slot, gone>>

\* handleDisconnect, for this connection or for one before it.
Drops == /\ gone # {}
         /\ session' = NoConn
         /\ waitOpen' = TRUE
         /\ UNCHANGED <<slot, gone, had>>

SessionsNext == \/ \E c \in Conns : Enters(c) \/ Closes(c) \/ GivesUp(c) \/ Installs(c)
                \/ Frees \/ Drops

SessionsSpec == SessionsInit /\ [][SessionsNext]_sessionVars
=============================================================================

------------------------------ MODULE Waiting -------------------------------
(***************************************************************************)
(* Calls of open_colab_browser_connection over the session of Sessions:    *)
(* openColabBrowserConnection, which opens the browser unless there is a   *)
(* session, and Manager.WaitConnected, which takes the current connectedCh *)
(* under Manager.mu and sleeps on it.  A session may come and go before a  *)
(* sleeper is scheduled; it still has the channel that was closed.         *)
(***************************************************************************)
EXTENDS Sessions

CONSTANT Opens  \* calls of open_colab_browser_connection

VARIABLES
  open,  \* where openColabBrowserConnection is, per call
  saw    \* calls that slept, or just asked, while a session was installed

openVars == <<open, saw>>
waitVars == <<sessionVars, openVars>>

\* The types of the variables; connectedCh is open while there is no session.
WaitTypeOK ==
  /\ SessionsTypeOK
  /\ waitOpen <=> session = NoConn
  /\ open \in [Opens -> {"idle", "wait", "asleep", "woken", "connected", "timeout", "error"}]
  /\ saw \subseteq Opens

WaitInit ==
  /\ SessionsInit
  /\ open = [o \in Opens |-> "idle"]
  /\ saw = {}

-----------------------------------------------------------------------------
OpenGoes(o, from, to) == open[o] = from /\ open' = [open EXCEPT ![o] = to]

IsConnected == session # NoConn /\ slot # NoConn

\* Already connected: "true".
AlreadyConnected(o) ==
  /\ IsConnected
  /\ OpenGoes(o, "idle", "connected")
  /\ saw' = saw \cup {o}
  /\ UNCHANGED sessionVars

\* The arguments cannot be read, no URL can be made of them (BrowserURL), or
\* they name a notebook and there is a connection.
OpenFails(o) == OpenGoes(o, "idle", "error") /\ UNCHANGED <<sessionVars, saw>>

\* The browser is told to open the notebook (which it may fail to do).
OpensBrowser(o) ==
  /\ ~IsConnected
  /\ OpenGoes(o, "idle", "wait")
  /\ UNCHANGED <<sessionVars, saw>>

\* WaitConnected, under Manager.mu: connected, or a channel, which may be
\* closed already (the session is there and its connection is not).
WaitsConnected(o) ==
  /\ \/ IsConnected /\ OpenGoes(o, "wait", "connected")
     \/ ~IsConnected /\ waitOpen /\ OpenGoes(o, "wait", "asleep")
     \/ ~IsConnected /\ ~waitOpen /\ OpenGoes(o, "wait", "woken")
  /\ saw' = IF session # NoConn THEN saw \cup {o} ELSE saw
  /\ UNCHANGED sessionVars

\* The channel it has is closed.
WakesUp(o) == OpenGoes(o, "woken", "connected") /\ UNCHANGED <<sessionVars, saw>>

\* The connect timeout, the caller, or the end of the bridge.
TimesOut(o) == /\ OpenGoes(o, "asleep", "timeout") \/ OpenGoes(o, "woken", "timeout")
               /\ UNCHANGED <<sessionVars, saw>>

-----------------------------------------------------------------------------
(* The session under the calls                                             *)

Asleep == {o \in Opens : open[o] = "asleep"}

\* Fault: a value is sent on connectedCh instead of closing it.
WakesOne(c) ==
  /\ Installs(c)
  /\ open' = [o \in Opens |-> IF o \in Asleep /\ o = (CHOOSE p \in Asleep : TRUE)
                                THEN "woken" ELSE open[o]]
  /\ saw' = saw \cup Asleep

\* setRemoteSession closes connectedCh.
SetsSession(c) ==
  /\ Installs(c)
  /\ open' = [o \in Opens |-> IF o \in Asleep THEN "woken" ELSE open[o]]
  /\ saw' = saw \cup Asleep

\* Fault: handleDisconnect leaves connectedCh closed.
DropsKeepsChannel ==
  /\ gone # {}
  /\ session' = NoConn
  /\ UNCHANGED <<slot, gone, had, waitOpen, openVars>>

DropsSession == Drops /\ UNCHANGED openVars

-----------------------------------------------------------------------------
OpenStep(o) == \/ AlreadyConnected(o) \/ OpenFails(o) \/ OpensBrowser(o)
               \/ WaitsConnected(o) \/ WakesUp(o)

WaitNext == \/ \E o \in Opens : OpenStep(o) \/ TimesOut(o)
            \/ \E c \in Conns : \/ (Enters(c) \/ Closes(c) \/ GivesUp(c)) /\ UNCHANGED openVars
                                \/ SetsSession(c)
            \/ Frees /\ UNCHANGED openVars
            \/ DropsSession

WaitSpec == WaitInit /\ [][WaitNext]_waitVars

\* The goroutines of the calls run; the browser owes nothing, and no timeout
\* need expire.
WaitFairness == \A o \in Opens : WF_waitVars(open[o] # "idle" /\ OpenStep(o))

WaitFairSpec == WaitSpec /\ WaitFairness

-----------------------------------------------------------------------------
(* Properties                                                              *)

\* open_colab_browser_connection says "true" only if a session was installed
\* while it waited (or when it asked): the wake-up is not that of an old one.
OpenSawSession == \A o \in Opens : open[o] \in {"woken", "connected"} => o \in saw

\* Every call that waits when a session is installed wakes up and returns,
\* with no help from its timeout, also if that session is dropped at once.
AllWaitersReturn ==
  \A o \in Opens :
    o \in saw /\ open[o] \in {"asleep", "woken"} ~> open[o] \in {"connected", "timeout"}
=============================================================================

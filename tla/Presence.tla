------------------------------ MODULE Presence ------------------------------
(***************************************************************************)
(* What App.Run sees of the WebSocket server of its bridge: whether a      *)
(* browser is connected (Live), and the OnConnectionChange callbacks,      *)
(* which run once for each change, outside the server's mutex, so several  *)
(* may be under way and they return in any order.  ColabWS implements      *)
(* this, and App takes no more than this for granted.                      *)
(***************************************************************************)
EXTENDS Naturals

VARIABLES
  live,        \* Server.live
  registered,  \* the process has a callback to call
  callbacks    \* callbacks under way, by their argument

presenceVars == <<live, registered, callbacks>>

Quiet == [connected \in BOOLEAN |-> 0]

PresenceInit == /\ live = FALSE
                /\ registered \in BOOLEAN
                /\ callbacks = Quiet

\* OnConnectionChange, before the server starts.
Registers == /\ ~live /\ callbacks = Quiet
             /\ registered' = TRUE
             /\ UNCHANGED <<live, callbacks>>

\* A browser is admitted, or the admitted one cleared: one callback each.
Changes(connected) ==
  /\ live = ~connected
  /\ live' = connected
  /\ callbacks' = IF registered THEN [callbacks EXCEPT ![connected] = @ + 1]
                                ELSE callbacks
  /\ UNCHANGED registered

CallbackReturns(connected) ==
  /\ callbacks[connected] > 0
  /\ callbacks' = [callbacks EXCEPT ![connected] = @ - 1]
  /\ UNCHANGED <<live, registered>>

\* The process dies, and its callbacks with it.
Ends == /\ registered' = FALSE
        /\ UNCHANGED <<live, callbacks>>

PresenceNext == \/ Registers \/ Ends
                \/ \E connected \in BOOLEAN : Changes(connected) \/ CallbackReturns(connected)

PresenceSpec == PresenceInit /\ [][PresenceNext]_presenceVars
=============================================================================

---------------------------- MODULE SessionSlot ----------------------------
(***************************************************************************)
(* What the WebSocket server promises about browser connections, without   *)
(* goroutines, callbacks or queues: there is one slot, a browser that      *)
(* finds it empty owns it until it leaves, a browser that finds it taken   *)
(* is refused for good, and nobody else can end the owner's tenure.        *)
(* (README.md: "The bridge accepts one browser connection at a time.")     *)
(***************************************************************************)
CONSTANTS Conns, NoConn

VARIABLES
  owner,  \* the connection in the slot, or NoConn
  phase   \* what has become of each connection

vars == <<owner, phase>>

Phases == {"away", "owner", "left", "refused"}

TypeOK == /\ owner \in Conns \cup {NoConn}
          /\ phase \in [Conns -> Phases]

Init == /\ owner = NoConn
        /\ phase = [c \in Conns |-> "away"]

Enter(c) == /\ phase[c] = "away"
            /\ owner = NoConn
            /\ owner' = c
            /\ phase' = [phase EXCEPT ![c] = "owner"]

Refuse(c) == /\ phase[c] = "away"
             /\ owner # NoConn
             /\ phase' = [phase EXCEPT ![c] = "refused"]
             /\ UNCHANGED owner

Leave(c) == /\ phase[c] = "owner"
            /\ owner = c
            /\ owner' = NoConn
            /\ phase' = [phase EXCEPT ![c] = "left"]

Next == \E c \in Conns : Enter(c) \/ Refuse(c) \/ Leave(c)

Spec == Init /\ [][Next]_vars
=============================================================================

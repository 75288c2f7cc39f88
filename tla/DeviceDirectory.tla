--------------------------- MODULE DeviceDirectory ---------------------------
(***************************************************************************)
(* What the relay promises about devices and viewers, without goroutines,  *)
(* channels or sockets.                                                    *)
(*                                                                         *)
(* A device is owned by at most one agent connection at a time.  A new     *)
(* connection supersedes the owner; a connection that lost a device, or    *)
(* left it, never owns a device again.  A viewer is bound once, to the     *)
(* connection that owned the device at that moment, and is never moved to  *)
(* another one.                                                            *)
(***************************************************************************)
CONSTANTS Devices, Agents, Viewers, None

VARIABLES
    owner,      \* owner[d]: the agent connection serving device d, or None
    retired,    \* agent connections that will never own a device again
    session     \* session[v]: the agent connection viewer v is bound to

vars == <<owner, retired, session>>

Init ==
    /\ owner = [d \in Devices |-> None]
    /\ retired = {}
    /\ session = [v \in Viewers |-> None]

\* Connection a takes device d over; the previous owner is retired with it.
Register(a, d) ==
    /\ a \notin retired
    /\ \A e \in Devices : owner[e] # a
    /\ owner' = [owner EXCEPT ![d] = a]
    /\ retired' = retired \cup ({owner[d]} \ {None})
    /\ UNCHANGED session

\* The owner of device d leaves it without a successor.
Leave(d) ==
    /\ owner[d] # None
    /\ owner' = [owner EXCEPT ![d] = None]
    /\ retired' = retired \cup {owner[d]}
    /\ UNCHANGED session

\* Viewer v is bound to the connection that owns device d now.
Bind(v, d) ==
    /\ session[v] = None
    /\ owner[d] # None
    /\ session' = [session EXCEPT ![v] = owner[d]]
    /\ UNCHANGED <<owner, retired>>

Next ==
    \/ \E a \in Agents, d \in Devices : Register(a, d)
    \/ \E d \in Devices : Leave(d)
    \/ \E v \in Viewers, d \in Devices : Bind(v, d)

Spec == Init /\ [][Next]_vars
==============================================================================

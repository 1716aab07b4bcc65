----------------------------- MODULE VpnClient -----------------------------
(***************************************************************************)
(* The product under test as a hosted adapter sees it: the state that      *)
(* `status --json` prints, the address an outside service sees, and the    *)
(* uplink below both.  Routes converge some time after the state changes,  *)
(* sessions end by themselves, and a running session may leak.  No session *)
(* begins by itself: only a request leads out of "Disconnected".           *)
(***************************************************************************)
EXTENDS Naturals, Sequences

VARIABLES
    client,     \* "down" without a service, else the state of the session
    egress,     \* where outside traffic leaves
    uplink,     \* the interface the network scenario takes down
    inflight    \* a connect request whose client has given up

vpnVars == <<client, egress, uplink, inflight>>

VpnInit ==
    /\ client = "Disconnected" /\ egress = "clear"
    /\ uplink = TRUE /\ inflight = FALSE

\* The address of the runner or of the VPN's exit, if anything gets out.
Address == [clear |-> "home", tunnel |-> "exit"][egress]
Addresses == {"home", "exit"}

SessionEstablished ==
    /\ client = "Connecting" /\ uplink
    /\ client' = "Connected"
    /\ UNCHANGED <<egress, uplink, inflight>>

SessionEnds ==
    /\ client \in {"Connecting", "Connected", "Disconnecting"}
    /\ client' = "Disconnected"
    /\ UNCHANGED <<egress, uplink, inflight>>

ServiceDies ==
    /\ client # "down"
    /\ client' = "down"
    /\ UNCHANGED <<egress, uplink, inflight>>

RouteMoves ==
    /\ \/ egress = "clear" /\ client = "Connected" /\ egress' = "tunnel"
       \/ egress = "tunnel" /\ egress' = "clear"
    /\ UNCHANGED <<client, uplink, inflight>>

\* The service still acts upon a request whose client was killed.
RequestArrives ==
    /\ inflight
    /\ inflight' = FALSE
    /\ client' = IF client = "Disconnected" THEN "Connecting" ELSE client
    /\ UNCHANGED <<egress, uplink>>

VpnNext == SessionEstablished \/ SessionEnds \/ ServiceDies \/ RouteMoves \/ RequestArrives

VpnTypeOK ==
    /\ client \in {"down", "Disconnected", "Connecting", "Connected", "Disconnecting"}
    /\ egress \in {"clear", "tunnel"}
    /\ {uplink, inflight} \subseteq BOOLEAN
=============================================================================

---------------------------- MODULE HostedSession ----------------------------
(***************************************************************************)
(* The scenarios of one lane through the adapter that factory.py selects:  *)
(* a desktop command line, or an Android device.                           *)
(***************************************************************************)
EXTENDS AndroidSession

CONSTANT Adapters   \* the adapters an instance looks at
ASSUME AdapterAssumption == Adapters \subseteq {"cli", "android"}

VARIABLE adapter

vars == <<adapter, vpnVars, sessionVars, androidVars>>

Init ==
    /\ adapter \in Adapters
    /\ VpnInit /\ SessionInit /\ AndroidInit

Next ==
    /\ \/ adapter = "cli" /\ CliNext /\ UNCHANGED androidVars
       \/ adapter = "android" /\ AndroidNext /\ UNCHANGED <<vpnVars, sessionVars>>
    /\ UNCHANGED adapter

Spec == Init /\ [][Next]_vars

-----------------------------------------------------------------------------
TypeOK == adapter \in Adapters /\ SessionTypeOK /\ AndroidTypeOK

\* A lane whose resets all succeeded, and which left no given-up request of its
\* own to be answered after the reset's last look (tainted excuses both), has
\* taken every changed routing identity from the tunnel.  A session that
\* outlives its scenario would make the next baseline the tunnel's own
\* address, and its loss would pass for a tunnel.
RoutingEvidenceIsTunnel ==
    claim.kind \in {"routing", "endurance", "network", "loss"} /\ ~run.tainted
        => claim.via = "tunnel"

\* In a lane that neither of these has tainted a verified cleanup leaves nobody
\* behind a tunnel, until the next connect.
CleanEvidenceIsClear ==
    claim.kind = "clean" /\ ~run.tainted
        => claim.via = "clear" /\ egress = "clear" /\ client \in {"Disconnected", "down"}

\* An interface that was taken down and a device that was put to sleep are
\* restored, or else the scenario has not passed.
RestoredOrReported ==
    /\ ~uplink => At("network_up") \/ run.raised
    /\ device.asleep =>
          \/ driver.at \in {"sleep", "sleeping", "wake"}
          \/ driver.raised
          \/ ~driver.good

\* A scenario passes on the device only with its profile, its commands and
\* every file of its controls removed and the app stopped.
PassedLeavesNothing ==
    driver.outcome = "passed" =>
        /\ \A name \in FileNames : ~Has(name)
        /\ ~device.app /\ device.test = "off"
=============================================================================

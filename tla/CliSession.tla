----------------------------- MODULE CliSession -----------------------------
(***************************************************************************)
(* HostedCLIAdapter of hosted/cli.py with the network transition and the   *)
(* process loss of hosted/linux.py: the scenarios of scenarios.py step by  *)
(* step, command by command, over a VPN client that moves on between any   *)
(* two commands, and the reset after every scenario.                       *)
(*                                                                         *)
(* Time is not counted: a loop that polls until a deadline may end after   *)
(* any poll.                                                               *)
(***************************************************************************)
EXTENDS VpnClient

CONSTANTS
    MaxScenarios,       \* scenarios of one lane an instance runs
    StabilitySamples    \* status samples of one stability measurement

ASSUME SessionAssumption == MaxScenarios \in Nat /\ StabilitySamples \in Nat \ {0, 1}

VARIABLES
    run,        \* the lane: at, the steps left, and what went wrong so far
    mem,        \* the adapter's memory: the baseline and the tunnel addresses
    claim       \* the last evidence reported, and the egress it was taken from

sessionVars == <<run, mem, claim>>

CommonConnect == <<"configure", "connect", "tunnel", "routing">>

Catalog ==
    <<  <<"configure">>,
        CommonConnect,
        CommonConnect \o <<"stability", "throughput", "disconnect", "inspect">>,
        CommonConnect \o <<"stability", "throughput">>,
        CommonConnect \o <<"disconnect", "inspect">>,
        CommonConnect \o <<"disconnect", "reconnect", "tunnel", "routing",
                           "disconnect", "inspect">>,
        CommonConnect \o <<"network", "disconnect", "inspect">>,
        CommonConnect \o <<"loss", "disconnect", "inspect">>,
        CommonConnect \o <<"endurance", "disconnect", "inspect">>  >>

NoBaseline == "none"
NoMemory == [baseline |-> NoBaseline, tunneled |-> {}]
NoClaim == [kind |-> "none", via |-> "clear"]

\* tainted: a reset failed, or could not see a request that its scenario had
\* given up; raised: a scenario has ended with an exception.
SessionInit ==
    /\ run = [at |-> "next", left |-> <<>>, last |-> 0, done |-> 0, count |-> 0,
              tainted |-> FALSE, raised |-> FALSE]
    /\ mem = NoMemory /\ claim = NoClaim

At(label) == run.at = label
Goto(label) == [run EXCEPT !.at = label]

\* The next step of the scenario, or its end.
Advance(r) ==
    IF r.left = <<>> THEN [r EXCEPT !.at = "reset"]
    ELSE [r EXCEPT !.at = Head(r.left), !.left = Tail(r.left), !.count = 0]

\* A ScenarioExecutionError ends the scenario with what was observed so far.
RaiseTo(r) == [r EXCEPT !.at = "reset", !.left = <<>>, !.raised = TRUE]
Raises == run' = RaiseTo(run) /\ UNCHANGED <<mem, claim, vpnVars>>

\* A status command: what it prints, unless it fails.
Answers == client # "down"
Connected == Answers /\ client = "Connected"

-----------------------------------------------------------------------------
\* The scenarios, in the order of the catalogue; the lane may skip any.
BeginScenario ==
    /\ At("next") /\ run.done < MaxScenarios
    /\ \E i \in (run.last + 1)..Len(Catalog) :
          run' = Advance([run EXCEPT !.left = Catalog[i], !.last = i, !.done = @ + 1])
    /\ UNCHANGED <<mem, claim, vpnVars>>

\* Commands that fail, time out or answer what they should not, and bounds
\* that are over before a step.  connect, disconnect and the uplink have more
\* to say about that themselves.
Steps == {"configure", "connect", "tunnel", "routing", "stability", "throughput",
          "network_check", "network_address", "loss", "loss_status", "loss_routing", "reconnect",
          "reconnect_status", "endurance", "endurance_routing", "endurance_traffic",
          "disconnect", "clean", "clean_address", "inspect"}

StepFails ==
    /\ run.at \in Steps
    /\ Raises

\* check-config touches neither session nor memory.
Configure ==
    /\ At("configure")
    /\ run' = Advance(run)
    /\ UNCHANGED <<mem, claim, vpnVars>>

\* _capture_baseline forgets the tunnel addresses first, whatever comes of
\* the probe.
CaptureBaseline ==
    /\ At("connect")
    /\ \/ /\ uplink
          /\ mem' = [baseline |-> Address, tunneled |-> {}]
          /\ run' = Goto("dial")
       \/ /\ mem' = [mem EXCEPT !.tunneled = {}]
          /\ run' = RaiseTo(run)
    /\ claim' = NoClaim
    /\ UNCHANGED vpnVars

\* connect-profile is accepted, is refused, or times out with the request
\* somewhere on its way.
Accepted == client' \in IF client = "Connected" THEN {"Connected", "Connecting"} ELSE {"Connecting"}

Dial(label, then) ==
    /\ At(label)
    /\ \/ Answers /\ Accepted /\ run' = then /\ UNCHANGED inflight
       \/ Answers /\ Accepted /\ run' = RaiseTo(run) /\ UNCHANGED inflight
       \/ Answers /\ inflight' = TRUE /\ run' = RaiseTo(run) /\ UNCHANGED client
       \/ run' = RaiseTo(run) /\ UNCHANGED <<client, inflight>>
    /\ claim' = NoClaim
    /\ UNCHANGED <<mem, egress, uplink>>

ConnectProfile == Dial("dial", Advance(run))

ObserveTunnel ==
    /\ At("tunnel") /\ Answers
    /\ run' = Advance(run)
    /\ UNCHANGED <<mem, claim, vpnVars>>

-----------------------------------------------------------------------------
\* Routing identity: some other address than the baseline.

Changed == uplink /\ mem.baseline # NoBaseline /\ Address # mem.baseline
Remember == mem' = [mem EXCEPT !.tunneled = @ \cup {Address}]
Claim(kind) == claim' = [kind |-> kind, via |-> egress]

\* The wait ends with a change, or with the time up and False.
ObserveRouting ==
    /\ At("routing")
    /\ \/ Changed /\ Remember /\ Claim("routing")
       \/ UNCHANGED <<mem, claim>>
    /\ run' = Advance(run)
    /\ UNCHANGED vpnVars

\* Mutant of Sample: the samples are not counted against their number.
SampleForever ==
    /\ At("stability") /\ Answers
    /\ run' = IF Connected THEN [run EXCEPT !.count = @ + 1] ELSE Advance(run)
    /\ UNCHANGED <<mem, claim, vpnVars>>

Sample ==
    /\ At("stability") /\ Answers
    /\ run' = IF Connected /\ run.count + 1 < StabilitySamples
              THEN [run EXCEPT !.count = @ + 1] ELSE Advance(run)
    /\ UNCHANGED <<mem, claim, vpnVars>>

\* One download and one upload.
Throughput ==
    /\ At("throughput") /\ uplink
    /\ run' = Advance(run)
    /\ UNCHANGED <<mem, claim, vpnVars>>

-----------------------------------------------------------------------------
\* Endurance: status, routing and, once, traffic with one retry, again and
\* again until the bound; count is 1 after a first failed transfer and 2 with
\* metrics in hand.

EnduranceStatus ==
    /\ At("endurance")
    /\ \/ Connected /\ run' = Goto("endurance_routing")
       \/ run.count = 2 /\ run' = Advance(run)          \* the bound is reached
    /\ UNCHANGED <<mem, claim, vpnVars>>

EnduranceRouting ==
    /\ At("endurance_routing")
    /\ Changed /\ Remember /\ Claim("endurance")
    /\ run' = IF run.count = 2 THEN Goto("endurance") ELSE Goto("endurance_traffic")
    /\ UNCHANGED vpnVars

EnduranceTraffic ==
    /\ At("endurance_traffic")
    /\ \/ uplink /\ run' = [Goto("endurance") EXCEPT !.count = 2]
       \/ run.count = 0 /\ run' = [run EXCEPT !.count = 1]
    /\ UNCHANGED <<mem, claim, vpnVars>>

-----------------------------------------------------------------------------
\* Disconnect, and the proof that the old path is back.

Hangup(label, then, failure) ==
    /\ At(label)
    /\ \/ /\ Answers
          /\ client' \in IF client = "Disconnected" THEN {client} ELSE {"Disconnecting", "Disconnected"}
          /\ run' \in {then, failure}
       \/ run' = failure /\ UNCHANGED client
    /\ UNCHANGED <<mem, claim, egress, uplink, inflight>>

Disconnect == Hangup("disconnect", Goto("clean"), RaiseTo(run))

\* Without a baseline and a tunnel address there is nothing to compare with.
Comparable == mem.baseline # NoBaseline /\ mem.tunneled # {}

\* Mutant of CleanStatus: the address alone decides.
CleanWithoutStatus(label, address, false) ==
    /\ At(label)
    /\ \/ Comparable /\ Answers /\ run' = Goto(address)
       \/ (~Comparable \/ Answers) /\ run' = false
    /\ UNCHANGED <<mem, claim, vpnVars>>

\* Disconnected first, then an address that no session has had.
CleanStatus(label, address, false) ==
    /\ At(label)
    /\ \/ Comparable /\ client = "Disconnected" /\ run' = Goto(address)
       \/ Comparable /\ Answers /\ client # "Disconnected" /\ run' = run
       \/ (~Comparable \/ Answers) /\ run' = false
    /\ UNCHANGED <<mem, claim, vpnVars>>

CleanAddress(label, status, true, false) ==
    /\ At(label) /\ uplink
    /\ IF Address \notin mem.tunneled
       THEN run' = true /\ Claim("clean")
       ELSE run' \in {Goto(status), false} /\ UNCHANGED claim
    /\ UNCHANGED <<mem, vpnVars>>

CleanupStatus ==
    \/ CleanStatus("clean", "clean_address", Advance(run))
    \/ CleanStatus("inspect", "clean_address", Advance(run))
CleanupAddress == CleanAddress("clean_address", "clean", Advance(run), Advance(run))

-----------------------------------------------------------------------------
\* Reconnect: the next session has to be there when the command returns.

Reconnect == Dial("reconnect", Goto("reconnect_status"))

ReconnectStatus ==
    /\ At("reconnect_status") /\ Connected
    /\ run' = Advance(run)
    /\ UNCHANGED <<mem, claim, vpnVars>>

-----------------------------------------------------------------------------
\* The network transition of linux.py.  A `down` that fails or times out is
\* not undone, even if it has worked; neither is one that has used up the
\* bound, since `up` is given what is left of it.

NetworkDown ==
    /\ At("network")
    /\ \/ uplink' = FALSE /\ run' \in {Goto("network_up"), RaiseTo(run)}
       \/ UNCHANGED uplink /\ run' = RaiseTo(run)
    /\ UNCHANGED <<mem, claim, client, egress, inflight>>

\* Mutant of NetworkUp: its result is not looked at.
NetworkUpUnchecked ==
    /\ At("network_up")
    /\ uplink' \in {TRUE, uplink}
    /\ run' = Goto("network_check")
    /\ UNCHANGED <<mem, claim, client, egress, inflight>>

NetworkUp ==
    /\ At("network_up")
    /\ \/ uplink' = TRUE /\ run' \in {Goto("network_check"), RaiseTo(run)}
       \/ UNCHANGED uplink /\ run' = RaiseTo(run)
    /\ UNCHANGED <<mem, claim, client, egress, inflight>>

\* Polled until session and route are back; failing probes are tolerated.
NetworkCheck ==
    /\ At("network_check")
    /\ \/ run' = Goto("network_address") /\ Connected
       \/ run' = run
    /\ UNCHANGED <<mem, claim, vpnVars>>

NetworkAddress ==
    /\ At("network_address")
    /\ \/ Changed /\ Remember /\ Claim("network") /\ run' = Advance(run)
       \/ run' = Goto("network_check") /\ UNCHANGED <<mem, claim>>
    /\ UNCHANGED vpnVars

-----------------------------------------------------------------------------
\* The process loss: the service is killed and started anew (the service
\* controller), then the profile is connected again under the old baseline.

ProcessLoss ==
    /\ At("loss")
    /\ client' \in {"down", "Disconnected"}
    /\ run' \in {Goto("loss_dial"), RaiseTo(run)}
    /\ run'.at = "loss_dial" => client' = "Disconnected"
    /\ inflight' = FALSE
    /\ UNCHANGED <<mem, claim, egress, uplink>>

LossDial == Dial("loss_dial", Goto("loss_status"))

LossStatus ==
    /\ At("loss_status") /\ Connected
    /\ run' = Goto("loss_routing")
    /\ UNCHANGED <<mem, claim, vpnVars>>

LossRouting ==
    /\ At("loss_routing")
    /\ Changed /\ Remember /\ Claim("loss")
    /\ run' = Advance(run)
    /\ UNCHANGED vpnVars

-----------------------------------------------------------------------------
\* The reset, which forgets everything however it ends.

Forget(failed) ==
    /\ run' = [run EXCEPT !.at = "next", !.tainted = @ \/ failed \/ inflight]
    /\ mem' = NoMemory
    /\ UNCHANGED <<claim, vpnVars>>

ResetLabels == {"reset", "reset_hangup", "reset_verify", "reset_clean", "reset_address"}
ResetFailed == [run EXCEPT !.at = "reset_failed"]

ResetStatus ==
    /\ At("reset") /\ Answers
    /\ run' = Goto(IF Connected THEN "reset_hangup" ELSE "reset_verify")
    /\ UNCHANGED <<mem, claim, vpnVars>>

ResetHangup == Hangup("reset_hangup", Goto("reset_verify"), ResetFailed)

\* Mutant of ResetVerify: the memory is dropped before it is compared.
ResetUnverified ==
    /\ At("reset_verify")
    /\ Forget(FALSE)

\* Without a baseline no session was begun since the last reset.
ResetVerify ==
    /\ At("reset_verify")
    /\ IF mem.baseline = NoBaseline
       THEN Forget(FALSE)
       ELSE run' = Goto("reset_clean") /\ UNCHANGED <<mem, claim, vpnVars>>

ResetClean == CleanStatus("reset_clean", "reset_address", ResetFailed)
ResetAddress == CleanAddress("reset_address", "reset_clean", Goto("reset_done"), ResetFailed)

ResetEnds ==
    /\ run.at \in {"reset_done", "reset_failed"}
    /\ Forget(At("reset_failed"))

ResetFails ==
    /\ run.at \in ResetLabels
    /\ run' = ResetFailed
    /\ UNCHANGED <<mem, claim, vpnVars>>

-----------------------------------------------------------------------------
\* The client moves on.  A given-up request that arrives when the reset has
\* read the state for the last time is remembered.
TooLate == inflight /\ ~inflight' /\ run.at \in {"reset_address", "reset_done"}

ClientMoves ==
    /\ VpnNext
    /\ run' = [run EXCEPT !.tainted = @ \/ TooLate]
    /\ UNCHANGED <<mem, claim>>

CliNext ==
    \/ BeginScenario \/ StepFails \/ Configure \/ CaptureBaseline \/ ConnectProfile
    \/ ObserveTunnel \/ ObserveRouting \/ Sample \/ Throughput
    \/ EnduranceStatus \/ EnduranceRouting \/ EnduranceTraffic
    \/ Disconnect \/ CleanupStatus \/ CleanupAddress
    \/ Reconnect \/ ReconnectStatus
    \/ NetworkDown \/ NetworkUp \/ NetworkCheck \/ NetworkAddress
    \/ ProcessLoss \/ LossDial \/ LossStatus \/ LossRouting
    \/ ResetStatus \/ ResetHangup \/ ResetVerify \/ ResetClean \/ ResetAddress
    \/ ResetEnds \/ ResetFails
    \/ ClientMoves

SessionTypeOK ==
    /\ VpnTypeOK
    /\ run.done \in 0..MaxScenarios /\ run.last \in 0..Len(Catalog)
    /\ run.count \in 0..StabilitySamples
    /\ {run.tainted, run.raised} \subseteq BOOLEAN
    /\ mem.baseline \in Addresses \cup {NoBaseline} /\ mem.tunneled \subseteq Addresses
    /\ claim \in [kind : {"none", "routing", "endurance", "network", "loss", "clean"},
                  via : {"clear", "tunnel"}]
=============================================================================

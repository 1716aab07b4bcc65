------------------------- MODULE HostedSessionProofs -------------------------
(***************************************************************************)
(* The sessions of a hosted lane, for any number of scenarios and samples: *)
(* what the reports of the command-line adapter mean, and what a device    *)
(* scenario that passed has left behind.  Each adapter has an inductive    *)
(* invariant of its own, since the other's variables stand still.          *)
(***************************************************************************)
EXTENDS HostedSession, SequenceTheorems, TLAPS

-----------------------------------------------------------------------------
\* The places of the command-line session.
Resetting == ResetLabels \cup {"reset_done", "reset_failed"}
Early == {"next", "configure", "connect"}
Labels == Steps \cup Resetting \cup {"next", "dial", "loss_dial", "network", "network_up"}

\* Steps that follow the connect of a scenario.
Later == {"tunnel", "routing", "stability", "throughput", "disconnect", "inspect",
          "reconnect", "network", "loss", "endurance"}

Run == [at : Labels, left : Seq(Later \cup {"connect"}), last : 0..Len(Catalog),
        done : 0..MaxScenarios, count : 0..StabilitySamples,
        tainted : BOOLEAN, raised : BOOLEAN]
Memory == [baseline : Addresses \cup {NoBaseline}, tunneled : SUBSET Addresses]
Evidence == [kind : {"none", "routing", "endurance", "network", "loss", "clean"},
             via : {"clear", "tunnel"}]

Typed == VpnTypeOK /\ run \in Run /\ mem \in Memory /\ claim \in Evidence

\* A scenario connects at its second step or never.
Order ==
    /\ At("configure") /\ run.left # <<>> => run.left[1] = "connect"
    /\ \A j \in DOMAIN run.left : run.left[j] = "connect" => At("configure") /\ j = 1

\* The baseline is taken before anything can be dialled, and an address
\* counts as the tunnel's only when it is another one.
Remembered ==
    /\ run.at \in Early => mem = NoMemory
    /\ run.at \notin Early \cup Resetting => mem.baseline # NoBaseline
    /\ mem.baseline = NoBaseline => mem.tunneled = {}
    /\ mem.baseline \notin mem.tunneled
    /\ run.at \in {"clean_address", "reset_address"} => Comparable

Gone == client \in {"Disconnected", "down"}

\* Without a baseline there is no session, none on its way, and no tunnel; so
\* the next baseline is the runner's own address.
Quiet ==
    ~run.tainted =>
        /\ mem.baseline \in {NoBaseline, "home"}
        /\ mem.baseline = NoBaseline => egress = "clear" /\ Gone /\ ~inflight

\* A request can be left over only by a scenario that has ended, and what a
\* reset has seen disconnected stays so.
HungUp ==
    ~run.tainted =>
        /\ inflight => run.at \in Resetting
        /\ run.at \in {"clean_address", "reset_address", "reset_done"} => Gone
        /\ At("reset_done") => egress = "clear"

Claims ==
    ~run.tainted =>
        /\ claim.kind \in {"routing", "endurance", "network", "loss"} => claim.via = "tunnel"
        /\ claim.kind = "clean" => /\ claim.via = "clear" /\ egress = "clear" /\ Gone
                                   /\ inflight => At("reset_done")

UplinkRestored == ~uplink => At("network_up") \/ run.raised

CliInv == Typed /\ Order /\ Remembered /\ Quiet /\ HungUp /\ Claims /\ UplinkRestored

-----------------------------------------------------------------------------
\* The places of the device adapter.
ControlPlaces == {"wait_ready", "awake", "sleep", "sleeping", "wake", "woken", "pid", "stop",
                  "absent", "push", "copy", "wait_gone"}
Cleared == {"remove_staged", "force_stop", "survivors", "finish"}
Finalization == {"diagnose", "remove"} \cup Cleared
DriverPlaces == {"next", "refused", "stage_profile", "chmod_profile", "stage_command",
                 "chmod_command", "instrument", "join", "fetch", "reset"}
                    \cup ControlPlaces \cup Finalization

Device == [files : SUBSET (FileNames \X (1..MaxScenarios)), app : BOOLEAN,
           test : {"off", "running"}, verdict : Verdicts, asleep : BOOLEAN]
Driver == [at : DriverPlaces, done : 0..MaxScenarios, controls : Controls,
           worker : {"none", "running", "ended", "failed"}, failing : BOOLEAN, good : BOOLEAN,
           broken : BOOLEAN, absent : {0, 1}, outcome : {"none", "passed", "failed"},
           raised : BOOLEAN]

DeviceTyped == device \in Device /\ driver \in Driver

\* No scenario has left a file under the number of a later one.
Dated ==
    /\ \A f \in device.files : f[2] <= driver.done
    /\ driver.done = 0 => DAt("next") /\ device.test = "off"

\* A result is good only after the instrumentation has ended.
Judged ==
    /\ driver.worker = "ended" => device.test = "off"
    /\ DAt("fetch") \/ driver.good => driver.worker = "ended"
    /\ driver.good => driver.at \in Finalization \cup {"reset", "next"}

\* Only a scenario with controls has files for them.
Controlled ==
    /\ driver.at \in ControlPlaces => driver.controls # <<>>
    /\ driver.controls = <<>> => ~Has("control") /\ ~Has("ready")

\* What the finalization of a good scenario has not failed to remove is gone.
Removed ==
    driver.good /\ ~driver.broken =>
        /\ driver.at \in Cleared => \A name \in FileNames \ {"staged"} : ~Has(name)
        /\ driver.at \in Cleared \ {"remove_staged"} => ~Has("staged")
        /\ DAt("finish") => ~device.app

Woke ==
    device.asleep =>
        \/ driver.at \in {"sleep", "sleeping", "wake"}
        \/ driver.raised
        \/ driver.at \in Finalization /\ ~driver.good

Passed ==
    driver.outcome = "passed" =>
        /\ driver.at \in {"reset", "next"}
        /\ device.test = "off" /\ ~device.app
        /\ \A name \in FileNames : ~Has(name)

DeviceInv == DeviceTyped /\ Dated /\ Judged /\ Controlled /\ Removed /\ Woke /\ Passed

IInv == adapter \in Adapters /\ CliInv /\ DeviceInv
-----------------------------------------------------------------------------
\* The elements of a sequence that lacks its head are later elements of it.
LEMMA TailElements ==
  ASSUME NEW S, NEW s \in Seq(S), s # <<>>
  PROVE  /\ Head(s) \in S /\ Head(s) = s[1] /\ Tail(s) \in Seq(S)
         /\ \A j \in DOMAIN Tail(s) : j + 1 \in DOMAIN s /\ Tail(s)[j] = s[j + 1]
<1>1. Len(s) \in Nat \ {0} /\ DOMAIN s = 1..Len(s) /\ 1 \in DOMAIN s
  OBVIOUS
<1>2. Head(s) = s[1] /\ Head(s) \in S /\ Tail(s) \in Seq(S)
  BY <1>1
<1>3. DOMAIN Tail(s) = 1..(Len(s) - 1) /\ \A j \in 1..(Len(s) - 1) : Tail(s)[j] = s[j + 1]
  BY <1>1
<1> QED BY <1>1, <1>2, <1>3

\* Going on to the next step changes nothing but the place.
LEMMA AdvanceRun ==
  ASSUME NEW r \in Run
  PROVE  /\ Advance(r) \in Run
         /\ Advance(r).tainted = r.tainted /\ Advance(r).raised = r.raised
         /\ Advance(r).at \in Later \cup {"connect", "reset"}
<1>1. CASE r.left = <<>>
  <2>1. "reset" \in Labels
    BY DEF Labels, Resetting, ResetLabels
  <2> QED BY <1>1, <2>1 DEF Advance, Run
<1>2. CASE r.left # <<>>
  <2>1. Head(r.left) \in Later \cup {"connect"} /\ Tail(r.left) \in Seq(Later \cup {"connect"})
    BY <1>2, TailElements DEF Run
  <2>2. Later \cup {"connect"} \subseteq Labels
    BY DEF Later, Labels, Steps
  <2>3. 0 \in 0..StabilitySamples
    BY SessionAssumption
  <2> QED BY <1>2, <2>1, <2>2, <2>3 DEF Advance, Run
<1> QED BY <1>1, <1>2

\* After the connect there are only steps that follow a connect.
LEMMA AdvanceOrder ==
  ASSUME run \in Run, Order
  PROVE  /\ \A j \in DOMAIN Advance(run).left : Advance(run).left[j] # "connect"
         /\ Advance(run).at = "connect" => At("configure")
         /\ At("configure") => Advance(run).at \in {"connect", "reset"}
<1>1. CASE run.left = <<>>
  <2>1. Advance(run).left = <<>> /\ Advance(run).at = "reset"
    BY <1>1 DEF Advance, Run
  <2>2. DOMAIN Advance(run).left = {}
    BY <2>1
  <2> QED BY <2>1, <2>2
<1>2. CASE run.left # <<>>
  <2>1. Advance(run).left = Tail(run.left) /\ Advance(run).at = Head(run.left)
    BY <1>2 DEF Advance, Run
  <2>2. /\ Head(run.left) = run.left[1]
        /\ \A j \in DOMAIN Tail(run.left) : j + 1 \in DOMAIN run.left
                                            /\ Tail(run.left)[j] = run.left[j + 1]
    BY <1>2, TailElements DEF Run
  <2>3. 1 \in DOMAIN run.left /\ run.left \in Seq(Later \cup {"connect"})
    BY <1>2 DEF Run
  <2>4. DOMAIN Tail(run.left) \subseteq Nat \ {0}
    BY <1>2, <2>3
  <2>5. \A j \in DOMAIN Tail(run.left) : j + 1 # 1
    BY <2>4
  <2>6. \A j \in DOMAIN Tail(run.left) : Tail(run.left)[j] # "connect"
    BY <2>2, <2>5 DEF Order
  <2> QED BY <1>2, <2>1, <2>2, <2>3, <2>6 DEF Order
<1> QED BY <1>1, <1>2

\* What every scenario of the catalogue looks like: configure, then nothing,
\* or connect and steps that follow a connect.
Shaped(s) ==
    /\ s # <<>> /\ Head(s) = "configure"
    /\ Tail(s) \in Seq(Later \cup {"connect"})
    /\ Tail(s) # <<>> => Tail(s)[1] = "connect"
    /\ \A j \in DOMAIN Tail(s) : Tail(s)[j] = "connect" => j = 1

\* A scenario that begins with the common connect has that shape.
LEMMA ConnectShaped == ASSUME NEW s \in Seq(Later) PROVE Shaped(CommonConnect \o s)
<1> DEFINE S == Later \cup {"connect"}
           T == Later \cup {"configure", "connect"}
           a == <<"connect", "tunnel", "routing">>
           t == CommonConnect \o s
           u == a \o s
<1>1. s \in Seq(S) /\ s \in Seq(T) /\ Len(s) \in Nat
  OBVIOUS
<1>2. /\ t \in Seq(T) /\ Len(t) = 4 + Len(s)
      /\ \A j \in 1..(4 + Len(s)) : t[j] = IF j <= 4 THEN CommonConnect[j] ELSE s[j - 4]
  <2>1. CommonConnect \in Seq(T) /\ Len(CommonConnect) = 4
    BY DEF CommonConnect, Later
  <2>2. /\ t \in Seq(T) /\ Len(t) = Len(CommonConnect) + Len(s)
        /\ \A j \in 1..(Len(CommonConnect) + Len(s)) :
              t[j] = IF j <= Len(CommonConnect) THEN CommonConnect[j] ELSE s[j - Len(CommonConnect)]
    <3> HIDE DEF T
    <3> QED BY <1>1, <2>1, ConcatProperties, Zenon
  <2> QED BY <2>1, <2>2, Zenon
<1>3. /\ u \in Seq(Later \cup {"connect"}) /\ Len(u) = 3 + Len(s)
      /\ \A j \in 1..(3 + Len(s)) : u[j] = IF j <= 3 THEN a[j] ELSE s[j - 3]
  <2>1. a \in Seq(S) /\ Len(a) = 3
    BY DEF Later
  <2>2. /\ u \in Seq(S) /\ Len(u) = Len(a) + Len(s)
        /\ \A j \in 1..(Len(a) + Len(s)) : u[j] = IF j <= Len(a) THEN a[j] ELSE s[j - Len(a)]
    <3> HIDE DEF S, a
    <3> QED BY <1>1, <2>1, ConcatProperties, Zenon
  <2> HIDE DEF a
  <2> QED BY <2>1, <2>2, Zenon
<1>4. t # <<>> /\ Head(t) = "configure"
  BY <1>1, <1>2 DEF CommonConnect
<1>5. Tail(t) = u
  <2>1. /\ Tail(t) \in Seq(T) /\ Len(Tail(t)) = 3 + Len(s)
        /\ \A j \in 1..(3 + Len(s)) : Tail(t)[j] = t[j + 1]
    <3> HIDE DEF t
    <3> QED BY <1>1, <1>2, <1>4, HeadTailProperties
  <2>2. \A j \in 1..3 : CommonConnect[j + 1] = a[j]
    BY DEF CommonConnect
  <2>3. \A j \in 1..(3 + Len(s)) : Tail(t)[j] = u[j]
    <3> SUFFICES ASSUME NEW j \in 1..(3 + Len(s)) PROVE Tail(t)[j] = u[j]
      OBVIOUS
    <3> HIDE DEF t, u, a
    <3>1. Tail(t)[j] = IF j <= 3 THEN CommonConnect[j + 1] ELSE s[j - 3]
      <4>1. j + 1 \in 1..(4 + Len(s)) /\ (j + 1 <= 4 <=> j <= 3) /\ j + 1 - 4 = j - 3
        BY <1>1
      <4> QED BY <1>2, <2>1, <4>1
    <3>2. j <= 3 => j \in 1..3
      OBVIOUS
    <3> QED BY <1>3, <2>2, <3>1, <3>2
  <2>4. u \in Seq(T)
    BY <1>3, SeqMonotonic
  <2> HIDE DEF t, u
  <2> QED BY <1>1, <1>3, <2>1, <2>3, <2>4, SeqEqual
<1>6. u # <<>> /\ u[1] = "connect"
  BY <1>1, <1>3
<1>7. \A j \in DOMAIN u : u[j] = "connect" => j = 1
  <2>1. \A j \in 1..Len(s) : s[j] \in Later
    OBVIOUS
  <2>2. a[2] \in Later /\ a[3] \in Later /\ "connect" \notin Later
    BY DEF Later
  <2>3. DOMAIN u = 1..(3 + Len(s))
    BY <1>1, <1>3
  <2> HIDE DEF u, a
  <2>4. ASSUME NEW j \in 1..(3 + Len(s)), j # 1 PROVE u[j] \in Later
    <3>1. CASE j <= 3
      BY <3>1, <1>1, <1>3, <2>2, <2>4
    <3>2. CASE j > 3
      BY <3>2, <1>1, <1>3, <2>1
    <3> QED BY <3>1, <3>2
  <2> QED BY <2>2, <2>3, <2>4
<1> HIDE DEF t, u
<1>8. Shaped(t)
  BY <1>3, <1>4, <1>5, <1>6, <1>7 DEF Shaped
<1> QED BY <1>8 DEF t

\* So all scenarios of the catalogue have it.
LEMMA CatalogShaped == Len(Catalog) \in Nat /\ \A i \in 1..Len(Catalog) : Shaped(Catalog[i])
<1>1. Len(Catalog) = 9
  BY DEF Catalog
<1>2. Shaped(<<"configure">>)
  BY DEF Shaped
<1>3. CommonConnect = CommonConnect \o <<>> /\ <<>> \in Seq(Later)
  BY DEF CommonConnect
<1>4. Shaped(CommonConnect)
  BY <1>3, ConnectShaped
<1>5. /\ <<"stability", "throughput", "disconnect", "inspect">> \in Seq(Later)
      /\ <<"stability", "throughput">> \in Seq(Later)
      /\ <<"disconnect", "inspect">> \in Seq(Later)
      /\ <<"disconnect", "reconnect", "tunnel", "routing", "disconnect", "inspect">> \in Seq(Later)
      /\ <<"network", "disconnect", "inspect">> \in Seq(Later)
      /\ <<"loss", "disconnect", "inspect">> \in Seq(Later)
      /\ <<"endurance", "disconnect", "inspect">> \in Seq(Later)
  BY DEF Later
<1>6. /\ Shaped(Catalog[1]) /\ Shaped(Catalog[2]) /\ Shaped(Catalog[3])
      /\ Shaped(Catalog[4]) /\ Shaped(Catalog[5]) /\ Shaped(Catalog[6])
      /\ Shaped(Catalog[7]) /\ Shaped(Catalog[8]) /\ Shaped(Catalog[9])
  BY <1>2, <1>4, <1>5, ConnectShaped DEF Catalog
<1>7. \A i \in 1..9 : i = 1 \/ i = 2 \/ i = 3 \/ i = 4 \/ i = 5 \/ i = 6 \/ i = 7 \/ i = 8 \/ i = 9
  OBVIOUS
<1> QED BY <1>1, <1>6, <1>7

-----------------------------------------------------------------------------
\* Other places of the same run.
LEMMA GotoRun ==
  ASSUME run \in Run, NEW label \in Labels
  PROVE  /\ Goto(label) \in Run /\ Goto(label).at = label /\ Goto(label).left = run.left
         /\ Goto(label).tainted = run.tainted /\ Goto(label).raised = run.raised
BY DEF Goto, Run

\* A raised error ends the scenario.
LEMMA RaiseRun ==
  ASSUME run \in Run
  PROVE  /\ RaiseTo(run) \in Run /\ RaiseTo(run).at = "reset" /\ RaiseTo(run).left = <<>>
         /\ RaiseTo(run).tainted = run.tainted /\ RaiseTo(run).raised
<1>1. "reset" \in Labels
  BY DEF Labels, Resetting, ResetLabels
<1>2. <<>> \in Seq(Later \cup {"connect"})
  OBVIOUS
<1> QED BY <1>1, <1>2 DEF RaiseTo, Run

\* The order of the steps left survives every step but the start.
LEMMA OrderKept ==
  ASSUME run \in Run, Order,
         \/ run'.left = run.left /\ ~At("configure") /\ run'.at # "configure"
         \/ run'.left = <<>>
         \/ run'.left = Advance(run).left /\ run'.at # "configure"
  PROVE  Order'
<1>1. CASE run'.left = run.left /\ ~At("configure") /\ run'.at # "configure"
  BY <1>1 DEF Order, At
<1>2. CASE run'.left = <<>>
  <2>1. DOMAIN run'.left = {}
    BY <1>2
  <2> QED BY <1>2, <2>1 DEF Order, At
<1>3. CASE run'.left = Advance(run).left /\ run'.at # "configure"
  BY <1>3, AdvanceOrder DEF Order, At
<1> QED BY <1>1, <1>2, <1>3

\* A step of the run alone: where it may go from where.
Moved ==
    /\ run' \in Run /\ Order'
    /\ run'.tainted = run.tainted /\ (run.raised => run'.raised)
    /\ run'.at \in Early => run.at \in Early
    /\ run'.at \notin Early \cup Resetting => run.at \notin Early \cup Resetting
    /\ run'.at \in {"clean_address", "reset_address"} => Comparable /\ client = "Disconnected"
    /\ run.at \in Resetting => run'.at \in Resetting
    /\ run.at # "reset_done" /\ run'.at # "reset_done"
    /\ At("network_up") => run'.raised

\* Such a step keeps what holds of the client, the memory and the claim.
LEMMA MovedKeeps ==
  ASSUME CliInv, Moved, UNCHANGED <<mem, claim, vpnVars>>
  PROVE  CliInv'
<1> USE DEF CliInv, Moved, vpnVars
<1>1. Typed'
  BY DEF Typed, VpnTypeOK
<1>2. Remembered'
  BY DEF Remembered, Comparable, Early, Resetting, ResetLabels
<1>3. Quiet'
  BY DEF Quiet, Gone
<1>4. HungUp'
  BY DEF HungUp, Gone, At
<1>5. Claims'
  BY DEF Claims, Gone, At
<1>6. UplinkRestored'
  BY DEF UplinkRestored, At, Typed, Run
<1> QED BY <1>1, <1>2, <1>3, <1>4, <1>5, <1>6

\* What the later steps have in common.
LEMMA Places ==
  /\ Later \cup Steps \cup Early \cup Resetting \subseteq Labels
  /\ Later \cap (Early \cup Resetting) = {}
  /\ Steps \cap Resetting = {}
  /\ Later \cap {"clean_address", "reset_address"} = {}
  /\ "network_up" \notin Steps
BY DEF Later, Steps, Early, Resetting, ResetLabels, Labels

\* Going on from a step behind the connect.
LEMMA AdvanceMoved ==
  ASSUME CliInv, run.at \notin {"configure", "network_up"}, run.at \notin Early \cup Resetting,
         run' = Advance(run)
  PROVE  Moved
<1>1. run \in Run /\ Order /\ ~At("configure")
  BY DEF CliInv, Typed, At
<1>2. run' \in Run /\ run'.at \in Later \cup {"reset"} /\ run'.tainted = run.tainted
      /\ run'.raised = run.raised
  BY <1>1, AdvanceRun, AdvanceOrder
<1>3. run'.at \notin Early \cup {"configure", "clean_address", "reset_address", "reset_done"}
  BY <1>2 DEF Later, Early
<1>4. Order'
  BY <1>1, <1>2, <1>3, OrderKept
<1>5. run.at # "reset_done" /\ ~At("network_up") /\ run.at \notin Resetting
  BY DEF Resetting, At
<1>6. run'.at \notin Early \cup Resetting => run.at \notin Early \cup Resetting
  OBVIOUS
<1> QED BY <1>2, <1>3, <1>4, <1>5, <1>6 DEF Moved

\* Ending a scenario.
LEMMA RaiseMoved ==
  ASSUME CliInv, run' = RaiseTo(run), run.at \notin Resetting
  PROVE  Moved
<1>1. run \in Run /\ Order
  BY DEF CliInv, Typed
<1>2. Order'
  BY <1>1, RaiseRun, OrderKept
<1> QED BY <1>1, <1>2, RaiseRun DEF Moved, Early, Resetting, ResetLabels

\* Going to a place of the same step.
LEMMA GotoMoved ==
  ASSUME CliInv, NEW label \in Labels, run' = Goto(label),
         label \notin Early \cup {"reset_done"},
         label \in {"clean_address", "reset_address"} => Comparable /\ client = "Disconnected",
         run.at \notin Early \cup {"reset_done", "network_up"},
         run.at \in Resetting <=> label \in Resetting
  PROVE  Moved
<1>1. run \in Run /\ Order
  BY DEF CliInv, Typed
<1>2. run' \in Run /\ run'.at = label /\ run'.left = run.left
      /\ run'.tainted = run.tainted /\ run'.raised = run.raised
  BY <1>1, GotoRun
<1>3. ~At("configure") /\ label # "configure"
  BY DEF Early, At
<1>4. Order'
  BY <1>1, <1>2, <1>3, OrderKept
<1> QED BY <1>2, <1>4 DEF Moved, At

\* So does counting a sample or a transfer.
LEMMA CountMoved ==
  ASSUME CliInv, NEW label \in Labels \ (Early \cup Resetting \cup {"clean_address"}),
         NEW n \in 0..StabilitySamples,
         run' = [run EXCEPT !.at = label, !.count = n],
         run.at \notin Early \cup Resetting \cup {"network_up"}
  PROVE  Moved
<1>1. run \in Run /\ Order
  BY DEF CliInv, Typed
<1>2. run' \in Run /\ run'.at = label /\ run'.left = run.left
      /\ run'.tainted = run.tainted /\ run'.raised = run.raised
  BY <1>1 DEF Run
<1>3. ~At("configure") /\ label # "configure"
  BY DEF Early, At
<1>4. Order'
  BY <1>1, <1>2, <1>3, OrderKept
<1>5. label \notin {"clean_address", "reset_address", "reset_done"}
      /\ run.at # "reset_done"
  BY DEF Resetting, ResetLabels
<1> QED BY <1>2, <1>4, <1>5 DEF Moved, At

\* A step that fails ends the scenario.
LEMMA StepFailsKeeps == ASSUME CliInv, StepFails PROVE CliInv'
<1>1. run.at \notin Resetting /\ run' = RaiseTo(run) /\ UNCHANGED <<mem, claim, vpnVars>>
  BY Places DEF StepFails, Raises
<1> QED BY <1>1, RaiseMoved, MovedKeeps

\* The steps that only look at the client, and configure.
LEMMA LookingKeeps ==
  ASSUME CliInv,
         \/ Configure \/ ObserveTunnel \/ Sample \/ Throughput \/ EnduranceStatus
         \/ EnduranceTraffic \/ ReconnectStatus \/ NetworkCheck \/ LossStatus
  PROVE  CliInv'
<1>0. run \in Run /\ Order /\ SessionAssumption
  BY SessionAssumption DEF CliInv, Typed
<1>1. CASE Configure
  <2>1. run' = Advance(run) /\ At("configure") /\ UNCHANGED <<mem, claim, vpnVars>>
    BY <1>1 DEF Configure
  <2>2. run' \in Run /\ run'.tainted = run.tainted /\ run'.raised = run.raised
        /\ run'.at \in {"connect", "reset"}
    BY <1>0, <2>1, AdvanceRun, AdvanceOrder
  <2>3. Order'
    BY <1>0, <2>1, <2>2, OrderKept
  <2>4. Moved
    BY <2>1, <2>2, <2>3 DEF Moved, At, Early, Resetting, ResetLabels
  <2> QED BY <2>1, <2>4, MovedKeeps
<1>2. CASE ObserveTunnel \/ Throughput \/ ReconnectStatus
  <2>1. run' = Advance(run) /\ run.at \in {"tunnel", "throughput", "reconnect_status"}
        /\ UNCHANGED <<mem, claim, vpnVars>>
    BY <1>2 DEF ObserveTunnel, Throughput, ReconnectStatus, At
  <2>2. run.at \notin Early \cup Resetting
    BY <2>1 DEF Early, Resetting, ResetLabels
  <2>3. Moved
    BY <2>1, <2>2, AdvanceMoved
  <2> QED BY <2>1, <2>3, MovedKeeps
<1>3. CASE Sample
  <2>1. run.at = "stability" /\ UNCHANGED <<mem, claim, vpnVars>>
    BY <1>3 DEF Sample, At
  <2>2. run.at \notin Early \cup Resetting \cup {"network_up"}
    BY <2>1 DEF Early, Resetting, ResetLabels
  <2>3. CASE run' = Advance(run)
    <3>1. Moved
      BY <2>1, <2>2, <2>3, AdvanceMoved
    <3> QED BY <2>1, <3>1, MovedKeeps
  <2>4. CASE run.count + 1 < StabilitySamples /\ run' = [run EXCEPT !.count = @ + 1]
    <3>1. run.count + 1 \in 0..StabilitySamples
      BY <1>0, <2>4 DEF Run, SessionAssumption
    <3>2. run' = [run EXCEPT !.at = "stability", !.count = run.count + 1]
      BY <1>0, <2>1, <2>4 DEF Run
    <3>3. "stability" \in Labels \ (Early \cup Resetting \cup {"clean_address"})
      BY DEF Labels, Steps, Early, Resetting, ResetLabels
    <3>4. Moved
      BY <2>2, <3>1, <3>2, <3>3, CountMoved
    <3> QED BY <2>1, <3>4, MovedKeeps
  <2> QED BY <1>3, <2>3, <2>4 DEF Sample
<1>4. CASE EnduranceStatus
  <2>1. run.at = "endurance" /\ UNCHANGED <<mem, claim, vpnVars>>
        /\ (run' = Goto("endurance_routing") \/ run' = Advance(run))
    BY <1>4 DEF EnduranceStatus, At
  <2>2. run.at \notin Early \cup Resetting \cup {"network_up", "reset_done"}
    BY <2>1 DEF Early, Resetting, ResetLabels
  <2>3. "endurance_routing" \in Labels \ (Early \cup Resetting \cup {"reset_done"})
    BY DEF Labels, Steps, Early, Resetting, ResetLabels
  <2>4. Moved
    BY <2>1, <2>2, <2>3, AdvanceMoved, GotoMoved
  <2> QED BY <2>1, <2>4, MovedKeeps
<1>5. CASE EnduranceTraffic
  <2>1. /\ run.at = "endurance_traffic" /\ UNCHANGED <<mem, claim, vpnVars>>
        /\ \/ run' = [Goto("endurance") EXCEPT !.count = 2]
           \/ run' = [run EXCEPT !.count = 1]
    BY <1>5 DEF EnduranceTraffic, At
  <2>2. run.at \notin Early \cup Resetting \cup {"network_up"}
    BY <2>1 DEF Early, Resetting, ResetLabels
  <2>3. {"endurance", "endurance_traffic"} \subseteq Labels \ (Early \cup Resetting \cup {"clean_address"})
    BY DEF Labels, Steps, Early, Resetting, ResetLabels
  <2>4. 1 \in 0..StabilitySamples /\ 2 \in 0..StabilitySamples
    BY SessionAssumption
  <2>5. \/ run' = [run EXCEPT !.at = "endurance", !.count = 2]
        \/ run' = [run EXCEPT !.at = "endurance_traffic", !.count = 1]
    BY <1>0, <2>1 DEF Goto, Run
  <2>6. Moved
    BY <2>2, <2>3, <2>4, <2>5, CountMoved
  <2> QED BY <2>1, <2>6, MovedKeeps
<1>6. CASE NetworkCheck
  <2>1. run.at = "network_check" /\ UNCHANGED <<mem, claim, vpnVars>>
        /\ (run' = Goto("network_address") \/ run' = run)
    BY <1>6 DEF NetworkCheck, At
  <2>2. run.at \notin Early \cup Resetting \cup {"network_up", "reset_done"}
    BY <2>1 DEF Early, Resetting, ResetLabels
  <2>3. {"network_address", "network_check"} \subseteq Labels \ (Early \cup Resetting \cup {"reset_done"})
    BY DEF Labels, Steps, Early, Resetting, ResetLabels
  <2>4. run' = Goto("network_address") \/ run' = Goto("network_check")
    BY <1>0, <2>1 DEF Goto, Run
  <2>5. Moved
    BY <2>2, <2>3, <2>4, GotoMoved
  <2> QED BY <2>1, <2>5, MovedKeeps
<1>7. CASE LossStatus
  <2>1. run.at = "loss_status" /\ UNCHANGED <<mem, claim, vpnVars>> /\ run' = Goto("loss_routing")
    BY <1>7 DEF LossStatus, At
  <2>2. run.at \notin Early \cup Resetting \cup {"network_up", "reset_done"}
    BY <2>1 DEF Early, Resetting, ResetLabels
  <2>3. "loss_routing" \in Labels \ (Early \cup Resetting \cup {"reset_done"})
    BY DEF Labels, Steps, Early, Resetting, ResetLabels
  <2>4. Moved
    BY <2>1, <2>2, <2>3, GotoMoved
  <2> QED BY <2>1, <2>4, MovedKeeps
<1> QED BY <1>1, <1>2, <1>3, <1>4, <1>5, <1>6, <1>7

-----------------------------------------------------------------------------
\* Where an address is seen.
LEMMA Seen ==
  ASSUME VpnTypeOK
  PROVE  /\ Address \in Addresses
         /\ Address = "home" <=> egress = "clear"
         /\ Address = "exit" <=> egress = "tunnel"
BY DEF VpnTypeOK, Address, Addresses

\* An address that differs from the baseline is the tunnel's.
LEMMA ClaimedKeeps ==
  ASSUME CliInv, Moved, Changed, Remember, UNCHANGED vpnVars,
         NEW kind \in {"routing", "endurance", "network", "loss"}, Claim(kind),
         run.at \notin Resetting
  PROVE  CliInv'
<1> USE DEF CliInv, Moved, vpnVars
<1>1. /\ mem' \in Memory /\ mem'.baseline = mem.baseline
      /\ mem'.tunneled = mem.tunneled \cup {Address}
      /\ Address # mem.baseline /\ mem.baseline # NoBaseline
  BY Seen DEF Remember, Changed, Typed, Memory
<1>2. claim' \in Evidence /\ claim'.kind = kind /\ claim'.via = egress
  BY DEF Claim, Typed, VpnTypeOK, Evidence
<1>3. Typed'
  BY <1>1, <1>2 DEF Typed, VpnTypeOK
<1>4. run'.at \notin Early
  BY <1>1 DEF Remembered, NoMemory, NoBaseline
<1>5. Remembered'
  <2> HIDE DEF Moved
  <2>1. mem'.tunneled # {} /\ mem'.baseline \notin mem'.tunneled
    BY <1>1 DEF Remembered
  <2> QED BY <1>1, <1>4, <2>1 DEF Remembered, Comparable
<1>6. Quiet'
  BY <1>1 DEF Quiet, Gone
<1>7. HungUp'
  BY DEF HungUp, Gone, At
<1>8. ~run.tainted => egress = "tunnel"
  BY <1>1, Seen DEF Quiet, Typed, VpnTypeOK
<1>9. Claims'
  BY <1>2, <1>8 DEF Claims
<1>10. UplinkRestored'
  BY DEF UplinkRestored, At, Typed, Run
<1> QED BY <1>3, <1>5, <1>6, <1>7, <1>9, <1>10

\* The four places where a routing identity is claimed.
LEMMA RoutingKeeps ==
  ASSUME CliInv, ObserveRouting \/ EnduranceRouting \/ NetworkAddress \/ LossRouting
  PROVE  CliInv'
<1>0. run \in Run
  BY DEF CliInv, Typed
<1>1. CASE ObserveRouting
  <2>1. /\ run.at = "routing" /\ run' = Advance(run) /\ UNCHANGED vpnVars
        /\ (Changed /\ Remember /\ Claim("routing")) \/ UNCHANGED <<mem, claim>>
    BY <1>1 DEF ObserveRouting, At
  <2>2. run.at \notin Early \cup Resetting /\ run.at \notin Resetting
    BY <2>1 DEF Early, Resetting, ResetLabels
  <2>3. Moved
    BY <2>1, <2>2, AdvanceMoved
  <2> QED BY <2>1, <2>2, <2>3, ClaimedKeeps, MovedKeeps
<1>2. CASE EnduranceRouting
  <2>1. /\ run.at = "endurance_routing" /\ UNCHANGED vpnVars
        /\ run' = Goto("endurance") \/ run' = Goto("endurance_traffic")
        /\ Changed /\ Remember /\ Claim("endurance")
    BY <1>2 DEF EnduranceRouting, At
  <2>2. run.at \notin Early \cup {"reset_done", "network_up"} /\ run.at \notin Resetting
    BY <2>1 DEF Early, Resetting, ResetLabels
  <2>3. {"endurance", "endurance_traffic"}
            \subseteq Labels \ (Early \cup Resetting \cup {"reset_done", "clean_address", "reset_address"})
    BY DEF Labels, Steps, Early, Resetting, ResetLabels
  <2>4. Moved
    BY <2>1, <2>2, <2>3, GotoMoved
  <2> QED BY <2>1, <2>2, <2>4, ClaimedKeeps
<1>3. CASE NetworkAddress
  <2>1. /\ run.at = "network_address" /\ UNCHANGED vpnVars
        /\ \/ Changed /\ Remember /\ Claim("network") /\ run' = Advance(run)
           \/ run' = Goto("network_check") /\ UNCHANGED <<mem, claim>>
    BY <1>3 DEF NetworkAddress, At
  <2>2. run.at \notin Early \cup {"reset_done", "network_up"} /\ run.at \notin Resetting
    BY <2>1 DEF Early, Resetting, ResetLabels
  <2>3. "network_check" \in Labels \ (Early \cup Resetting \cup {"reset_done"})
    BY DEF Labels, Steps, Early, Resetting, ResetLabels
  <2>4. Moved
    BY <2>1, <2>2, <2>3, GotoMoved, AdvanceMoved
  <2> QED BY <2>1, <2>2, <2>4, ClaimedKeeps, MovedKeeps
<1>4. CASE LossRouting
  <2>1. /\ run.at = "loss_routing" /\ UNCHANGED vpnVars /\ run' = Advance(run)
        /\ Changed /\ Remember /\ Claim("loss")
    BY <1>4 DEF LossRouting, At
  <2>2. run.at \notin Early \cup Resetting /\ run.at \notin Resetting
    BY <2>1 DEF Early, Resetting, ResetLabels
  <2>3. Moved
    BY <2>1, <2>2, AdvanceMoved
  <2> QED BY <2>1, <2>2, <2>3, ClaimedKeeps
<1> QED BY <1>1, <1>2, <1>3, <1>4

\* The baseline of an untainted lane is the runner's own address.
LEMMA BaselineKeeps == ASSUME CliInv, CaptureBaseline PROVE CliInv'
<1> USE DEF CliInv, vpnVars
<1>1. /\ run.at = "connect" /\ UNCHANGED vpnVars /\ claim' = NoClaim
      /\ run \in Run /\ Order /\ mem = NoMemory
  BY DEF CaptureBaseline, At, Typed, Remembered, Early
<1>2. run.at \notin Resetting /\ ~At("network_up") /\ ~At("configure")
  BY <1>1 DEF Resetting, ResetLabels, At
<1>3. claim' \in Evidence /\ claim'.kind = "none"
  BY <1>1 DEF NoClaim, Evidence
<1>4. CASE mem' = [baseline |-> Address, tunneled |-> {}] /\ run' = Goto("dial")
  <2>1. "dial" \in Labels \ (Early \cup Resetting)
        /\ "dial" \notin {"clean_address", "reset_address", "reset_done", "configure", "network_up"}
    BY DEF Labels, Early, Resetting, ResetLabels
  <2>2. run' \in Run /\ run'.at = "dial" /\ run'.left = run.left
        /\ run'.tainted = run.tainted /\ run'.raised = run.raised
    BY <1>1, <1>4, <2>1, GotoRun
  <2>3. Order'
    BY <1>1, <1>2, <2>1, <2>2, OrderKept
  <2>4. Address \in Addresses /\ (Address = "home" <=> egress = "clear")
    BY Seen DEF Typed
  <2>5. mem' \in Memory /\ mem'.baseline = Address /\ mem'.tunneled = {} /\ mem'.baseline # NoBaseline
    BY <1>4, <2>4 DEF Memory, Addresses, NoBaseline
  <2>6. Typed'
    BY <1>1, <1>3, <2>2, <2>5 DEF Typed, VpnTypeOK
  <2>7. Remembered'
    BY <2>1, <2>2, <2>5 DEF Remembered
  <2>8. ~run.tainted => egress = "clear" /\ Gone /\ ~inflight
    BY <1>1 DEF Quiet, NoMemory
  <2>9. Quiet' /\ HungUp' /\ Claims'
    BY <1>1, <1>3, <2>1, <2>2, <2>4, <2>5, <2>8 DEF Quiet, HungUp, Claims, Gone, At
  <2>10. UplinkRestored'
    BY <1>1, <1>2, <2>2 DEF UplinkRestored, At
  <2> QED BY <2>3, <2>6, <2>7, <2>9, <2>10
<1>5. CASE mem' = [mem EXCEPT !.tunneled = {}] /\ run' = RaiseTo(run)
  <2>1. mem' = mem
    BY <1>1, <1>5 DEF NoMemory
  <2>2. Moved
    BY <1>2, <1>5, RaiseMoved
  <2>3. run' \in Run /\ run'.at = "reset" /\ run'.tainted = run.tainted /\ run'.raised
    BY <1>1, <1>5, RaiseRun
  <2>4. Typed'
    BY <1>1, <1>3, <2>1, <2>3 DEF Typed, VpnTypeOK
  <2>5. Remembered'
    BY <2>1, <2>3 DEF Remembered, Early, Resetting, ResetLabels
  <2>6. Quiet' /\ HungUp'
    BY <1>1, <2>1, <2>3 DEF Quiet, HungUp, Gone, At, Resetting, ResetLabels
  <2>7. Claims' /\ UplinkRestored'
    BY <1>3, <2>3 DEF Claims, UplinkRestored
  <2> QED BY <2>2, <2>4, <2>5, <2>6, <2>7 DEF Moved
<1> QED BY <1>4, <1>5 DEF CaptureBaseline

\* A dialled session has a baseline, and a request that may still arrive
\* belongs to a scenario that has ended.
LEMMA DialKeeps ==
  ASSUME CliInv, ConnectProfile \/ Reconnect \/ LossDial
  PROVE  CliInv'
<1> USE DEF CliInv
<1>1. /\ run.at \in {"dial", "reconnect", "loss_dial"} /\ run \in Run /\ Order
      /\ claim' = NoClaim /\ UNCHANGED <<mem, egress, uplink>>
      /\ inflight' = inflight \/ (inflight' = TRUE /\ run' = RaiseTo(run))
      /\ client' = client \/ Accepted
  BY DEF ConnectProfile, Reconnect, LossDial, Dial, At, Typed
<1>2. run.at \notin Early \cup Resetting \cup {"configure", "network_up", "reset_done"}
  BY <1>1 DEF Early, Resetting, ResetLabels
<1>3. mem.baseline # NoBaseline
  BY <1>2 DEF Remembered
<1>4. claim' \in Evidence /\ claim'.kind = "none"
  BY <1>1 DEF NoClaim, Evidence
<1>5. client' \in {"down", "Disconnected", "Connecting", "Connected", "Disconnecting"}
  BY <1>1 DEF Accepted, Typed, VpnTypeOK
<1>6. \/ run' = RaiseTo(run)
      \/ run' = Advance(run) \/ run' = Goto("reconnect_status") \/ run' = Goto("loss_status")
  BY DEF ConnectProfile, Reconnect, LossDial, Dial
<1>7. {"reconnect_status", "loss_status"}
            \subseteq Labels \ (Early \cup Resetting \cup {"reset_done", "clean_address", "reset_address"})
  BY DEF Labels, Steps, Early, Resetting, ResetLabels
<1>8. Moved
  BY <1>2, <1>6, <1>7, RaiseMoved, AdvanceMoved, GotoMoved
<1>9. run' = RaiseTo(run) => run'.at = "reset"
  BY <1>1, RaiseRun
<1>10. run'.at \in Later \cup {"reset", "reconnect_status", "loss_status"}
  BY <1>1, <1>2, <1>6, <1>7, <1>9, AdvanceRun, AdvanceOrder, GotoRun DEF At
<1>11. run'.at \notin {"clean_address", "reset_address", "reset_done"} \cup Early
  BY <1>10 DEF Later, Early
<1>12. Typed'
  BY <1>1, <1>4, <1>5, <1>8 DEF Typed, VpnTypeOK, Moved
<1>13. Remembered'
  BY <1>1, <1>3, <1>11 DEF Remembered
<1>14. Quiet'
  BY <1>1, <1>3, <1>8 DEF Quiet, Moved
<1>15. HungUp'
  BY <1>1, <1>2, <1>8, <1>9, <1>11 DEF HungUp, Moved, At, Resetting, ResetLabels
<1>16. Claims' /\ UplinkRestored'
  BY <1>1, <1>4, <1>8 DEF Claims, UplinkRestored, Moved, At
<1> QED BY <1>8, <1>12, <1>13, <1>14, <1>15, <1>16 DEF Moved

\* Hanging up ends what there is and begins nothing.
LEMMA HangupKeeps == ASSUME CliInv, Disconnect \/ ResetHangup PROVE CliInv'
<1> USE DEF CliInv
<1>1. /\ UNCHANGED <<mem, claim, egress, uplink, inflight>> /\ run \in Run
      /\ client' = client \/ (client # "Disconnected" /\ client' \in {"Disconnecting", "Disconnected"})
      /\ client = "down" => client' = client
      /\ run.at \in {"disconnect", "reset_hangup"}
  BY DEF Disconnect, ResetHangup, Hangup, Answers, At, Typed
<1>2. run.at \notin Early \cup {"reset_done", "network_up"}
  BY <1>1 DEF Early
<1>3. Moved
  <2>1. CASE Disconnect
    <3>1. run' = Goto("clean") \/ run' = RaiseTo(run)
      BY <2>1 DEF Disconnect, Hangup
    <3>2. run.at \notin Resetting
      BY <2>1 DEF Disconnect, Hangup, At, Resetting, ResetLabels
    <3>3. "clean" \in Labels \ (Early \cup Resetting \cup {"reset_done"})
      BY DEF Labels, Steps, Early, Resetting, ResetLabels
    <3> QED BY <1>2, <3>1, <3>2, <3>3, RaiseMoved, GotoMoved
  <2>2. CASE ResetHangup
    <3>1. run' = Goto("reset_verify") \/ run' = Goto("reset_failed")
      BY <2>2 DEF ResetHangup, Hangup, ResetFailed, Goto
    <3>2. run.at \in Resetting
      BY <2>2 DEF ResetHangup, Hangup, At, Resetting, ResetLabels
    <3>3. {"reset_verify", "reset_failed"} \subseteq Labels \cap Resetting
          /\ {"reset_verify", "reset_failed"} \cap (Early \cup {"reset_done"}) = {}
      BY DEF Labels, Early, Resetting, ResetLabels
    <3> QED BY <1>2, <3>1, <3>2, <3>3, GotoMoved
  <2> QED BY <2>1, <2>2
<1>4. run'.at \notin {"clean_address", "reset_address"}
  <2>1. CASE Disconnect
    <3>1. run'.at \in {"clean", "reset"}
      BY <1>1, <2>1, RaiseRun DEF Disconnect, Hangup, Goto, Run
    <3> QED BY <3>1
  <2>2. CASE ResetHangup
    BY <1>1, <2>2 DEF ResetHangup, Hangup, ResetFailed, Goto, Run
  <2> QED BY <2>1, <2>2
<1>5. Gone => Gone'
  BY <1>1 DEF Gone
<1>6. Typed'
  BY <1>1, <1>3 DEF Typed, VpnTypeOK, Moved
<1>7. Remembered'
  BY <1>1, <1>3, <1>4 DEF Remembered, Moved
<1>8. Quiet' /\ HungUp' /\ Claims'
  BY <1>1, <1>3, <1>4, <1>5 DEF Quiet, HungUp, Claims, Moved, At
<1>9. UplinkRestored'
  BY <1>1, <1>3 DEF UplinkRestored, Moved, At, Run
<1> QED BY <1>3, <1>6, <1>7, <1>8, <1>9 DEF Moved

\* The status part of a cleanup proof lets the address be looked at only when
\* the client says it is disconnected.
LEMMA CleanStatusKeeps == ASSUME CliInv, CleanupStatus \/ ResetClean PROVE CliInv'
<1>0. run \in Run
  BY DEF CliInv, Typed
<1>1. UNCHANGED <<mem, claim, vpnVars>> /\ run.at \in {"clean", "inspect", "reset_clean"}
  BY DEF CleanupStatus, ResetClean, CleanStatus, At
<1>2. run.at \notin Early \cup {"reset_done", "network_up", "configure"}
  BY <1>1 DEF Early
<1>3. CASE CleanupStatus
  <2>1. \/ Comparable /\ client = "Disconnected" /\ run' = Goto("clean_address")
        \/ run' = run \/ run' = Advance(run)
    BY <1>3 DEF CleanupStatus, CleanStatus
  <2>2. run.at \in {"clean", "inspect"}
    BY <1>3 DEF CleanupStatus, CleanStatus, At
  <2>3. run.at \notin Resetting /\ run' = run => run' = Goto(run.at)
    BY <1>0, <2>2 DEF Resetting, ResetLabels, Goto, Run
  <2>4. {"clean", "inspect", "clean_address"}
            \subseteq Labels \ (Early \cup Resetting \cup {"reset_done"})
    BY DEF Labels, Steps, Early, Resetting, ResetLabels
  <2>5. run.at \notin {"clean_address", "reset_address"} /\ run.at \notin Resetting
    BY <2>2 DEF Resetting, ResetLabels
  <2>6. Moved
    BY <1>2, <2>1, <2>2, <2>3, <2>4, <2>5, AdvanceMoved, GotoMoved
  <2> QED BY <1>1, <2>6, MovedKeeps
<1>4. CASE ResetClean
  <2>1. /\ run.at = "reset_clean"
        /\ \/ Comparable /\ client = "Disconnected" /\ run' = Goto("reset_address")
           \/ run' = run \/ run' = Goto("reset_failed")
    BY <1>4 DEF ResetClean, CleanStatus, ResetFailed, Goto, At
  <2>2. run' = run => run' = Goto("reset_clean")
    BY <1>0, <2>1 DEF Goto, Run
  <2>3. {"reset_clean", "reset_address", "reset_failed"} \subseteq Labels \cap Resetting
        /\ {"reset_clean", "reset_address", "reset_failed"} \cap (Early \cup {"reset_done"}) = {}
    BY DEF Labels, Early, Resetting, ResetLabels
  <2>4. Moved
    BY <1>2, <2>1, <2>2, <2>3, GotoMoved
  <2> QED BY <1>1, <2>4, MovedKeeps
<1> QED BY <1>3, <1>4

\* An address that no session has had is the runner's own.
LEMMA CleanAddressKeeps == ASSUME CliInv, CleanupAddress \/ ResetAddress PROVE CliInv'
<1> USE DEF CliInv, vpnVars
<1>1. /\ run.at \in {"clean_address", "reset_address"} /\ run \in Run /\ Order
      /\ UNCHANGED <<mem, vpnVars>>
      /\ (Address \notin mem.tunneled /\ Claim("clean")) \/ UNCHANGED claim
  BY DEF CleanupAddress, ResetAddress, CleanAddress, At, Typed
<1>2. ~run.tainted /\ Address \notin mem.tunneled => egress = "clear" /\ Gone
  BY <1>1, Seen DEF Quiet, HungUp, Remembered, Comparable, Typed, Memory, Addresses, VpnTypeOK
<1>3. claim' \in Evidence /\ (claim' = claim \/ (claim'.kind = "clean" /\ claim'.via = egress))
  BY <1>1 DEF Claim, Evidence, Typed, VpnTypeOK
<1>4. run' \in Run /\ run'.tainted = run.tainted /\ run'.raised = run.raised /\ Order'
      /\ run'.at \notin Early \cup {"configure", "clean_address", "reset_address"}
      /\ (run.at \in Resetting => run'.at \in Resetting)
      /\ (run.at \notin Resetting => run'.at # "reset_done")
      /\ (run'.at = "reset_done" => Address \notin mem.tunneled)
      /\ (claim' # claim => At("clean_address") \/ run'.at = "reset_done")
  <2>1. CASE CleanupAddress
    <3>1. At("clean_address") /\ run' \in {Goto("clean"), Advance(run)} /\ run.at \notin Resetting
      BY <2>1 DEF CleanupAddress, CleanAddress, At, Resetting, ResetLabels
    <3>2. "clean" \in Labels
      BY DEF Labels, Steps
    <3>3. ~At("configure") /\ ~At("connect")
      BY <3>1 DEF At
    <3>4. run' \in Run /\ run'.tainted = run.tainted /\ run'.raised = run.raised
          /\ run'.at \in Later \cup {"clean", "reset"}
      BY <1>1, <3>1, <3>2, <3>3, GotoRun, AdvanceRun, AdvanceOrder
    <3>5. run'.at \notin Early \cup {"configure", "clean_address", "reset_address", "reset_done"}
      BY <3>4 DEF Later, Early
    <3>6. Order'
      BY <1>1, <3>1, <3>2, <3>3, <3>5, OrderKept, GotoRun
    <3> QED BY <3>1, <3>4, <3>5, <3>6
  <2>2. CASE ResetAddress
    <3>1. /\ At("reset_address") /\ run' \in {Goto("reset_clean"), Goto("reset_done"), Goto("reset_failed")}
          /\ run' = Goto("reset_done") \/ UNCHANGED claim
          /\ Address \notin mem.tunneled \/ run' \in {Goto("reset_clean"), Goto("reset_failed")}
      BY <2>2 DEF ResetAddress, CleanAddress, ResetFailed, Goto, At
    <3>2. {"reset_clean", "reset_done", "reset_failed"} \subseteq Labels \cap Resetting
          /\ {"reset_clean", "reset_done", "reset_failed"}
                \cap (Early \cup {"configure", "clean_address", "reset_address"}) = {}
      BY DEF Labels, Early, Resetting, ResetLabels
    <3>3. run' \in Run /\ run'.tainted = run.tainted /\ run'.raised = run.raised
          /\ run'.left = run.left /\ run'.at \in {"reset_clean", "reset_done", "reset_failed"}
          /\ (run'.at = "reset_done" => Address \notin mem.tunneled)
          /\ (claim' # claim => run'.at = "reset_done")
      BY <1>1, <3>1, <3>2, GotoRun
    <3>4. run.at \in Resetting /\ ~At("configure")
      BY <3>1 DEF At, Resetting, ResetLabels
    <3>5. Order'
      BY <1>1, <3>2, <3>3, <3>4, OrderKept
    <3> QED BY <3>2, <3>3, <3>4, <3>5
  <2> QED BY <2>1, <2>2
<1>5. Typed'
  BY <1>1, <1>3, <1>4 DEF Typed, VpnTypeOK
<1>6. mem.baseline # NoBaseline
  BY <1>1 DEF Remembered, Comparable
<1>7. Remembered' /\ Quiet'
  BY <1>1, <1>4, <1>6 DEF Remembered, Quiet, Gone
<1>8. HungUp'
  BY <1>1, <1>2, <1>4 DEF HungUp, Gone, At
<1>9. Claims'
  <2> SUFFICES ASSUME ~run.tainted PROVE Claims'
    BY <1>4 DEF Claims
  <2>1. CASE claim' = claim
    BY <1>1, <1>4, <2>1 DEF Claims, Gone, At
  <2>2. CASE claim' # claim
    <3>1. At("clean_address") => ~inflight
      BY DEF HungUp, At, Resetting, ResetLabels
    <3>2. Address \notin mem.tunneled
      BY <1>1, <2>2
    <3> QED BY <1>1, <1>2, <1>3, <1>4, <2>2, <3>1, <3>2 DEF Claims, Gone, At
  <2> QED BY <2>1, <2>2
<1>10. UplinkRestored'
  BY <1>1, <1>4 DEF UplinkRestored, At
<1> QED BY <1>4, <1>5, <1>7, <1>8, <1>9, <1>10

\* The network transition touches nothing but the uplink.
LEMMA NetworkKeeps == ASSUME CliInv, NetworkDown \/ NetworkUp PROVE CliInv'
<1> USE DEF CliInv
<1>1. /\ run.at \in {"network", "network_up"} /\ run \in Run /\ Order
      /\ UNCHANGED <<mem, claim, client, egress, inflight>> /\ uplink' \in BOOLEAN
      /\ \/ run' = RaiseTo(run)
         \/ run' = Goto("network_up") /\ At("network")
         \/ run' = Goto("network_check") /\ uplink'
  BY DEF NetworkDown, NetworkUp, At, Typed, VpnTypeOK
<1>2. run.at \notin Early \cup Resetting \cup {"configure"}
  BY <1>1 DEF Early, Resetting, ResetLabels
<1>3. {"network_up", "network_check"} \subseteq Labels
      /\ {"network_up", "network_check", "reset"}
            \cap (Early \cup {"configure", "clean_address", "reset_address", "reset_done"}) = {}
  BY DEF Labels, Steps, Early
<1>4. /\ run' \in Run /\ run'.tainted = run.tainted
      /\ run'.at \in {"network_up", "network_check", "reset"}
      /\ run'.left \in {run.left, <<>>}
      /\ run'.raised \/ run'.at = "network_up" \/ uplink'
  BY <1>1, <1>3, RaiseRun, GotoRun
<1>5. Order'
  BY <1>1, <1>2, <1>3, <1>4, OrderKept DEF At
<1>6. Typed'
  BY <1>1, <1>4 DEF Typed, VpnTypeOK
<1>7. Remembered'
  BY <1>1, <1>2, <1>3, <1>4 DEF Remembered
<1>8. Quiet' /\ HungUp' /\ Claims'
  BY <1>1, <1>2, <1>3, <1>4 DEF Quiet, HungUp, Claims, Gone, At, Resetting
<1>9. UplinkRestored'
  BY <1>4 DEF UplinkRestored, At
<1> QED BY <1>5, <1>6, <1>7, <1>8, <1>9

\* A lost service is down or freshly started.
LEMMA LossKeeps == ASSUME CliInv, ProcessLoss PROVE CliInv'
<1> USE DEF CliInv
<1>1. /\ run.at = "loss" /\ run \in Run /\ Order
      /\ UNCHANGED <<mem, claim, egress, uplink>> /\ inflight' = FALSE
      /\ client' \in {"down", "Disconnected"}
      /\ run' \in {Goto("loss_dial"), RaiseTo(run)}
  BY DEF ProcessLoss, At, Typed
<1>2. run.at \notin Early \cup Resetting \cup {"configure", "reset_done", "network_up"}
  BY <1>1 DEF Early, Resetting, ResetLabels
<1>3. "loss_dial" \in Labels \ (Early \cup Resetting)
      /\ "loss_dial" \notin {"clean_address", "reset_address", "reset_done", "network_up"}
  BY DEF Labels, Early, Resetting, ResetLabels
<1>4. Moved
  BY <1>1, <1>2, <1>3, RaiseMoved, GotoMoved
<1>5. run'.at \in {"loss_dial", "reset"}
  BY <1>1, <1>3, RaiseRun, GotoRun
<1>6. Typed'
  BY <1>1, <1>4 DEF Typed, VpnTypeOK, Moved
<1>7. Remembered'
  BY <1>1, <1>4, <1>5 DEF Remembered, Moved
<1>8. Quiet' /\ HungUp' /\ Claims'
  BY <1>1, <1>4, <1>5 DEF Quiet, HungUp, Claims, Gone, Moved, At
<1>9. UplinkRestored'
  BY <1>1, <1>4 DEF UplinkRestored, Moved, At
<1> QED BY <1>4, <1>6, <1>7, <1>8, <1>9 DEF Moved

\* A scenario begins with what the reset before it has left.
LEMMA BeginKeeps == ASSUME CliInv, BeginScenario PROVE CliInv'
<1> USE DEF CliInv, vpnVars
<1>1. PICK i \in (run.last + 1)..Len(Catalog) :
        run' = Advance([run EXCEPT !.left = Catalog[i], !.last = i, !.done = @ + 1])
  BY DEF BeginScenario
<1>2. /\ UNCHANGED <<mem, claim, vpnVars>> /\ run.at = "next" /\ run.done < MaxScenarios
      /\ run \in Run /\ mem = NoMemory
  BY DEF BeginScenario, At, Typed, Remembered, Early
<1>3. i \in 1..Len(Catalog) /\ i \in 0..Len(Catalog)
  BY <1>2, CatalogShaped DEF Run
<1>4. Shaped(Catalog[i])
  BY <1>3, CatalogShaped
<1>5. run.done + 1 \in 0..MaxScenarios
  BY <1>2, SessionAssumption DEF Run
<1>6. run' = [run EXCEPT !.at = "configure", !.left = Tail(Catalog[i]), !.last = i,
                         !.done = run.done + 1, !.count = 0]
  <2> DEFINE r == [run EXCEPT !.left = Catalog[i], !.last = i, !.done = @ + 1]
  <2>1. r.left = Catalog[i] /\ r.left # <<>> /\ Head(r.left) = "configure"
    BY <1>2, <1>4 DEF Run, Shaped
  <2>2. run' = [r EXCEPT !.at = "configure", !.left = Tail(Catalog[i]), !.count = 0]
    BY <1>1, <2>1 DEF Advance
  <2> QED BY <1>2, <2>2 DEF Run
<1>7. "configure" \in Labels /\ 0 \in 0..StabilitySamples
  BY SessionAssumption DEF Labels, Steps
<1>8. /\ run' \in Run /\ run'.at = "configure" /\ run'.left = Tail(Catalog[i])
      /\ run'.tainted = run.tainted /\ run'.raised = run.raised
  BY <1>2, <1>3, <1>4, <1>5, <1>6, <1>7 DEF Run, Shaped
<1>9. Order'
  BY <1>4, <1>8 DEF Order, At, Shaped
<1>10. Typed'
  BY <1>2, <1>8 DEF Typed, VpnTypeOK
<1>11. Remembered'
  BY <1>2, <1>8 DEF Remembered, Early, NoMemory
<1>12. Quiet' /\ HungUp' /\ Claims' /\ UplinkRestored'
  BY <1>2, <1>8 DEF Quiet, HungUp, Claims, UplinkRestored, Gone, At, Resetting, ResetLabels
<1> QED BY <1>9, <1>10, <1>11, <1>12

\* A reset that ends forgets a session only when it has been seen to be over
\* or when there was none.
LEMMA ForgetKeeps ==
  ASSUME CliInv, NEW failed \in BOOLEAN, Forget(failed), run.at \in Resetting,
         failed \/ At("reset_done") \/ mem.baseline = NoBaseline
  PROVE  CliInv'
<1> USE DEF CliInv, vpnVars
<1>1. /\ run \in Run /\ mem' = NoMemory /\ UNCHANGED <<claim, vpnVars>>
      /\ run' = [run EXCEPT !.at = "next", !.tainted = @ \/ failed \/ inflight]
      /\ inflight \in BOOLEAN
  BY DEF Forget, Typed, VpnTypeOK
<1>2. "next" \in Labels /\ "next" \notin Resetting
  BY DEF Labels, Resetting, ResetLabels
<1>3. /\ run' \in Run /\ run'.at = "next" /\ run'.left = run.left /\ run'.raised = run.raised
      /\ ~run'.tainted => ~run.tainted /\ ~failed /\ ~inflight
  BY <1>1, <1>2 DEF Run
<1>4. ~At("configure")
  BY DEF At, Resetting, ResetLabels
<1>5. Order'
  BY <1>1, <1>3, <1>4, OrderKept
<1>6. mem' \in Memory /\ mem'.baseline = NoBaseline /\ mem'.tunneled = {}
  BY <1>1 DEF NoMemory, Memory
<1>7. Typed'
  BY <1>1, <1>3, <1>6 DEF Typed, VpnTypeOK
<1>8. Remembered'
  BY <1>1, <1>3, <1>6 DEF Remembered, Early
<1>9. ~run'.tainted => egress = "clear" /\ Gone
  BY <1>3 DEF Quiet, HungUp, At
<1>10. Quiet' /\ HungUp'
  BY <1>1, <1>2, <1>3, <1>6, <1>9 DEF Quiet, HungUp, Gone, At
<1>11. Claims'
  BY <1>1, <1>3 DEF Claims, Gone
<1>12. UplinkRestored'
  BY <1>1, <1>3 DEF UplinkRestored, At, Resetting, ResetLabels
<1> QED BY <1>5, <1>7, <1>8, <1>10, <1>11, <1>12

\* The reset after a scenario.
LEMMA ResetKeeps ==
  ASSUME CliInv, ResetStatus \/ ResetVerify \/ ResetEnds \/ ResetFails
  PROVE  CliInv'
<1>0. {"reset_hangup", "reset_verify", "reset_clean", "reset_failed"} \subseteq Labels \cap Resetting
      /\ {"reset_hangup", "reset_verify", "reset_clean", "reset_failed"}
            \cap (Early \cup {"reset_done", "clean_address", "reset_address"}) = {}
  BY DEF Labels, Early, Resetting, ResetLabels
<1>1. CASE ResetStatus \/ ResetFails
  <2>1. /\ run.at \in ResetLabels /\ UNCHANGED <<mem, claim, vpnVars>>
        /\ run' \in {Goto("reset_hangup"), Goto("reset_verify"), Goto("reset_failed")}
    BY <1>1 DEF ResetStatus, ResetFails, ResetFailed, Goto, At, ResetLabels
  <2>2. run.at \in Resetting /\ run.at \notin Early \cup {"reset_done", "network_up"}
    BY <2>1 DEF ResetLabels, Resetting, Early
  <2>3. Moved
    BY <1>0, <2>1, <2>2, GotoMoved
  <2> QED BY <2>1, <2>3, MovedKeeps
<1>2. CASE ResetVerify
  <2>1. run.at = "reset_verify"
    BY <1>2 DEF ResetVerify, At
  <2>2. run.at \in Resetting /\ run.at \notin Early \cup {"reset_done", "network_up"}
    BY <2>1 DEF ResetLabels, Resetting, Early
  <2>3. CASE mem.baseline = NoBaseline
    <3>1. Forget(FALSE)
      BY <1>2, <2>3 DEF ResetVerify
    <3> QED BY <2>2, <2>3, <3>1, ForgetKeeps
  <2>4. CASE mem.baseline # NoBaseline
    <3>1. run' = Goto("reset_clean") /\ UNCHANGED <<mem, claim, vpnVars>>
      BY <1>2, <2>4 DEF ResetVerify
    <3>2. Moved
      BY <1>0, <2>2, <3>1, GotoMoved
    <3> QED BY <3>1, <3>2, MovedKeeps
  <2> QED BY <2>3, <2>4
<1>3. CASE ResetEnds
  <2>1. Forget(At("reset_failed")) /\ run.at \in {"reset_done", "reset_failed"}
    BY <1>3 DEF ResetEnds
  <2>2. run.at \in Resetting /\ At("reset_failed") \in BOOLEAN
    BY <2>1 DEF Resetting, At
  <2>3. At("reset_failed") \/ At("reset_done")
    BY <2>1 DEF At
  <2> QED BY <2>1, <2>2, <2>3, ForgetKeeps
<1> QED BY <1>1, <1>2, <1>3

\* The client may do what it likes: without a session it begins none but upon
\* a request, and a request that comes too late for the reset taints the lane.
LEMMA ClientKeeps == ASSUME CliInv, ClientMoves PROVE CliInv'
<1> USE DEF CliInv
<1>1. /\ VpnNext /\ UNCHANGED <<mem, claim>> /\ run \in Run
      /\ run' = [run EXCEPT !.tainted = @ \/ TooLate]
  BY DEF ClientMoves, Typed
<1>2. /\ VpnTypeOK' /\ uplink' = uplink
      /\ (inflight' => inflight)
      /\ Gone => \/ Gone' /\ (egress = "clear" => egress' = "clear")
                 \/ inflight /\ ~inflight' /\ egress' = egress
  <2> USE DEF VpnTypeOK, Gone
  <2>1. VpnTypeOK
    BY DEF Typed
  <2>2. CASE SessionEstablished
    BY <2>1, <2>2 DEF SessionEstablished
  <2>3. CASE SessionEnds
    BY <2>1, <2>3 DEF SessionEnds
  <2>4. CASE ServiceDies
    BY <2>1, <2>4 DEF ServiceDies
  <2>5. CASE RouteMoves
    BY <2>1, <2>5 DEF RouteMoves
  <2>6. CASE RequestArrives
    <3>1. inflight /\ inflight' = FALSE /\ UNCHANGED <<egress, uplink>>
      BY <2>6 DEF RequestArrives
    <3>2. client' \in {"Connecting", client}
      BY <2>6 DEF RequestArrives
    <3> QED BY <2>1, <3>1, <3>2
  <2> HIDE DEF VpnTypeOK, Gone
  <2> QED BY <1>1, <2>2, <2>3, <2>4, <2>5, <2>6 DEF VpnNext
<1>3. TooLate \in BOOLEAN
  BY DEF TooLate
<1>4. /\ run' \in Run /\ run'.at = run.at /\ run'.left = run.left /\ run'.raised = run.raised
      /\ ~run'.tainted => ~run.tainted /\ ~TooLate
  BY <1>1, <1>3 DEF Run
<1>5. Typed'
  BY <1>1, <1>2, <1>4 DEF Typed
<1>6. Order' /\ Remembered'
  BY <1>1, <1>4 DEF Order, Remembered, Comparable, At
<1>7. Quiet'
  BY <1>1, <1>2, <1>4 DEF Quiet
<1>8. HungUp'
  <2> SUFFICES ASSUME ~run'.tainted PROVE HungUp'
    BY DEF HungUp
  <2>1. At("clean_address") => ~inflight
    BY <1>4 DEF HungUp, At, Resetting, ResetLabels
  <2>2. run.at \in {"reset_address", "reset_done"} => ~(inflight /\ ~inflight')
    BY <1>4 DEF TooLate
  <2> QED BY <1>2, <1>4, <2>1, <2>2 DEF HungUp, At
<1>9. Claims'
  <2> SUFFICES ASSUME ~run'.tainted PROVE Claims'
    BY DEF Claims
  <2>1. At("reset_done") => ~(inflight /\ ~inflight')
    BY <1>4 DEF TooLate, At
  <2> QED BY <1>1, <1>2, <1>4, <2>1 DEF Claims, At
<1>10. UplinkRestored'
  BY <1>2, <1>4 DEF UplinkRestored, At
<1> QED BY <1>5, <1>6, <1>7, <1>8, <1>9, <1>10

\* The session's part of the invariant.
LEMMA CliStep == ASSUME CliInv, CliNext PROVE CliInv'
<1>1. CASE \/ Configure \/ ObserveTunnel \/ Sample \/ Throughput \/ EnduranceStatus
           \/ EnduranceTraffic \/ ReconnectStatus \/ NetworkCheck \/ LossStatus
  BY <1>1, LookingKeeps
<1>2. CASE ObserveRouting \/ EnduranceRouting \/ NetworkAddress \/ LossRouting
  BY <1>2, RoutingKeeps
<1>3. CASE ConnectProfile \/ Reconnect \/ LossDial
  BY <1>3, DialKeeps
<1>4. CASE ResetStatus \/ ResetVerify \/ ResetEnds \/ ResetFails
  BY <1>4, ResetKeeps
<1> QED BY <1>1, <1>2, <1>3, <1>4, BeginKeeps, StepFailsKeeps, BaselineKeeps, HangupKeeps,
           CleanStatusKeeps, CleanAddressKeeps, NetworkKeeps, LossKeeps, ClientKeeps
        DEF CliNext

\* The session's variables stand still while the device is used.
LEMMA CliStutter == ASSUME CliInv, UNCHANGED <<vpnVars, sessionVars>> PROVE CliInv'
BY DEF CliInv, Typed, VpnTypeOK, Order, Remembered, Comparable, Quiet, Gone, HungUp, Claims,
       UplinkRestored, At, vpnVars, sessionVars

-----------------------------------------------------------------------------
(***************************************************************************)
(* The device.                                                             *)
(***************************************************************************)

\* Files of the current scenario.
LEMMA PutFile ==
  ASSUME DeviceTyped, Dated, ~DAt("next"), NEW name \in FileNames, Put(name)
  PROVE  /\ device' \in Device /\ device'.files = device.files \cup {<<name, driver.done>>}
         /\ device'.app = device.app /\ device'.test = device.test
         /\ device'.asleep = device.asleep
         /\ \A f \in device'.files : f[2] <= driver.done
<1>1. driver.done \in 1..MaxScenarios
  BY SessionAssumption DEF DeviceTyped, Driver, Dated
<1>2. device' = [device EXCEPT !.files = device.files \cup {<<name, driver.done>>}]
  BY DEF Put
<1>3. device.files \cup {<<name, driver.done>>} \subseteq FileNames \X (1..MaxScenarios)
  BY <1>1 DEF DeviceTyped, Device
<1> QED BY <1>1, <1>2, <1>3 DEF DeviceTyped, Device, Dated

\* Until a scenario is finalized there is no result, and little to keep.
Working ==
    /\ driver.at \notin Finalization \cup {"reset", "next"}
    /\ device' \in Device /\ driver' \in Driver
    /\ driver'.done = driver.done /\ driver'.controls = driver.controls
    /\ driver'.worker = driver.worker /\ driver'.outcome = driver.outcome
    /\ driver'.raised = driver.raised /\ driver'.good = FALSE
    /\ driver'.at \notin {"next", "reset"}
    /\ driver'.at = "fetch" => driver.worker = "ended"
    /\ driver'.at \in ControlPlaces => driver.controls # <<>>
    /\ device'.asleep => driver.raised \/ driver'.at \in {"sleep", "sleeping", "wake", "diagnose"}
    /\ device'.test \in {device.test, "off"}
    /\ \A f \in device'.files : f[2] <= driver.done
    /\ driver.controls = <<>> => /\ <<"control", driver.done>> \notin device'.files
                                 /\ <<"ready", driver.done>> \notin device'.files

\* A step that only works on the scenario keeps the invariant.
LEMMA WorkingKeeps == ASSUME DeviceInv, Working PROVE DeviceInv'
<1> USE DEF DeviceInv, Working
<1>1. ~driver.good /\ driver.outcome # "passed"
  BY DEF Judged, Passed
<1>2. DeviceTyped' /\ Dated'
  BY DEF DeviceTyped, Dated, DAt
<1>3. Judged'
  BY DEF Judged, DAt
<1>4. Controlled'
  BY DEF Controlled, Has
<1>5. Removed' /\ Woke' /\ Passed'
  BY <1>1 DEF Removed, Woke, Passed, Finalization
<1> QED BY <1>2, <1>3, <1>4, <1>5

\* Where the adapter may be sent.
LEMMA ThenDriver ==
  ASSUME driver \in Driver, NEW label \in DriverPlaces, NEW good \in BOOLEAN,
         driver' = [driver EXCEPT !.at = label, !.good = good]
  PROVE  /\ driver' \in Driver /\ driver'.at = label /\ driver'.good = good
         /\ driver'.done = driver.done /\ driver'.controls = driver.controls
         /\ driver'.worker = driver.worker /\ driver'.outcome = driver.outcome
         /\ driver'.raised = driver.raised /\ driver'.broken = driver.broken
BY DEF Driver

\* The places of the scenario's work.
LEMMA WorkPlaces ==
  /\ ControlPlaces \cup Finalization \cup {"diagnose", "join", "fetch"} \subseteq DriverPlaces
  /\ ControlPlaces \cap (Finalization \cup {"next", "reset", "join", "fetch", "instrument"}) = {}
  /\ {"stage_profile", "chmod_profile", "stage_command", "chmod_command", "instrument", "join",
      "fetch", "refused"}
        \subseteq DriverPlaces \ (ControlPlaces \cup Finalization \cup {"next", "reset"})
BY DEF ControlPlaces, Finalization, Cleared, DriverPlaces

\* A step whose failure ends in the diagnostics, and that leaves the device
\* alone but for what it says of it.
LEMMA WorkStep ==
  ASSUME DeviceInv, driver.at \notin Finalization \cup {"reset", "next", "sleep", "sleeping", "wake"},
         device' \in Device, device'.files = device.files,
         device'.test \in {device.test, "off"}, device'.asleep = device.asleep,
         NEW label \in DriverPlaces \ {"next", "reset"},
         label = "fetch" => driver.worker = "ended",
         label \in ControlPlaces => driver.controls # <<>>,
         driver' \in Driver, driver'.at = label, driver'.good = FALSE,
         driver'.done = driver.done, driver'.controls = driver.controls,
         driver'.worker = driver.worker, driver'.outcome = driver.outcome,
         driver'.raised = driver.raised
  PROVE  DeviceInv'
<1>1. device'.asleep => driver.raised
  BY DEF DeviceInv, Woke
<1>2. Working
  BY <1>1 DEF DeviceInv, Working, Dated, Controlled, Has
<1> QED BY <1>2, WorkingKeeps

\* The steps that stage a file.
LEMMA StageKeeps ==
  ASSUME DeviceInv, StageProfile \/ StageCommand \/ PushControl \/ CopyControl
  PROVE  DeviceInv'
<1>0. DeviceTyped /\ Dated /\ driver \in Driver /\ device \in Device
  BY DEF DeviceInv, DeviceTyped
<1>1. PICK label \in DriverPlaces, name \in FileNames \ {"ready"}, then \in DriverPlaces \ {"next", "reset", "fetch"} :
        /\ Stage(label, name, then)
        /\ label \notin Finalization \cup {"reset", "next", "sleep", "sleeping", "wake"}
        /\ then \in ControlPlaces \/ name = "control" => label \in ControlPlaces
  <2>1. CASE StageProfile
    <3>1. "stage_profile" \in DriverPlaces /\ "profile" \in FileNames
          /\ "chmod_profile" \in DriverPlaces \ ControlPlaces
      BY WorkPlaces DEF FileNames
    <3> QED BY <2>1, <3>1, WorkPlaces DEF StageProfile
  <2>2. CASE StageCommand
    <3>1. "stage_command" \in DriverPlaces /\ "command" \in FileNames
          /\ "chmod_command" \in DriverPlaces \ ControlPlaces
      BY WorkPlaces DEF FileNames
    <3> QED BY <2>2, <3>1, WorkPlaces DEF StageCommand
  <2>3. CASE PushControl
    <3>1. {"push", "copy"} \subseteq ControlPlaces /\ "staged" \in FileNames
      BY DEF ControlPlaces, FileNames
    <3> QED BY <2>3, <3>1, WorkPlaces DEF PushControl
  <2>4. CASE CopyControl
    <3>1. {"copy", "wait_gone"} \subseteq ControlPlaces /\ "control" \in FileNames
      BY DEF ControlPlaces, FileNames
    <3> QED BY <2>4, <3>1, WorkPlaces DEF CopyControl
  <2> QED BY <2>1, <2>2, <2>3, <2>4
<1>2. /\ driver.at = label
      /\ driver' = [driver EXCEPT !.at = then] \/ driver' = [driver EXCEPT !.at = "diagnose", !.good = FALSE]
      /\ Put(name) \/ device' = device
  BY <1>1 DEF Stage, DAt, Then, Fails
<1>3. ~driver.good
  BY <1>1, <1>2 DEF DeviceInv, Judged
<1>4. driver' = [driver EXCEPT !.at = then, !.good = FALSE]
      \/ driver' = [driver EXCEPT !.at = "diagnose", !.good = FALSE]
  BY <1>0, <1>2, <1>3 DEF Driver
<1>5. "diagnose" \in DriverPlaces \ (ControlPlaces \cup {"next", "reset", "fetch"})
  BY WorkPlaces DEF Finalization
<1>6. /\ driver' \in Driver /\ driver'.at \in {then, "diagnose"} /\ driver'.good = FALSE
      /\ driver'.done = driver.done /\ driver'.controls = driver.controls
      /\ driver'.worker = driver.worker /\ driver'.outcome = driver.outcome
      /\ driver'.raised = driver.raised
  BY <1>0, <1>1, <1>4, <1>5, ThenDriver
<1>7. /\ device' \in Device /\ device'.asleep = device.asleep /\ device'.test = device.test
      /\ device'.files \in {device.files, device.files \cup {<<name, driver.done>>}}
      /\ \A f \in device'.files : f[2] <= driver.done
  BY <1>0, <1>1, <1>2, PutFile DEF Dated, DAt
<1>8. driver.controls = <<>> => label \notin ControlPlaces
  BY <1>2 DEF DeviceInv, Controlled
<1>9. driver.controls = <<>> => /\ <<"control", driver.done>> \notin device'.files
                                /\ <<"ready", driver.done>> \notin device'.files
  <2> SUFFICES ASSUME driver.controls = <<>>
               PROVE  /\ <<"control", driver.done>> \notin device'.files
                      /\ <<"ready", driver.done>> \notin device'.files
    OBVIOUS
  <2>1. name \notin {"control", "ready"}
    BY <1>1, <1>8
  <2> QED BY <1>7, <2>1 DEF DeviceInv, Controlled, Has
<1>10. device'.asleep => driver.raised
  BY <1>1, <1>2, <1>7 DEF DeviceInv, Woke
<1>11. Working
  BY <1>1, <1>2, <1>5, <1>6, <1>7, <1>8, <1>9, <1>10 DEF Working
<1> QED BY <1>11, WorkingKeeps

\* The waiting, looking and stopping steps: on to the next place, or to the
\* diagnostics.
LEMMA WaitKeeps ==
  ASSUME DeviceInv,
         \/ MakePrivate \/ WaitReady \/ SleepBegins \/ Woken \/ LossBegins \/ StopApp
         \/ ProbeAbsent \/ WaitGone \/ Join
  PROVE  DeviceInv'
<1>0. driver \in Driver /\ device \in Device /\ driver.good \in BOOLEAN
  BY DEF DeviceInv, DeviceTyped, Driver
<1>1. "diagnose" \in DriverPlaces \ (ControlPlaces \cup {"next", "reset", "fetch"})
  BY WorkPlaces DEF Finalization
<1>2. ASSUME Fails PROVE /\ driver' \in Driver /\ driver'.at = "diagnose" /\ driver'.good = FALSE
                         /\ driver'.done = driver.done /\ driver'.controls = driver.controls
                         /\ driver'.worker = driver.worker /\ driver'.outcome = driver.outcome
                         /\ driver'.raised = driver.raised
  BY <1>0, <1>1, <1>2, ThenDriver DEF Fails
<1>3. ASSUME NEW label \in DriverPlaces, Then(label), ~driver.good
      PROVE  /\ driver' \in Driver /\ driver'.at = label /\ driver'.good = FALSE
             /\ driver'.done = driver.done /\ driver'.controls = driver.controls
             /\ driver'.worker = driver.worker /\ driver'.outcome = driver.outcome
             /\ driver'.raised = driver.raised
  <2>1. driver' = [driver EXCEPT !.at = label, !.good = FALSE]
    BY <1>0, <1>3 DEF Then, Driver
  <2> QED BY <1>3, <2>1, <1>0, ThenDriver
<1>4. ASSUME driver.at \notin Finalization \cup {"reset", "next"} PROVE ~driver.good
  BY <1>4 DEF DeviceInv, Judged
<1>5. ASSUME driver.at \in ControlPlaces PROVE driver.controls # <<>>
  BY <1>5 DEF DeviceInv, Controlled
<1>6. CASE MakePrivate
  <2>1. /\ driver.at \in {"chmod_profile", "chmod_command"} /\ device' = device
        /\ Then("stage_command") \/ Then("instrument") \/ Fails
    BY <1>6 DEF MakePrivate
  <2>2. driver.at \notin Finalization \cup {"reset", "next", "sleep", "sleeping", "wake"}
    BY <2>1 DEF Finalization, Cleared
  <2>3. {"stage_command", "instrument"} \subseteq DriverPlaces \ (ControlPlaces \cup {"next", "reset", "fetch"})
    BY DEF DriverPlaces, ControlPlaces
  <2> QED BY <1>0, <1>1, <1>2, <1>3, <1>4, <2>1, <2>2, <2>3, WorkStep
<1>7. CASE WaitReady
  <2>1. driver.at = "wait_ready" /\ device' = device /\ (Then("awake") \/ Then("pid") \/ Fails)
    BY <1>7 DEF WaitReady, DAt
  <2>2. driver.at \in ControlPlaces
        /\ driver.at \notin Finalization \cup {"reset", "next", "sleep", "sleeping", "wake"}
    BY <2>1 DEF ControlPlaces, Finalization, Cleared
  <2>3. {"awake", "pid"} \subseteq DriverPlaces \ {"next", "reset", "fetch"}
    BY DEF DriverPlaces, ControlPlaces
  <2> QED BY <1>0, <1>1, <1>2, <1>3, <1>4, <1>5, <2>1, <2>2, <2>3, WorkStep
<1>8. CASE SleepBegins \/ Woken
  <2>1. /\ driver.at \in {"awake", "woken"} /\ device' = device
        /\ Then("sleep") \/ Then("push") \/ Fails
    BY <1>8 DEF SleepBegins, Woken, DAt
  <2>2. driver.at \in ControlPlaces
        /\ driver.at \notin Finalization \cup {"reset", "next", "sleep", "sleeping", "wake"}
    BY <2>1 DEF ControlPlaces, Finalization, Cleared
  <2>3. {"sleep", "push"} \subseteq DriverPlaces \ {"next", "reset", "fetch"}
    BY DEF DriverPlaces, ControlPlaces
  <2> QED BY <1>0, <1>1, <1>2, <1>3, <1>4, <1>5, <2>1, <2>2, <2>3, WorkStep
<1>9. CASE LossBegins
  <2>1. /\ driver.at = "pid" /\ device' = device
        /\ driver' = [driver EXCEPT !.at = "stop", !.absent = 0] \/ Fails
    BY <1>9 DEF LossBegins, DAt
  <2>2. driver.at \in ControlPlaces
        /\ driver.at \notin Finalization \cup {"reset", "next", "sleep", "sleeping", "wake"}
    BY <2>1 DEF ControlPlaces, Finalization, Cleared
  <2>3. "stop" \in DriverPlaces \ {"next", "reset", "fetch"}
    BY DEF DriverPlaces, ControlPlaces
  <2>4. CASE driver' = [driver EXCEPT !.at = "stop", !.absent = 0]
    <3>1. /\ driver' \in Driver /\ driver'.at = "stop" /\ driver'.good = driver.good
          /\ driver'.done = driver.done /\ driver'.controls = driver.controls
          /\ driver'.worker = driver.worker /\ driver'.outcome = driver.outcome
          /\ driver'.raised = driver.raised
      BY <1>0, <2>3, <2>4 DEF Driver
    <3> QED BY <1>0, <1>4, <1>5, <2>1, <2>2, <2>3, <3>1, WorkStep
  <2> QED BY <1>0, <1>1, <1>2, <2>1, <2>2, <2>4, WorkStep
<1>10. CASE StopApp
  <2>1. /\ driver.at = "stop"
        /\ \/ device' = device
           \/ \E test \in {device.test, "off"} : device' = [device EXCEPT !.app = FALSE, !.test = test]
        /\ Then("absent") \/ Fails
    BY <1>10 DEF StopApp, DAt
  <2>2. driver.at \in ControlPlaces
        /\ driver.at \notin Finalization \cup {"reset", "next", "sleep", "sleeping", "wake"}
    BY <2>1 DEF ControlPlaces, Finalization, Cleared
  <2>3. "absent" \in DriverPlaces \ {"next", "reset", "fetch"}
    BY DEF DriverPlaces, ControlPlaces
  <2>4. device' \in Device /\ device'.files = device.files /\ device'.asleep = device.asleep
        /\ device'.test \in {device.test, "off"}
    BY <1>0, <2>1 DEF Device
  <2> QED BY <1>0, <1>1, <1>2, <1>3, <1>4, <1>5, <2>1, <2>2, <2>3, <2>4, WorkStep
<1>11. CASE ProbeAbsent
  <2>1. /\ driver.at = "absent" /\ device' = device
        /\ \/ driver' = [driver EXCEPT !.at = "push"] \/ driver' = [driver EXCEPT !.absent = 1]
           \/ driver' = [driver EXCEPT !.absent = 0] \/ Fails
    BY <1>11 DEF ProbeAbsent, DAt
  <2>2. driver.at \in ControlPlaces
        /\ driver.at \notin Finalization \cup {"reset", "next", "sleep", "sleeping", "wake"}
    BY <2>1 DEF ControlPlaces, Finalization, Cleared
  <2>3. {"push", "absent"} \subseteq DriverPlaces \ {"next", "reset", "fetch"}
    BY DEF DriverPlaces, ControlPlaces
  <2>4. CASE ~Fails
    <3>1. /\ driver' \in Driver /\ driver'.at \in {"push", "absent"} /\ driver'.good = driver.good
          /\ driver'.done = driver.done /\ driver'.controls = driver.controls
          /\ driver'.worker = driver.worker /\ driver'.outcome = driver.outcome
          /\ driver'.raised = driver.raised
      BY <1>0, <2>1, <2>3, <2>4 DEF Driver
    <3> QED BY <1>0, <1>4, <1>5, <2>1, <2>2, <2>3, <3>1, WorkStep
  <2> QED BY <1>0, <1>1, <1>2, <2>1, <2>2, <2>4, WorkStep
<1>12. CASE WaitGone
  <2>1. driver.at = "wait_gone" /\ device' = device /\ (Then("join") \/ Fails)
    BY <1>12 DEF WaitGone, DAt, Then
  <2>2. driver.at \notin Finalization \cup {"reset", "next", "sleep", "sleeping", "wake"}
    BY <2>1 DEF Finalization, Cleared
  <2>3. "join" \in DriverPlaces \ (ControlPlaces \cup {"next", "reset", "fetch"})
    BY DEF DriverPlaces, ControlPlaces
  <2> QED BY <1>0, <1>1, <1>2, <1>3, <1>4, <2>1, <2>2, <2>3, WorkStep
<1>13. CASE Join
  <2>1. driver.at = "join" /\ device' = device /\ ((driver.worker = "ended" /\ Then("fetch")) \/ Fails)
    BY <1>13 DEF Join, DAt
  <2>2. driver.at \notin Finalization \cup {"reset", "next", "sleep", "sleeping", "wake"}
    BY <2>1 DEF Finalization, Cleared
  <2>3. "fetch" \in DriverPlaces \ (ControlPlaces \cup {"next", "reset"})
    BY DEF DriverPlaces, ControlPlaces
  <2> QED BY <1>0, <1>1, <1>2, <1>3, <1>4, <2>1, <2>2, <2>3, WorkStep
<1> QED BY <1>6, <1>7, <1>8, <1>9, <1>10, <1>11, <1>12, <1>13

\* Sleep and wake: asleep is either where the key is still to be sent, or
\* the work has failed.
LEMMA SleepKeeps == ASSUME DeviceInv, Sleep \/ Sleeping \/ Wake PROVE DeviceInv'
<1>0. driver \in Driver /\ device \in Device
  BY DEF DeviceInv, DeviceTyped
<1>1. driver.at \in {"sleep", "sleeping", "wake"}
  BY DEF Sleep, Sleeping, Wake, DAt
<1>2. driver.at \in ControlPlaces /\ driver.at \notin Finalization \cup {"reset", "next"}
  BY <1>1 DEF ControlPlaces, Finalization, Cleared
<1>3. ~driver.good /\ driver.controls # <<>>
  BY <1>2 DEF DeviceInv, Judged, Controlled
<1>4. /\ device' = device \/ (\E b \in BOOLEAN : device' = [device EXCEPT !.asleep = b])
      /\ \/ driver' = [driver EXCEPT !.at = "diagnose", !.good = FALSE]
         \/ driver' = [driver EXCEPT !.at = "sleeping"]
         \/ \E failing \in BOOLEAN : driver' = [driver EXCEPT !.at = "wake", !.failing = failing]
         \/ driver' = [driver EXCEPT !.at = "woken"] /\ device' = [device EXCEPT !.asleep = FALSE]
  BY DEF Sleep, Sleeping, Wake, Then, Fails
<1>5. {"diagnose", "sleeping", "wake", "woken"} \subseteq DriverPlaces
  BY DEF DriverPlaces, ControlPlaces, Finalization
<1>6. /\ device' \in Device /\ device'.files = device.files /\ device'.test = device.test
      /\ device'.asleep => driver'.at # "woken"
  BY <1>0, <1>4 DEF Device, Driver
<1>7. /\ driver' \in Driver /\ driver'.at \in {"diagnose", "sleeping", "wake", "woken"}
      /\ driver'.good = FALSE
      /\ driver'.done = driver.done /\ driver'.controls = driver.controls
      /\ driver'.worker = driver.worker /\ driver'.outcome = driver.outcome
      /\ driver'.raised = driver.raised
  BY <1>0, <1>3, <1>4, <1>5 DEF Driver
<1>8. Working
  BY <1>2, <1>3, <1>6, <1>7 DEF Working, DeviceInv, Dated
<1> QED BY <1>8, WorkingKeeps

\* A scenario begins: it has a number of its own, and nothing of it is known.
LEMMA BeginDevice == ASSUME DeviceInv, BeginOnDevice PROVE DeviceInv'
<1> USE DEF DeviceInv
<1>0. driver \in Driver /\ device \in Device /\ MaxScenarios \in Nat
  BY SessionAssumption DEF DeviceTyped
<1>1. PICK controls \in Controls, at \in {"stage_profile", "refused"} :
        driver' = [driver EXCEPT !.at = at, !.done = driver.done + 1, !.controls = controls,
                     !.worker = "none", !.failing = FALSE, !.good = FALSE,
                     !.broken = FALSE, !.outcome = "none"]
  BY DEF BeginOnDevice
<1>2. DAt("next") /\ driver.done < MaxScenarios /\ device' = device
  BY DEF BeginOnDevice
<1>3. driver.done \in 0..MaxScenarios
  BY <1>0 DEF Driver
<1>4. driver.done + 1 \in 0..MaxScenarios /\ driver.done + 1 > 0 /\ driver.done + 1 > driver.done
  BY <1>0, <1>2, <1>3
<1>5. at \in DriverPlaces \ (ControlPlaces \cup Finalization \cup {"next", "reset", "fetch"})
  BY WorkPlaces DEF DriverPlaces, ControlPlaces, Finalization, Cleared
<1>6. /\ driver' \in Driver /\ driver'.at = at /\ driver'.done = driver.done + 1
      /\ driver'.worker = "none" /\ driver'.good = FALSE /\ driver'.outcome = "none"
      /\ driver'.raised = driver.raised /\ driver'.controls = controls
  BY <1>0, <1>1, <1>4, <1>5 DEF Driver
<1>7. \A f \in device.files : f[2] \in 1..MaxScenarios /\ f[2] < driver.done + 1
  <2> TAKE f \in device.files
  <2>1. f[2] <= driver.done /\ f \in FileNames \X (1..MaxScenarios)
    BY <1>0 DEF Dated, Device
  <2> QED BY <1>0, <1>3, <2>1
<1>8. DeviceTyped' /\ Dated'
  <2>1. \A f \in device'.files : f[2] <= driver'.done
    <3> TAKE f \in device'.files
    <3>1. f[2] \in 1..MaxScenarios /\ f[2] < driver.done + 1
      BY <1>2, <1>7
    <3> QED BY <1>0, <1>3, <1>6, <3>1
  <2> QED BY <1>0, <1>2, <1>4, <1>6, <2>1 DEF DeviceTyped, Dated
<1>9. Judged' /\ Removed' /\ Passed'
  BY <1>5, <1>6 DEF Judged, Removed, Passed, DAt
<1>10. Woke'
  BY <1>2, <1>6 DEF Woke, DAt, Finalization, Cleared
<1>11. Controlled'
  <2>1. \A name \in {"control", "ready"} : <<name, driver.done + 1>> \notin device.files
    <3> SUFFICES ASSUME NEW name \in {"control", "ready"}, <<name, driver.done + 1>> \in device.files
                 PROVE  FALSE
      OBVIOUS
    <3>1. driver.done + 1 < driver.done + 1
      BY <1>7
    <3> QED BY <1>3, <3>1
  <2> QED BY <1>2, <1>5, <1>6, <2>1 DEF Controlled, Has
<1> QED BY <1>8, <1>9, <1>10, <1>11

\* A command that could not be written: the scenario failed before the device
\* was touched.
LEMMA RefusedKeeps == ASSUME DeviceInv, Refused PROVE DeviceInv'
<1> USE DEF DeviceInv
<1>1. /\ driver.at = "refused" /\ device' = device
      /\ driver' = [driver EXCEPT !.at = "reset", !.outcome = "failed"]
  BY DEF Refused, DAt
<1>2. driver.at \notin Finalization \cup ControlPlaces \cup {"reset", "next"}
  BY <1>1 DEF Finalization, Cleared, ControlPlaces
<1>3. "reset" \in DriverPlaces \ (Finalization \cup ControlPlaces)
  BY DEF DriverPlaces, Finalization, Cleared, ControlPlaces
<1>4. /\ driver' \in Driver /\ driver'.at = "reset" /\ driver'.outcome = "failed"
      /\ driver'.done = driver.done /\ driver'.controls = driver.controls
      /\ driver'.worker = driver.worker /\ driver'.good = driver.good
      /\ driver'.raised = driver.raised
  BY <1>1, <1>3 DEF DeviceTyped, Driver
<1>5. ~driver.good /\ (device.asleep => driver.raised)
  BY <1>1, <1>2 DEF Judged, Woke
<1>6. DeviceTyped' /\ Dated'
  BY <1>1, <1>4 DEF DeviceTyped, Dated, DAt
<1>7. Judged' /\ Controlled' /\ Removed' /\ Woke' /\ Passed'
  BY <1>1, <1>3, <1>4, <1>5 DEF Judged, Controlled, Removed, Woke, Passed, Has, DAt
<1> QED BY <1>6, <1>7

\* The instrumentation is started, and its worker waits for it.
LEMMA InstrumentKeeps == ASSUME DeviceInv, Instrument PROVE DeviceInv'
<1> USE DEF DeviceInv
<1>0. driver \in Driver /\ device \in Device /\ driver.at = "instrument"
  BY DEF DeviceTyped, Instrument, DAt
<1>1. driver.at \notin Finalization \cup ControlPlaces \cup {"reset", "next", "sleep", "sleeping", "wake"}
  BY <1>0 DEF Finalization, Cleared, ControlPlaces
<1>2. ~driver.good /\ (device.asleep => driver.raised) /\ driver.outcome # "passed" /\ driver.done # 0
  BY <1>0, <1>1 DEF Judged, Woke, Passed, Dated, DAt
<1>3. CASE device' = device /\ Fails
  <2>1. "diagnose" \in DriverPlaces \ (ControlPlaces \cup {"next", "reset", "fetch"})
    BY WorkPlaces DEF Finalization
  <2>2. /\ driver' \in Driver /\ driver'.at = "diagnose" /\ driver'.good = FALSE
        /\ driver'.done = driver.done /\ driver'.controls = driver.controls
        /\ driver'.worker = driver.worker /\ driver'.outcome = driver.outcome
        /\ driver'.raised = driver.raised
    BY <1>0, <1>3, <2>1, ThenDriver DEF Fails
  <2> QED BY <1>0, <1>1, <1>3, <2>1, <2>2, WorkStep
<1>4. CASE ~(device' = device /\ Fails)
  <2>1. /\ device' = [device EXCEPT !.app = TRUE, !.test = "running", !.verdict = "none"]
        /\ driver' = [driver EXCEPT !.worker = "running",
                        !.at = IF driver.controls = <<>> THEN "join" ELSE "wait_ready"]
    BY <1>4 DEF Instrument
  <2>2. /\ {"join", "wait_ready"} \subseteq DriverPlaces \ (Finalization \cup {"reset", "next", "fetch"})
        /\ "join" \notin ControlPlaces
    BY DEF DriverPlaces, ControlPlaces, Finalization, Cleared
  <2>3. /\ device' \in Device /\ device'.files = device.files /\ device'.asleep = device.asleep
        /\ device'.test = "running"
    BY <1>0, <2>1 DEF Device, Verdicts
  <2>4. /\ driver' \in Driver
        /\ driver'.at = IF driver.controls = <<>> THEN "join" ELSE "wait_ready"
        /\ driver'.worker = "running" /\ driver'.good = driver.good /\ driver'.done = driver.done
        /\ driver'.controls = driver.controls /\ driver'.outcome = driver.outcome
        /\ driver'.raised = driver.raised
    BY <1>0, <2>1, <2>2 DEF Driver
  <2>5. DeviceTyped' /\ Dated'
    BY <1>2, <2>3, <2>4 DEF DeviceTyped, Dated
  <2>6. Judged' /\ Controlled'
    BY <1>2, <2>2, <2>3, <2>4 DEF Judged, Controlled, Has, DAt
  <2>7. Removed' /\ Woke' /\ Passed'
    BY <1>2, <2>3, <2>4 DEF Removed, Woke, Passed
  <2> QED BY <2>5, <2>6, <2>7
<1> QED BY <1>3, <1>4 DEF Instrument

\* While a test runs there is no result, whatever it writes.
LEMMA TestKeeps ==
  ASSUME DeviceInv, TestAsks \/ TestTakes \/ TestEnds \/ AppRestarts PROVE DeviceInv'
<1> USE DEF DeviceInv
<1>1. device.test = "running" /\ driver' = driver
  BY DEF TestAsks, TestTakes, TestEnds, AppRestarts
<1>2. /\ driver.worker # "ended" /\ ~driver.good /\ ~DAt("fetch") /\ driver.outcome # "passed"
      /\ driver.done # 0
  BY <1>1 DEF Judged, Passed, Dated
<1>3. driver.done \in 1..MaxScenarios /\ device \in Device
  BY <1>2, SessionAssumption DEF DeviceTyped, Driver
<1>4. /\ device' \in Device /\ device'.asleep = device.asleep
      /\ \/ device'.files \subseteq device.files \cup {<<"output", driver.done>>}
         \/ /\ driver.controls # <<>>
            /\ device'.files = device.files \cup {<<"ready", driver.done>>}
  <2>1. CASE TestAsks
    <3>1. device' = [device EXCEPT !.files = device.files \cup {<<"ready", driver.done>>}]
      BY <2>1 DEF TestAsks, Put
    <3>2. device.files \cup {<<"ready", driver.done>>} \subseteq FileNames \X (1..MaxScenarios)
      BY <1>3 DEF Device, FileNames
    <3>3. /\ device' \in Device /\ device'.asleep = device.asleep
          /\ device'.files = device.files \cup {<<"ready", driver.done>>}
      BY <1>3, <3>1, <3>2 DEF Device
    <3> QED BY <2>1, <3>3 DEF TestAsks
  <2>2. CASE TestTakes
    <3>1. device' = [device EXCEPT !.files = device.files \ {<<"ready", driver.done>>}]
      BY <2>2 DEF TestTakes
    <3>2. device.files \ {<<"ready", driver.done>>} \subseteq FileNames \X (1..MaxScenarios)
      BY <1>3 DEF Device
    <3>3. /\ device' \in Device /\ device'.asleep = device.asleep
          /\ device'.files = device.files \ {<<"ready", driver.done>>}
      BY <1>3, <3>1, <3>2 DEF Device
    <3> QED BY <3>3
  <2>3. CASE TestEnds
    <3>1. PICK verdict \in Verdicts, files \in {device.files, device.files \cup {<<"output", driver.done>>}} :
            device' = [device EXCEPT !.test = "off", !.verdict = verdict, !.files = files]
      BY <2>3 DEF TestEnds
    <3>2. files \subseteq FileNames \X (1..MaxScenarios)
      BY <1>3 DEF Device, FileNames
    <3>3. device' \in Device /\ device'.asleep = device.asleep /\ device'.files = files
      BY <1>3, <3>1, <3>2 DEF Device
    <3> QED BY <3>1, <3>3
  <2>4. CASE AppRestarts
    <3>1. device' = [device EXCEPT !.app = TRUE]
      BY <2>4 DEF AppRestarts
    <3> QED BY <1>3, <3>1 DEF Device
  <2> QED BY <2>1, <2>2, <2>3, <2>4
<1>5. \A f \in device'.files : f[2] <= driver.done
  BY <1>3, <1>4 DEF Dated
<1>6. driver.controls = <<>> => /\ <<"control", driver.done>> \notin device'.files
                                /\ <<"ready", driver.done>> \notin device'.files
  BY <1>4 DEF Controlled, Has
<1>7. DeviceTyped' /\ Dated' /\ Judged' /\ Controlled'
  BY <1>1, <1>2, <1>4, <1>5, <1>6 DEF DeviceTyped, Dated, Judged, Controlled, Has, DAt
<1>8. Removed' /\ Woke' /\ Passed'
  BY <1>1, <1>2, <1>4 DEF Removed, Woke, Passed
<1> QED BY <1>7, <1>8

\* The worker's wait ends with the instrumentation, or fails.
LEMMA WorkerKeeps == ASSUME DeviceInv, WorkerEnds PROVE DeviceInv'
<1> USE DEF DeviceInv
<1>1. /\ driver.worker = "running" /\ device' = device
      /\ \/ device.test = "off" /\ driver' = [driver EXCEPT !.worker = "ended"]
         \/ driver' = [driver EXCEPT !.worker = "failed"]
  BY DEF WorkerEnds
<1>2. /\ driver' \in Driver /\ driver'.at = driver.at /\ driver'.good = driver.good
      /\ driver'.done = driver.done /\ driver'.controls = driver.controls
      /\ driver'.outcome = driver.outcome /\ driver'.raised = driver.raised
      /\ driver'.broken = driver.broken
      /\ driver'.worker = "ended" => device.test = "off"
  BY <1>1 DEF DeviceTyped, Driver
<1>3. ~driver.good /\ ~DAt("fetch")
  BY <1>1 DEF Judged
<1>4. DeviceTyped' /\ Dated' /\ Judged' /\ Controlled'
  BY <1>1, <1>2, <1>3 DEF DeviceTyped, Dated, Judged, Controlled, Has, DAt
<1>5. Removed' /\ Woke' /\ Passed'
  BY <1>1, <1>2, <1>3 DEF Removed, Woke, Passed, Has
<1> QED BY <1>4, <1>5

\* The result is read once the worker has ended.
LEMMA FetchKeeps == ASSUME DeviceInv, Fetch PROVE DeviceInv'
<1> USE DEF DeviceInv
<1>1. /\ driver.at = "fetch" /\ device' = device
      /\ \E good \in BOOLEAN : driver' = [driver EXCEPT !.at = "diagnose", !.good = good]
  BY DEF Fetch, Fails, DAt
<1>2. driver.at \notin Finalization \cup {"reset", "next", "sleep", "sleeping", "wake"}
  BY <1>1 DEF Finalization, Cleared
<1>3. "diagnose" \in DriverPlaces /\ "diagnose" \notin ControlPlaces \cup Cleared
  BY DEF DriverPlaces, ControlPlaces, Finalization, Cleared
<1>4. PICK good \in BOOLEAN :
        /\ driver' \in Driver /\ driver'.at = "diagnose" /\ driver'.good = good
        /\ driver'.done = driver.done /\ driver'.controls = driver.controls
        /\ driver'.worker = driver.worker /\ driver'.outcome = driver.outcome
        /\ driver'.raised = driver.raised
  BY <1>1, <1>3, ThenDriver DEF DeviceTyped
<1>5. driver.worker = "ended" /\ (device.asleep => driver.raised) /\ driver.outcome # "passed"
  BY <1>1, <1>2 DEF Judged, Woke, Passed, DAt
<1>6. DeviceTyped' /\ Dated' /\ Judged' /\ Controlled'
  BY <1>1, <1>3, <1>4, <1>5 DEF DeviceTyped, Dated, Judged, Controlled, Has, DAt, Finalization
<1>7. Removed' /\ Woke' /\ Passed'
  BY <1>1, <1>3, <1>4, <1>5 DEF Removed, Woke, Passed, Has, DAt, Cleared
<1> QED BY <1>6, <1>7

\* What a command of the finalization may do to the device.
Removes ==
    /\ device' \in Device /\ device'.files \subseteq device.files
    /\ device'.asleep = device.asleep /\ device'.test \in {device.test, "off"}
    /\ device'.app \in {device.app, FALSE}

\* What it does to the adapter.
Finalizes(label) ==
    /\ driver' \in Driver /\ driver'.at = label /\ driver'.good = driver.good
    /\ driver'.done = driver.done /\ driver'.controls = driver.controls
    /\ driver'.worker = driver.worker /\ driver'.outcome = driver.outcome
    /\ driver'.raised = driver.raised

\* A step within the finalization keeps the invariant, if what it removes is
\* gone or is reported.
LEMMA FinalizationKeeps ==
  ASSUME DeviceInv, driver.at \in Finalization, NEW label \in Finalization,
         Removes, Finalizes(label), Removed'
  PROVE  DeviceInv'
<1> USE DEF DeviceInv, Removes, Finalizes
<1>1. label \notin ControlPlaces \cup {"fetch", "next", "reset"}
  BY DEF ControlPlaces, Finalization, Cleared
<1>2. driver.outcome # "passed" /\ ~DAt("next")
  BY DEF Passed, DAt, Finalization, Cleared
<1>3. device'.asleep => driver.raised \/ ~driver.good
  BY DEF Woke, Finalization, Cleared
<1>4. DeviceTyped' /\ Dated' /\ Judged' /\ Controlled'
  BY <1>1, <1>2 DEF DeviceTyped, Dated, Judged, Controlled, Has, DAt
<1>5. Woke' /\ Passed'
  BY <1>2, <1>3 DEF Woke, Passed
<1> QED BY <1>4, <1>5

\* The places of the finalization.
LEMMA FinalPlaces ==
  /\ Finalization = {"diagnose", "remove", "remove_staged", "force_stop", "survivors", "finish"}
  /\ Cleared = {"remove_staged", "force_stop", "survivors", "finish"}
  /\ Finalization \subseteq DriverPlaces
BY DEF Finalization, Cleared, DriverPlaces

\* A command of the finalization either had its effect or is reported.
LEMMA TryStep ==
  ASSUME DeviceTyped, NEW label, NEW then \in DriverPlaces, NEW effect \in Device,
         Try(label, then, effect)
  PROVE  /\ Finalizes(then) /\ driver.at = label
         /\ \/ device' = effect /\ driver'.broken = driver.broken
            \/ device' \in {effect, device} /\ driver'.broken = TRUE
BY DEF Try, DAt, DeviceTyped, Driver, Finalizes

\* The steps of the finalization, one after the other.
LEMMA FinalKeeps ==
  ASSUME DeviceInv, Diagnose \/ RemoveFiles \/ RemoveStaged \/ ForceStop \/ Survivors
  PROVE  DeviceInv'
<1>0. driver \in Driver /\ device \in Device /\ DeviceTyped /\ Removed /\ Controlled
      /\ driver.good \in BOOLEAN /\ driver.broken \in BOOLEAN
  BY DEF DeviceInv, DeviceTyped, Driver
<1>1. CASE Diagnose
  <2>1. driver.at = "diagnose" /\ device' = device
        /\ \E broken \in BOOLEAN : driver' = [driver EXCEPT !.at = "remove", !.broken = broken]
    BY <1>1 DEF Diagnose, DAt
  <2>2. Finalizes("remove") /\ Removes
    BY <1>0, <2>1, FinalPlaces DEF Finalizes, Removes, Driver
  <2>3. Removed'
    BY <2>2, FinalPlaces DEF Removed, Finalizes, DAt
  <2> QED BY <2>1, <2>2, <2>3, FinalPlaces, FinalizationKeeps
<1>2. CASE RemoveFiles
  <2> DEFINE Names == {"profile", "command", "output"} \cup ControlFiles
             Files == device.files \ (Names \X {driver.done})
  <2>1. Without(Names) = [device EXCEPT !.files = Files]
    BY DEF Without
  <2>2. Without(Names) \in Device /\ Without(Names).files = Files
        /\ Without(Names).asleep = device.asleep /\ Without(Names).test = device.test
        /\ Without(Names).app = device.app
    BY <1>0, <2>1 DEF Device
  <2>3. "remove_staged" \in DriverPlaces
    BY FinalPlaces
  <2>4. /\ Finalizes("remove_staged") /\ driver.at = "remove"
        /\ \/ device' = Without(Names) /\ driver'.broken = driver.broken
           \/ device' \in {Without(Names), device} /\ driver'.broken = TRUE
    <3>1. Try("remove", "remove_staged", Without(Names))
      BY <1>2 DEF RemoveFiles
    <3> QED BY <1>0, <2>2, <2>3, <3>1, TryStep
  <2>5. Removes
    BY <1>0, <2>2, <2>4 DEF Removes
  <2>6. ASSUME NEW name \in FileNames \ {"staged"} PROVE <<name, driver.done>> \notin Files
    <3>1. CASE name \in Names
      BY <3>1
    <3>2. CASE name \notin Names
      <4>1. name \in {"control", "ready"} /\ driver.controls = <<>>
        BY <3>2 DEF FileNames, ControlFiles
      <4>2. <<name, driver.done>> \notin device.files
        BY <1>0, <4>1 DEF Controlled, Has
      <4> QED BY <4>2
    <3> QED BY <3>1, <3>2
  <2>7. Removed'
    <3> SUFFICES ASSUME driver'.good, ~driver'.broken PROVE Removed'
      BY DEF Removed
    <3>1. device'.files = Files /\ driver'.done = driver.done /\ driver'.at = "remove_staged"
      BY <2>2, <2>4 DEF Finalizes
    <3> HIDE DEF Files
    <3> QED BY <2>6, <3>1 DEF Removed, Has, DAt
  <2> QED BY <2>4, <2>5, <2>7, FinalPlaces, FinalizationKeeps
<1>3. CASE RemoveStaged
  <2> DEFINE Files == device.files \ ({"staged"} \X {driver.done})
  <2>1. Without({"staged"}) = [device EXCEPT !.files = Files]
    BY DEF Without
  <2>2. /\ Without({"staged"}) \in Device /\ Without({"staged"}).files = Files
        /\ Without({"staged"}).asleep = device.asleep /\ Without({"staged"}).test = device.test
        /\ Without({"staged"}).app = device.app
    BY <1>0, <2>1 DEF Device
  <2>3. "force_stop" \in DriverPlaces
    BY FinalPlaces
  <2>4. /\ Finalizes("force_stop") /\ driver.at = "remove_staged"
        /\ \/ device' = Without({"staged"}) /\ driver'.broken = driver.broken
           \/ device' \in {Without({"staged"}), device} /\ driver'.broken = TRUE
    <3>1. Try("remove_staged", "force_stop", Without({"staged"}))
      BY <1>3 DEF RemoveStaged
    <3> QED BY <1>0, <2>2, <2>3, <3>1, TryStep
  <2>5. Removes
    BY <1>0, <2>2, <2>4 DEF Removes
  <2>6. <<"staged", driver.done>> \notin Files /\ Files \subseteq device.files
    OBVIOUS
  <2>7. Removed'
    <3> SUFFICES ASSUME driver'.good, ~driver'.broken PROVE Removed'
      BY DEF Removed
    <3>1. /\ device'.files = Files /\ driver'.done = driver.done /\ driver'.at = "force_stop"
          /\ driver.good /\ ~driver.broken
      BY <2>2, <2>4 DEF Finalizes
    <3>2. \A name \in FileNames \ {"staged"} : <<name, driver.done>> \notin device.files
      BY <1>0, <2>4, <3>1, FinalPlaces DEF Removed, Has
    <3> HIDE DEF Files
    <3> QED BY <2>6, <3>1, <3>2 DEF Removed, Has, DAt
  <2> QED BY <2>4, <2>5, <2>7, FinalPlaces, FinalizationKeeps
<1>4. CASE ForceStop
  <2>1. Stopped \in Device /\ Stopped.files = device.files /\ Stopped.asleep = device.asleep
        /\ Stopped.test = "off" /\ Stopped.app = FALSE
    BY <1>0 DEF Device, Stopped
  <2>2. "survivors" \in DriverPlaces
    BY FinalPlaces
  <2>3. /\ Finalizes("survivors") /\ driver.at = "force_stop"
        /\ \/ device' = Stopped /\ driver'.broken = driver.broken
           \/ device' \in {Stopped, device} /\ driver'.broken = TRUE
    <3>1. Try("force_stop", "survivors", Stopped)
      BY <1>4 DEF ForceStop
    <3> QED BY <1>0, <2>1, <2>2, <3>1, TryStep
  <2>4. Removes
    BY <1>0, <2>1, <2>3 DEF Removes
  <2>5. Removed'
    <3> SUFFICES ASSUME driver'.good, ~driver'.broken PROVE Removed'
      BY DEF Removed
    <3>1. /\ device'.files = device.files /\ driver'.done = driver.done /\ driver'.at = "survivors"
          /\ driver.good /\ ~driver.broken
      BY <2>1, <2>3 DEF Finalizes
    <3> QED BY <1>0, <2>3, <3>1, FinalPlaces DEF Removed, Has, DAt
  <2> QED BY <2>3, <2>4, <2>5, FinalPlaces, FinalizationKeeps
<1>5. CASE Survivors
  <2>1. /\ driver.at = "survivors" /\ device' = device
        /\ \E broken \in BOOLEAN :
              /\ device.app => broken
              /\ driver' = [driver EXCEPT !.at = "finish", !.broken = driver.broken \/ broken]
    BY <1>5 DEF Survivors, DAt
  <2>2. Finalizes("finish") /\ Removes /\ (~driver'.broken => ~driver.broken /\ ~device.app)
    BY <1>0, <2>1, FinalPlaces DEF Finalizes, Removes, Driver
  <2>3. Removed'
    BY <1>0, <2>1, <2>2, FinalPlaces DEF Removed, Finalizes, Has, DAt
  <2> QED BY <2>1, <2>2, <2>3, FinalPlaces, FinalizationKeeps
<1> QED BY <1>1, <1>2, <1>3, <1>4, <1>5

\* A scenario passes if its result was good and its finalization complete.
LEMMA FinishKeeps == ASSUME DeviceInv, Finish PROVE DeviceInv'
<1> USE DEF DeviceInv
<1> DEFINE passed == driver.good /\ ~driver.broken
<1>0. driver \in Driver /\ driver.good \in BOOLEAN /\ driver.broken \in BOOLEAN
  BY DEF DeviceTyped, Driver
<1>1. /\ driver.at = "finish" /\ device' = device
      /\ driver' = [driver EXCEPT !.at = "reset", !.raised = driver.raised \/ ~passed,
                      !.outcome = IF passed THEN "passed" ELSE "failed"]
  BY DEF Finish, DAt
<1>2. "reset" \in DriverPlaces \ (Finalization \cup ControlPlaces \cup {"fetch", "next"})
  BY DEF DriverPlaces, Finalization, Cleared, ControlPlaces
<1>3. /\ driver' \in Driver /\ driver'.at = "reset" /\ driver'.good = driver.good
      /\ driver'.raised = (driver.raised \/ ~passed)
      /\ driver'.outcome = "passed" => passed
      /\ driver'.done = driver.done /\ driver'.controls = driver.controls
      /\ driver'.worker = driver.worker
  BY <1>0, <1>1, <1>2 DEF Driver
<1>4. device.asleep => driver.raised \/ ~passed
  BY <1>1 DEF Woke
<1>5. DeviceTyped' /\ Dated' /\ Judged' /\ Controlled'
  BY <1>1, <1>2, <1>3 DEF DeviceTyped, Dated, Judged, Controlled, Has, DAt
<1>6. Removed' /\ Woke'
  <2>1. driver'.at \notin Cleared /\ ~DAt("finish")'
    BY <1>2, <1>3, FinalPlaces DEF DAt
  <2>2. Removed'
    BY <2>1, FinalPlaces DEF Removed
  <2>3. device.asleep => driver'.raised
    BY <1>3, <1>4
  <2> QED BY <1>1, <2>2, <2>3 DEF Woke
<1>7. Passed'
  <2> SUFFICES ASSUME driver'.outcome = "passed" PROVE Passed'
    BY DEF Passed
  <2>1. driver.good /\ ~driver.broken
    BY <1>3
  <2>2. device.test = "off" /\ ~device.app /\ \A name \in FileNames : ~Has(name)
    BY <1>1, <2>1, FinalPlaces DEF Judged, Removed, DAt
  <2> QED BY <1>1, <1>3, <2>2 DEF Passed, Has
<1> QED BY <1>5, <1>6, <1>7

\* The reset between two scenarios.
LEMMA ResetDeviceKeeps == ASSUME DeviceInv, ResetDevice PROVE DeviceInv'
<1> USE DEF DeviceInv
<1>1. /\ driver.at = "reset" /\ driver' = [driver EXCEPT !.at = "next"]
      /\ device' \in {device, [device EXCEPT !.app = FALSE, !.test = "off"]}
  BY DEF ResetDevice, Stopped, Then, DAt
<1>2. /\ device' \in Device /\ device'.files = device.files /\ device'.asleep = device.asleep
      /\ device'.test \in {device.test, "off"} /\ device'.app \in {device.app, FALSE}
  BY <1>1 DEF DeviceTyped, Device
<1>3. "next" \in DriverPlaces \ (Finalization \cup ControlPlaces \cup {"fetch"})
      /\ "reset" \notin Finalization \cup {"sleep", "sleeping", "wake"}
  BY DEF DriverPlaces, Finalization, Cleared, ControlPlaces
<1>4. /\ driver' \in Driver /\ driver'.at = "next" /\ driver'.good = driver.good
      /\ driver'.done = driver.done /\ driver'.controls = driver.controls
      /\ driver'.worker = driver.worker /\ driver'.outcome = driver.outcome
      /\ driver'.raised = driver.raised /\ driver.done # 0
  BY <1>1, <1>3 DEF DeviceTyped, Driver, Dated, DAt
<1>5. DeviceTyped' /\ Dated' /\ Judged' /\ Controlled'
  BY <1>2, <1>3, <1>4 DEF DeviceTyped, Dated, Judged, Controlled, Has, DAt
<1>6. Removed' /\ Woke'
  <2>1. driver'.at \notin Cleared /\ ~DAt("finish")'
    BY <1>3, <1>4, FinalPlaces DEF DAt
  <2>2. Removed'
    BY <2>1, FinalPlaces DEF Removed
  <2>3. device.asleep => driver.raised
    BY <1>1, <1>3 DEF Woke
  <2> QED BY <1>2, <1>4, <2>2, <2>3 DEF Woke
<1>7. Passed'
  BY <1>1, <1>2, <1>4 DEF Passed, Has
<1> QED BY <1>5, <1>6, <1>7

\* The device's part of the invariant.
LEMMA DeviceStep == ASSUME DeviceInv, AndroidNext PROVE DeviceInv'
<1>1. CASE StageProfile \/ StageCommand \/ PushControl \/ CopyControl
  BY <1>1, StageKeeps
<1>2. CASE \/ MakePrivate \/ WaitReady \/ SleepBegins \/ Woken \/ LossBegins \/ StopApp
           \/ ProbeAbsent \/ WaitGone \/ Join
  BY <1>2, WaitKeeps
<1>3. CASE Sleep \/ Sleeping \/ Wake
  BY <1>3, SleepKeeps
<1>4. CASE TestAsks \/ TestTakes \/ TestEnds \/ AppRestarts
  BY <1>4, TestKeeps
<1>5. CASE Diagnose \/ RemoveFiles \/ RemoveStaged \/ ForceStop \/ Survivors
  BY <1>5, FinalKeeps
<1> QED BY <1>1, <1>2, <1>3, <1>4, <1>5, BeginDevice, RefusedKeeps, InstrumentKeeps, WorkerKeeps,
           FetchKeeps, FinishKeeps, ResetDeviceKeeps DEF AndroidNext

\* The device's variables stand still while the command line is used.
LEMMA DeviceStutter == ASSUME DeviceInv, UNCHANGED androidVars PROVE DeviceInv'
BY DEF DeviceInv, DeviceTyped, Dated, Judged, Controlled, Removed, Woke, Passed, Has, DAt,
       androidVars

-----------------------------------------------------------------------------
(***************************************************************************)
(* The lane.                                                               *)
(***************************************************************************)

\* A lane begins with nothing done.
LEMMA InitHolds == ASSUME Init PROVE IInv
<1>1. MaxScenarios \in Nat /\ StabilitySamples \in Nat
  BY SessionAssumption
<1>2. CliInv
  <2>1. /\ run = [at |-> "next", left |-> <<>>, last |-> 0, done |-> 0, count |-> 0,
                  tainted |-> FALSE, raised |-> FALSE]
        /\ mem = NoMemory /\ claim = [kind |-> "none", via |-> "clear"]
        /\ client = "Disconnected" /\ egress = "clear" /\ uplink = TRUE /\ inflight = FALSE
    BY DEF Init, VpnInit, SessionInit, NoClaim
  <2>2. "next" \in Labels /\ "next" \in Early /\ "next" \notin Resetting
    BY DEF Labels, Early, Resetting, ResetLabels
  <2>3. 0 \in 0..Len(Catalog)
    BY DEF Catalog, CommonConnect
  <2>4. run \in Run
    BY <1>1, <2>1, <2>2, <2>3 DEF Run
  <2>5. Typed
    BY <2>1, <2>4 DEF Typed, VpnTypeOK, Memory, Evidence, NoMemory
  <2>6. Order
    BY <2>1 DEF Order, At
  <2>7. Remembered
    BY <2>1, <2>2 DEF Remembered, NoMemory
  <2>8. Quiet /\ HungUp /\ Claims /\ UplinkRestored
    BY <2>1, <2>2 DEF Quiet, HungUp, Claims, UplinkRestored, NoMemory, Gone, At
  <2> QED BY <2>5, <2>6, <2>7, <2>8 DEF CliInv
<1>3. DeviceInv
  <2>1. /\ driver.at = "next" /\ driver.done = 0 /\ device.files = {} /\ device.test = "off"
        /\ driver.good = FALSE /\ driver.worker = "none" /\ driver.outcome = "none"
        /\ device.asleep = FALSE /\ driver.controls = <<>>
    BY DEF Init, AndroidInit
  <2>2. "next" \in DriverPlaces \ (ControlPlaces \cup {"fetch"})
    BY DEF DriverPlaces, ControlPlaces
  <2>3. DeviceTyped
    BY <1>1, <2>2 DEF DeviceTyped, Device, Driver, Init, AndroidInit, Verdicts, Controls
  <2>4. Dated /\ Judged /\ Controlled /\ Removed /\ Woke /\ Passed
    BY <2>1, <2>2 DEF Dated, Judged, Controlled, Removed, Woke, Passed, Has, DAt
  <2> QED BY <2>3, <2>4 DEF DeviceInv
<1> QED BY <1>2, <1>3 DEF IInv, Init

\* Every step of a lane belongs to one of the adapters.
LEMMA StepHolds == ASSUME IInv, [Next]_vars PROVE IInv'
<1>1. CASE Next
  <2>1. adapter' = adapter
    BY <1>1 DEF Next
  <2>2. CASE CliNext /\ UNCHANGED androidVars
    BY <2>1, <2>2, CliStep, DeviceStutter DEF IInv
  <2>3. CASE AndroidNext /\ UNCHANGED <<vpnVars, sessionVars>>
    BY <2>1, <2>3, DeviceStep, CliStutter DEF IInv
  <2> QED BY <1>1, <2>2, <2>3 DEF Next
<1>2. CASE UNCHANGED vars
  <2>1. adapter' = adapter /\ UNCHANGED <<vpnVars, sessionVars>> /\ UNCHANGED androidVars
    BY <1>2 DEF vars
  <2> QED BY <2>1, CliStutter, DeviceStutter DEF IInv
<1> QED BY <1>1, <1>2

\* The invariant holds in every state of a lane, for any number of scenarios
\* and any number of stability samples.
THEOREM Invariance == Spec => []IInv
<1>1. Init => IInv
  BY InitHolds
<1>2. IInv /\ [Next]_vars => IInv'
  BY StepHolds
<1> QED BY <1>1, <1>2, PTL DEF Spec

\* Every variable of both adapters keeps its type.
THEOREM TypeCorrect == Spec => []TypeOK
<1>1. IInv => TypeOK
  <2> SUFFICES ASSUME IInv PROVE TypeOK
    OBVIOUS
  <2>1. Typed /\ DeviceTyped /\ adapter \in Adapters
    BY DEF IInv, CliInv, DeviceInv
  <2>2. SessionTypeOK
    BY <2>1 DEF Typed, Run, Memory, Evidence, SessionTypeOK
  <2>3. AndroidTypeOK
    BY <2>1 DEF DeviceTyped, Device, Driver, AndroidTypeOK
  <2> QED BY <2>1, <2>2, <2>3 DEF TypeOK
<1> QED BY <1>1, Invariance, PTL

\* In a lane whose resets have all succeeded, with no given-up request left to
\* be answered after one of them, what HostedCLIAdapter reports as a changed
\* routing identity was seen through the tunnel: the baseline of a
\* scenario is never the tunnel's own address, and a session that ended or
\* leaked is never taken for one that works.
THEOREM EvidenceThroughTunnel == Spec => []RoutingEvidenceIsTunnel
<1>1. IInv => RoutingEvidenceIsTunnel
  BY DEF IInv, CliInv, Claims, RoutingEvidenceIsTunnel
<1> QED BY <1>1, Invariance, PTL

\* In such a lane a cleanup that was verified leaves nobody behind a tunnel
\* until the next connect.
THEOREM CleanupSeen == Spec => []CleanEvidenceIsClear
<1>1. IInv => CleanEvidenceIsClear
  BY DEF IInv, CliInv, Claims, Gone, CleanEvidenceIsClear
<1> QED BY <1>1, Invariance, PTL

\* The network transition leaves the uplink down, and the sleep of a device
\* leaves it asleep, only in scenarios that fail.
THEOREM NothingLeftDown == Spec => []RestoredOrReported
<1>1. IInv => RestoredOrReported
  BY DEF IInv, CliInv, DeviceInv, UplinkRestored, Woke, RestoredOrReported
<1> QED BY <1>1, Invariance, PTL

\* A scenario passes on the device only after its finalization has removed
\* every file of it, stopped the app, and seen its test end.
THEOREM PassedIsClean == Spec => []PassedLeavesNothing
<1>1. IInv => PassedLeavesNothing
  BY DEF IInv, DeviceInv, Passed, PassedLeavesNothing
<1> QED BY <1>1, Invariance, PTL
=============================================================================

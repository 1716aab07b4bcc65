--------------------------- MODULE AndroidSession ---------------------------
(***************************************************************************)
(* AndroidHostedAdapter of hosted/android.py: one scenario is one run of   *)
(* the product's instrumentation on the device, with files staged through  *)
(* adb, external controls done by the adapter while a worker thread waits  *)
(* for the instrumentation, and a finalization that runs whatever failed.  *)
(*                                                                         *)
(* Every adb command is bounded by what is left of the work, diagnostics   *)
(* or cleanup deadline and may fail, with or without having worked.        *)
(***************************************************************************)
EXTENDS CliSession

VARIABLES
    device,     \* files by name and scenario, the app, the display
    driver      \* the adapter

androidVars == <<device, driver>>

\* The external operations of the catalogue that the device supports.
Controls == { <<>>, <<"sleep_wake">>, <<"process_loss">> }

AndroidInit ==
    /\ device = [files |-> {}, app |-> FALSE, test |-> "off", verdict |-> "none", asleep |-> FALSE]
    /\ driver = [at |-> "next", done |-> 0, controls |-> <<>>, worker |-> "none", failing |-> FALSE,
                 good |-> FALSE, broken |-> FALSE, absent |-> 0, outcome |-> "none", raised |-> FALSE]

DAt(label) == driver.at = label
Then(label) == driver' = [driver EXCEPT !.at = label]
Has(name) == <<name, driver.done>> \in device.files
Put(name) == device' = [device EXCEPT !.files = @ \cup {<<name, driver.done>>}]
Fails == driver' = [driver EXCEPT !.at = "diagnose", !.good = FALSE]

\* _write_command and the deadlines precede the try block: their failure
\* leaves the device alone.
BeginOnDevice ==
    /\ DAt("next") /\ driver.done < MaxScenarios
    /\ \E controls \in Controls :
          \E at \in {"stage_profile", "refused"} :
             driver' = [driver EXCEPT !.at = at, !.done = @ + 1, !.controls = controls,
                          !.worker = "none", !.failing = FALSE, !.good = FALSE,
                          !.broken = FALSE, !.outcome = "none"]
    /\ UNCHANGED device

Refused ==
    /\ DAt("refused")
    /\ driver' = [driver EXCEPT !.at = "reset", !.outcome = "failed"]
    /\ UNCHANGED device

\* A payload is streamed into a file of the app, then made private.
Stage(label, name, then) ==
    /\ DAt(label)
    /\ \/ Put(name) /\ (Then(then) \/ Fails)
       \/ UNCHANGED device /\ Fails

StageProfile == Stage("stage_profile", "profile", "chmod_profile")
StageCommand == Stage("stage_command", "command", "chmod_command")

MakePrivate ==
    /\ driver.at \in {"chmod_profile", "chmod_command"}
    /\ Then(IF DAt("chmod_profile") THEN "stage_command" ELSE "instrument") \/ Fails
    /\ UNCHANGED device

\* am instrument -w: in this thread, or in a worker if there are controls.
Instrument ==
    /\ DAt("instrument")
    /\ \/ /\ device' = [device EXCEPT !.app = TRUE, !.test = "running", !.verdict = "none"]
          /\ driver' = [driver EXCEPT !.worker = "running",
                          !.at = IF driver.controls = <<>> THEN "join" ELSE "wait_ready"]
       \/ UNCHANGED device /\ Fails

-----------------------------------------------------------------------------
\* The instrumentation on the device, and the adb command that waits for it.

\* It asks for an external operation and waits for its token.
TestAsks ==
    /\ device.test = "running" /\ driver.controls # <<>> /\ ~Has("ready") /\ ~Has("control")
    /\ Put("ready")
    /\ UNCHANGED driver

TestTakes ==
    /\ device.test = "running" /\ Has("ready") /\ Has("control")
    /\ device' = [device EXCEPT !.files = @ \ {<<"ready", driver.done>>}]
    /\ UNCHANGED driver

\* What the adapter makes of the output file: observations, the product's
\* error code, or a document it rejects; or there is no file.
Verdicts == {"good", "error", "invalid", "none"}

\* It writes its observation and ends, or ends without one.
TestEnds ==
    /\ device.test = "running"
    /\ \E verdict \in Verdicts :
          device' = [device EXCEPT !.test = "off", !.verdict = verdict,
                       !.files = IF verdict = "none" THEN @ ELSE @ \cup {<<"output", driver.done>>}]
    /\ UNCHANGED driver

\* A process of the app is there again while its test runs.
AppRestarts ==
    /\ device.test = "running" /\ ~device.app
    /\ device' = [device EXCEPT !.app = TRUE]
    /\ UNCHANGED driver

WorkerEnds ==
    /\ driver.worker = "running"
    /\ \/ device.test = "off" /\ driver' = [driver EXCEPT !.worker = "ended"]
       \/ driver' = [driver EXCEPT !.worker = "failed"]
    /\ UNCHANGED device

-----------------------------------------------------------------------------
\* External controls, one after the other.

WaitReady ==
    /\ DAt("wait_ready")
    /\ \/ Has("ready") /\ Then(IF Head(driver.controls) = "sleep_wake" THEN "awake" ELSE "pid")
       \/ Fails
    /\ UNCHANGED device

\* Sleep: the key, the sleeping display and the VPN beneath it.
SleepBegins ==
    /\ DAt("awake")
    /\ \/ ~device.asleep /\ Then("sleep")
       \/ Fails
    /\ UNCHANGED device

Sleep ==
    /\ DAt("sleep")
    /\ \/ device' = [device EXCEPT !.asleep = TRUE] /\ (Then("sleeping") \/ Fails)
       \/ UNCHANGED device /\ Fails

Sleeping ==
    /\ DAt("sleeping")
    /\ \E failing \in BOOLEAN :
          /\ device.asleep \/ failing
          /\ driver' = [driver EXCEPT !.at = "wake", !.failing = failing]
    /\ UNCHANGED device

\* The key that wakes the device is sent even if it was not seen asleep.
Wake ==
    /\ DAt("wake")
    /\ \/ device' = [device EXCEPT !.asleep = FALSE] /\ (Then("woken") \/ Fails)
       \/ UNCHANGED device /\ Fails

Woken ==
    /\ DAt("woken")
    /\ \/ ~device.asleep /\ ~driver.failing /\ Then("push")
       \/ Fails
    /\ UNCHANGED device

\* Process loss: a process is there, it is stopped, and two probes in a row
\* find none.
LossBegins ==
    /\ DAt("pid")
    /\ \/ device.app /\ driver' = [driver EXCEPT !.at = "stop", !.absent = 0]
       \/ Fails
    /\ UNCHANGED device

StopApp ==
    /\ DAt("stop")
    /\ \/ /\ device' \in {[device EXCEPT !.app = FALSE, !.test = test] : test \in {device.test, "off"}}
          /\ (Then("absent") \/ Fails)
       \/ UNCHANGED device /\ Fails

ProbeAbsent ==
    /\ DAt("absent")
    /\ \/ /\ ~device.app
          /\ driver' = IF driver.absent = 1 THEN [driver EXCEPT !.at = "push"]
                       ELSE [driver EXCEPT !.absent = 1]
       \/ device.app /\ driver' = [driver EXCEPT !.absent = 0]
       \/ Fails
    /\ UNCHANGED device

\* The token goes to the device and into the app's files.
PushControl == Stage("push", "staged", "copy")
CopyControl == Stage("copy", "control", "wait_gone")

WaitGone ==
    /\ DAt("wait_gone")
    /\ \/ ~Has("ready") /\ driver' = [driver EXCEPT !.at = "join"]
       \/ Fails
    /\ UNCHANGED device

\* The instrumentation's own result, then its observation.
Join ==
    /\ DAt("join")
    /\ \/ driver.worker = "ended" /\ Then("fetch")
       \/ Fails
    /\ UNCHANGED device

Fetch ==
    /\ DAt("fetch")
    /\ \/ Has("output") /\ driver' = [driver EXCEPT !.at = "diagnose",
                                        !.good = device.verdict = "good"]
       \/ Fails
    /\ UNCHANGED device

-----------------------------------------------------------------------------
\* Finalization: every command is tried, whatever the one before it did.

Diagnose ==
    /\ DAt("diagnose")
    /\ \E broken \in BOOLEAN :
          driver' = [driver EXCEPT !.at = "remove", !.broken = broken]
    /\ UNCHANGED device

Try(label, then, effect) ==
    /\ DAt(label)
    /\ \/ device' = effect /\ driver' = [driver EXCEPT !.at = then]
       \/ device' \in {effect, device} /\ driver' = [driver EXCEPT !.at = then, !.broken = TRUE]

Without(names) == [device EXCEPT !.files = @ \ (names \X {driver.done})]
\* Mutant of ControlFiles: the active controls are forgotten before the cleanup.
NoControlFiles == {}

ControlFiles == IF driver.controls = <<>> THEN {} ELSE {"control", "ready"}

RemoveFiles == Try("remove", "remove_staged", Without({"profile", "command", "output"} \cup ControlFiles))
RemoveStaged == Try("remove_staged", "force_stop", Without({"staged"}))
Stopped == [device EXCEPT !.app = FALSE, !.test = "off"]
ForceStop == Try("force_stop", "survivors", Stopped)

\* pidof has to come back empty.
Survivors ==
    /\ DAt("survivors")
    /\ \E broken \in BOOLEAN :
          /\ device.app => broken
          /\ driver' = [driver EXCEPT !.at = "finish", !.broken = @ \/ broken]
    /\ UNCHANGED device

Finish ==
    /\ DAt("finish")
    /\ LET passed == driver.good /\ ~driver.broken
       IN  driver' = [driver EXCEPT !.at = "reset", !.raised = @ \/ ~passed,
                        !.outcome = IF passed THEN "passed" ELSE "failed"]
    /\ UNCHANGED device

ResetDevice ==
    /\ DAt("reset")
    /\ device' \in {device, Stopped}
    /\ Then("next")

AndroidNext ==
    \/ BeginOnDevice \/ Refused \/ StageProfile \/ StageCommand \/ MakePrivate \/ Instrument
    \/ TestAsks \/ TestTakes \/ TestEnds \/ AppRestarts \/ WorkerEnds
    \/ WaitReady \/ SleepBegins \/ Sleep \/ Sleeping \/ Wake \/ Woken
    \/ LossBegins \/ StopApp \/ ProbeAbsent \/ PushControl \/ CopyControl \/ WaitGone
    \/ Join \/ Fetch
    \/ Diagnose \/ RemoveFiles \/ RemoveStaged \/ ForceStop \/ Survivors \/ Finish
    \/ ResetDevice

FileNames == {"profile", "command", "output", "control", "ready", "staged"}

AndroidTypeOK ==
    /\ device.files \subseteq FileNames \X (1..MaxScenarios)
    /\ device.test \in {"off", "running"}
    /\ device.verdict \in Verdicts
    /\ {device.app, device.asleep, driver.good, driver.broken, driver.raised} \subseteq BOOLEAN
    /\ driver.done \in 0..MaxScenarios /\ driver.controls \in Controls
    /\ driver.worker \in {"none", "running", "ended", "failed"}
    /\ driver.outcome \in {"none", "passed", "failed"}
=============================================================================

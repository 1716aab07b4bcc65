# Torturer in TLA+

Torturer is the black-box verification harness of the DobbyVPN client.  A GitHub
workflow leases a disposable Outline server and an upload sink from the Render
API, hands an encrypted profile to a client lane, the lane drives the packaged
client through canonical scenarios and publishes a result document, and the
lease is deleted whatever happened before.

This directory specifies the parts of that system whose correctness depends on
the order of steps: which of them may be cut short, repeated, answered late or
overtaken.  Modules are translated from the Python, Go and workflow sources;
`PROJECT.json` maps every definition to its lines.

## 1. The system

| Component | State it keeps | Operations | What makes it correct |
|---|---|---|---|
| Render lease (`torturer_provider/lease.py`) | `journal.json`, append-only records per role; in memory the state, handle and readiness of two `RenderLease`s | `acquire`, `mark_issued`, `cleanup`, of a lease and of the bundle | every service that exists can be found from the journal; nothing is deleted before the journal says so |
| Lease commands (`lease_cli.py`) | `lease.json`, `journal.json` | `acquire`, `begin-testing`, `cleanup` (branches: active lease, recorded absence, journal only) | a cleanup that says "absent" is right; a cleanup can be repeated from any state a crash leaves |
| Render client and reaper (`render.py`, `reaper_cli.py`) | the provider's account | create (never retried), delete, exists, list, `reap_tagged`, `assert_tagged_absent` | only the run's own namespace is deleted, and never more services than the journal cannot identify |
| Server-lease workflow (`server-lease.yml`) | deadlines, the lease directory, the completion marker | acquire, publish, begin testing, wait for the marker, delete, remove plaintext | the lease outlives the lane it serves; cleanup fits its reserve |
| Functional workflows (`functional*.yml`) | request, encrypted handoff, marker artifacts | request a lease, run the lane, publish the marker | the marker comes after the last use of the lease and before its deletion |
| Functional engine (`torturer_contract/functional`) | one scenario's observations | run one scenario, evaluate assertions, finalize evidence | a pass means: executed, asserted, cleaned up, within the bound |
| Hosted run (`torturer_checks/hosted/run.py`) | results, reset failures, the lane clock | scenarios in order, reset, finalize the adapter, write the result, exit code | every scenario is reset, the adapter is finalized once, exit 0 means complete coverage |
| Process containment (`hosted/cli.py`, `linux_subreaper.py`, `windows_job.py`, `deadline.py`) | processes, pipes, deadlines | bounded execution, kill, reap, forward progress | no descendant survives unreported |
| Platform adapters: service controllers (`hosted/{linux,windows,macos}.py`, base in `hosted/cli.py`) | PID, identities, the sidecar, the PID file, on Windows the job | construct, prove an identity, process loss and restart, finalize | only the proved process is signalled; a clean finalization left nothing; the sidecar never misleads the cleanup |
| Platform adapters: sessions (`HostedCLIAdapter`, `AndroidHostedAdapter`) | baseline and tunnel addresses, device files, the instrumentation thread | the steps of a scenario, network transition, process loss, external controls, reset | evidence is about the tunnel it names; host and device are restored |
| Cleanup after a lane (`functional*.yml`, `finalize_windows_service.py`, `macos_route.py`) | the sidecar, the route baseline | stop the service, restore the route | what is reported as stopped or restored is |
| Contract checks, requests, workflow policy | none | validate files and documents | sequential |
| Upload sink (`server/upload_sink/main.go`) | request slots | count and discard a bounded body | bounded memory and connections |

How they interact: `server-lease.yml` runs the lease commands one at a time, each
under the deadline wrapper `hosted/deadline.py`, which kills the command's process
tree.  The commands share only `journal.json`, `lease.json` and the Render
account, so a crash leaves exactly these.  The functional workflows talk to the
lease workflow through artifacts (request, encrypted profile, completion marker).
Inside a lane, `hosted/run.py` calls the engine, the engine calls the adapter and,
to collect evidence, calls back into `run.py`, where the reset happens; adapters
run every command through the containment of `hosted/cli.py`.  The workflow launches the
service before the lane and stops it after the lane; the two know of each other only
through the identity sidecar, which the lane rewrites when it restarts the service.

What is hard: a create whose answer is lost or accepted late; kills between a
provider effect and its record; a deletion that took effect and is reported as
failed; a deleted service that is shown again; memory that runs ahead of the disk
when a write fails; handlers that clean up twice; deadlines that must nest; PIDs that
change hands between a proof and a signal; process trees that grow and come apart while
they are being stopped; a product that goes on between any two commands of a test.
`PROJECT.json` lists these hazards one by one, each at its line.

## 2. The modules

| Module | What it models |
|---|---|
| `RenderAccount` | the provider: live services, undecided creates, services shown again, the namespace filter `_tagged_record` |
| `LeaseState` | disk (`journal`, `lease`), the running command (`cmd`, `view`), journal appends and `lease.json` writes with their failures |
| `LeaseAcquire` | `lease_cli acquire`: both leases, the handoff, issuing, and all unwinding of `lease.py` |
| `LeaseCleanup` | `lease_cli cleanup` (three branches), `begin-testing`, exact-id deletion and reaping |
| `ServerLease` | the workflow: which command may start, kills, the provider on its own; the properties and the inductive invariant |
| `LeasePromise` | what a lease promises, without commands, files and retries |
| `MCServerLease` | instances for TLC and the documented call budget |
| `ServerLeaseProofs` | proofs of type correctness, of the inductive invariant and of three properties |
| `LeaseRecordsProofs` | proofs of a second invariant, over what the records say of each other, of four properties, and that the lease implements `LeasePromise` |
| `HostedRun` | one hosted lane: `hosted/run.py` with the functional engine inside it; its properties and inductive invariant |
| `MCHostedRun` | its instance for TLC |
| `HostedRunProofs` | proofs of its inductive invariant and of its eight properties |
| `ProcessTree` | the kernel's part of containment: parents, zombies, adoption, process groups, SIGKILL |
| `Subreaper` | `linux_subreaper.py`, the supervisor of one command, and its properties |
| `CommandRun` | `SubprocessRunner.run` on Linux around that supervisor, and its properties |
| `MCSubreaper`, `MCCommandRun` | their instances for TLC |
| `CommandRunProofs` | proofs of both invariants, of eight properties and of the refinement between them |
| `ServiceHost` | the machine under the service: process table with zombies, groups, parents and reused PIDs; sidecar, PID file, default route (a missing one and a tunnel are one value: both are restored) |
| `ServiceControl` | what the three service controllers share: construction, identity proofs, process loss, restart, finalization, and where an exception leads |
| `LinuxService`, `MacService` | stopping a replacement's tree on Linux and macOS |
| `WindowsJob` | `windows_job.py`: create suspended, assign, resume, terminate, prove empty, close |
| `WindowsService` | the Windows controller: the external service by identity, the replacement by its job |
| `ServiceCleanup` | the workflow's cleanup after the lane, and `macos_route.py` |
| `ServiceLifecycle`, `MCServiceLifecycle` | the composition, its properties, and its instance |
| `ServiceProofs` | proofs of its inductive invariant and of four properties |
| `SignalProofs` | proof of `OnlyProvenSignalled`, with a second inductive invariant on top |
| `GoneProofs` | proofs of `CleanMeansGone` and `CleanupMeansGone`, with a third on top of both |
| `VpnClient` | the product: session, egress, uplink, a request that arrives late |
| `CliSession` | `HostedCLIAdapter`: catalogue, steps, evidence and reset, with the network transition and process loss of `linux.py` |
| `AndroidSession` | `AndroidHostedAdapter`: staging, instrumentation with external controls, cleanup and reset |
| `HostedSession`, `MCHostedSession` | the adapter `factory.py` selects, its properties, and its instance |
| `HostedSessionProofs` | proofs of an inductive invariant for each adapter and of five properties |

The lease modules extend each other in the order of the table, so that the
command in progress is one record, `cmd`: its mode (which command, and for
cleanup which branch), the next statement with an effect (`at`), the role the
statement is about and who called it (`level`: `RenderLease`, `RenderLeaseBundle`,
the bundle's final proof or the command).  `view` is the command's memory: the
`RenderLease` objects of acquire or the `last_records` snapshot of cleanup, which
the code does not refresh while it appends.  One action is one provider operation
or one durable write with everything the code computes around it; a kill may
happen between any two of them.  Roles are visited in the order of the code:
outline first, sink first when the bundle unwinds.

Abstractions: service names are reduced to "in the run's namespace" (a leftover of
an earlier lease of the same run id, `Stale`, or this run's) or not (`Foreign`).
Retries within one API operation are part of the operation: it succeeds, fails, or
takes effect and fails.  The readiness wait ends either way.  Validation of
arguments happens before the first effect and only decides whether a command
starts.  `begin-testing` on a lease that is testing already changes nothing and is
left out; so is the schema-1 single-service lease.

The provider is external.  It answers a create or lets it hang; with `LateCreates`
it may accept a create whose client is gone; with `MaxResurfaced` it may show a
deleted service again, which lease.py calls "stale provider state" and
`_reverify_recorded_absence` repairs.

### The hosted run

`HostedRun` follows the call structure of the code as the control variable `at`:
`main` runs the preflight, `_run_scenarios` starts a scenario, the engine executes
its steps, calls the evidence provider of `run.py` (where the reset happens and the
references are frozen) and reports; then `main` finalizes, writes and returns.
`sc` is the scenario in progress: the engine's start time, step, verdict and whether
it reports from inside its `try` block, and the provider's `reset_called`,
`reset_error` and `before`.  `adapter` is the history of what the adapter was asked
to do.  `flag` holds `finalization_attempted` and four facts only the properties
read.

The clock `now` advances in the operations of the adapter, in the preflight and in
the write.  An operation takes anything up to its timeout; up to `MaxOverruns`
operations take longer (a kill that does not return, a suspended machine).  Step
timeouts add up to at most the scenario's bound, as `ScenarioDefinition` demands.
Whatever can raise is a disjunct: the adapter, the evidence metadata, the result's
validation, the progress markers, the write before and after the link.

Abstractions: an operation's observations are reduced to whether the assertions hold
of them; an evidence record to its position in the sink, and every command leaves
one.  The reason codes of the allowlist are left out: a scenario the adapter cannot
run always has the adapter's own reason, and one that reports unavailability in
spite of declared capabilities fails the comparison of declared and observed
scenarios already.  Only schema 2 is modelled, which is what `main` uses.

### Process containment

`CommandRun` extends `Subreaper`, which extends `ProcessTree`: runner, supervisor and
command run concurrently over one process tree.  Each of the two programs has its next
statement as a variable, `at` and `sup`; a statement is what lies between two looks at,
or effects on, the tree.  The command is whatever forks, detaches (`setsid`), exits and
collects; the supervisor may be killed by anybody.

Processes are numbered in the order of creation, so a number is what the code calls an
identity, a pid with its start time.  SIGKILL marks a process "doomed"; it ends at some
time later, or never if it hangs in the kernel.  A parent that ends hands its children
to the supervisor, or to init once the supervisor is gone or has not become a
subreaper.

`known` are the processes in the records of monitor and census.  A census walks `/proc`
while the tree moves, so what it meets is any set of living processes; only the census
before a kill, taken over a supervisor that still has its `/proc` entry or has certified
itself, is sure to hold the whole tree.  `moved` are recorded processes that have
changed their process group since: `_identity_live` compares the group and no longer
takes them for the recorded process.  Every probe may fail, which the code turns into
"unknown".

The supervisor's records travel through the control pipe in order; a pipe that breaks
loses the rest.  `PipeVerdict` is the table of `_consume_subreaper_status`.  The
evidence of a command is a counter, `sink`.

Abstractions: output is left out, so that `communicate` returns at some time after the
supervisor has ended; a pipe that is kept open beyond that only makes it return later
or time out.  `clock` has the two deadlines of a command, work and total.  The
deadlines of the cleanup in between show as probes that fail.  The children file of
`/proc` exists (a kernel without it would let the bounded supervisor report an empty
tree).  Windows and macOS are not part of this module; the detached launch and the
Windows job are in the next one.

### The service of a lane

One chain of modules, because the three controllers share their base class and, after
the lane, the workflow continues over the same machine.  `platform` is chosen once; an
action that only one platform has begins with that.  `ctl` is the controller: `at` is
its next command, `ret` where an identity proof returns to, `op` what it was asked to do
(which decides where an exception ends, `Raise`).  `init` and `repl` are
`_initial_identity` and `_replacement_identity`; `known`, `todo` and `owned` the local
variables of the stop procedures.

One action is one command that is run (a `ps`, a `/proc` read, a signal, a PowerShell
script), with everything the Python around it computes; the machine moves between any
two of them.  `CommandFails` lets every command that only looks fail, time out or find
the deadline passed, and every signal fail or take no effect.  A signal records whom it
could hit (`harmed`); the process it hits ends later, as processes do, or never.

A process number is an identity, a PID with its start time; `pid` is the number proper
and is handed out again once nothing in the table carries it.  `born` are the processes
created since the controller last read an identity, which is what separates "hit in the
gap no program can close" from "hit for want of a proof".  A parent's death cuts the link
to its children on POSIX; on Windows they keep the dead parent's number, so that
`ChildrenOfPid` also finds children of an earlier holder.

On Linux the executable and the start time are read by two commands, so the identity
that is committed for a new replacement can be that of a process which has taken its
number in between (`VerifyExecutable`, `VerifyIdentity`); later proofs then fail, and so
does the cleanup.

On macOS `_terminate` takes a census and then probes every process it lists, and every
other it knows, by a command each.  `listed` and `rest` are the probes still to come,
`owned` whether the census found the group to be descendants only, `obs` the last survivor,
`todo` the survivors to kill one by one.  Nothing is expected of a number that is probed for
the first time, so whoever holds it by then becomes known; `taken` remembers those that are
not the ones the census listed.  Two similar pairs of looks are one step, because a stranger
cannot get through between them.  `_tracked_tree` of `linux.py` reads `/proc/<pid>/stat` after
its census, and refuses a process whose parent is not the one the census found, and a root that
is not the committed one (`linux.py:387-396`).  The Windows snapshot is one script, and what it
lists is only ever checked for absence: the one process stopped by number is the service, whose
identity the stopping script compares itself.

`LaneEnds` is the end or the kill of the lane's process: its handles close, and with the
last handle of a kill-on-close job its members die.  `ServiceCleanup` starts there, with
nothing but the sidecar.  `after` are its outcomes; `blind` notes that a probe of
`functional.yml` failed, which that script takes for an absent process.

Abstractions: polling loops end at any poll; readiness of the control socket is one
command; the evidence files of a restart are left out, but for the order in which the
Windows controller needs them.

### The session

`CliSession` walks through the steps of a scenario as the catalogue lists them (`run`),
over a product (`VpnClient`) that may connect, drop, change routes or die between any two
commands.  `claim` is the last evidence an adapter reported, with the egress it was taken
from: that is what the properties compare.  A command that is killed for its timeout may
have taken effect, or may yet (`inflight`).  `mem` is what `HostedCLIAdapter` remembers:
the baseline address and the addresses it has seen behind the tunnel.

`AndroidSession` has two threads and a device: the adapter, the instrumentation worker
and the test it runs.  `device` holds the files, the power state, the app and the test;
`driver` the adapter.  The external controls (sleep, process loss) are a handshake of
files between adapter and test, and either side may give up at any point of it.

The product is external; it may do anything a VPN client does, leaks included.  One thing
is assumed of it: it does not leave `Disconnected` by itself, only upon a request.

## 3. What is checked

| Run | Instance | Question |
|---|---|---|
| `lease_safety` | two own ids, one leftover, one foreign service; 3 faults, 2 cleanups, 2 resurfacings, late creates, disk faults | eight invariants below; about 171,000 states |
| `lease_promise` | two own ids, one foreign; 2 faults, 3 cleanups | refinement of `LeasePromise`; about 8,000 states |
| `lease_cleanup` | two own ids, one foreign; 3 faults, 2 resurfacings, late creates, disk faults, one cleanup | `EventuallyGone`; about 29,600 states |
| `lease_call_budget` | as `lease_safety` with one fault | the documented eight API calls: violated, see section 6 |
| `hosted_run` | two scenarios, one of which the platform may lack; full and partial selection; one overrun | eight invariants below; about 1,217,000 states |
| `hosted_finalization` | as `hosted_run` | the finalizer always runs before the process exits: violated, see section 6 |
| `supervisor` | a command, a child and a grandchild; both modes | four properties below; about 142,000 states |
| `command_run` | a command and a child | five invariants below, and the runner implements `SupervisorSpec`; about 3,713,000 states |
| `command_certificate` | a command and a child | a recorded process stays tracked when it changes its group: violated, see section 6 |
| `service` | three platforms; service, replacement, one descendant, one stranger that may take any of their numbers | seven invariants below; about 2,326,000 states |
| `service_captured` | Linux | every captured process is dead after a clean finalization: violated, see section 6 |
| `session` | two scenarios in a row of nine, two samples of a stability measurement; both adapters | five invariants below; about 470,000 states |

Of the lease:


* `Recoverable`: a live service of the run is named by its role's record or its
  role has a record without an id, and a create can only be outstanding for a
  role that is declared in the journal.
* `VerifiedAbsence`: after a cleanup reported "absent", everything in the
  namespace appeared after the command's last look at it.
* `RefusalIsHarmless`: "no lease journal exists" and a refused journal both mean
  that no create was ever sent.
* `ReapWithinJournal`, `OwnServicesNeverRefused`: the reap selects at most as many
  services as the journal cannot identify, and this bound never excludes the run's
  own services, so a refusal always is about somebody else's.
* `ForeignUntouched`: services of other runs survive.
* `NineCalls`: a cleanup spends at most nine API operations.
* `ImplementsPromise`: per role, the account and the journal only move as
  `LeasePromise` allows: declared, one service, closing declared before it is taken
  away, closed only when gone, absence claimed only for the whole bundle.
* `EventuallyGone`: after one cleanup that nothing disturbs, the services are gone for
  good, but for what the provider shows again afterwards, and whatever was killed, failed,
  accepted late or shown again before it.  `BelievedAbsent` is the one state from which
  this cleanup fails (section 6).

Of the hosted run:

* `ResetOnce`: a scenario is reset at most once, although the engine may ask the
  evidence provider twice, and every kept result belongs to a scenario that was
  reset, unless the lane was over.
* `EvidenceComplete`: a result refers to all records of its scenario, those of the
  reset included, and to no other.
* `PassedInTime`: a pass stayed within the scenario's bound, reset included.
* `QualifiedIsComplete`: a document with the reviewed coverage, and exit code 0, mean
  that every scenario was run, reset and passed, but for the platform's limitations,
  and that the adapter is finalized; exit code 0 also that the lane was kept.
* `InTimeIfBounded`: if no operation overruns, a scenario that was started never runs
  into the lane deadline.
* `FinalizationReserved`: after a scenario the finalizer has all its time left, even
  if the scenario overran.
* `FinalizedOnce`: the finalizer is called at most once, and skipped only when the
  lane was over or the finalization-start marker could not be written.

Of process containment:

* `NoneEscapes`: as long as the supervisor lives, no process of the command loses its
  place in the tree, whoever dies in whatever order.
* `CompleteMeansReaped`: a supervisor that reports completion, and nothing it could not
  contain, has outlived every process of the command.
* `BoundedSupervisorLeaves`: in the bounded mode it does not wait for survivors, not
  even for those that SIGKILL does not remove.
* `CleanMeansEmpty`: a command whose result is returned has left no process behind,
  although censuses miss daemons and detached processes: the supervisor's records and
  the tree's status together leave no gap.
* `SurvivorFailsTheCommand`: once the bounded supervisor has found a survivor, the
  command fails, whatever its exit status.
* `GoneCoversTheKnown`: "gone", also of a timeout and also when it was proved before the
  status was collected, means that no process of the group and no recorded process that
  kept its group is alive, then and ever after.
* `OneRecord`: one evidence record for each verdict, also when retaining the first one
  failed and the handler for output errors retains again.
* `SupervisorSpec`: the runner never does to the supervisor what its specification, over
  which its own properties are checked and proved, does not allow.

Of the service:

* `OnlyProvenSignalled`: whatever is signalled, by controller or cleanup, is the process
  whose identity was read before, or one that took over its number after that reading.  On
  macOS there is one exception, `Adopted`: a process that took over the number of a listed
  process before its first probe (section 6).
* `SidecarIsCurrent`: the sidecar never names the predecessor once a successor exists,
  at whatever point of the restart the lane is killed.
* `CleanMeansGone`: a finalization after a restart that reports success left no service
  alive; on Windows nobody of the job, on macOS nobody of the service's group.
* `NeverUncontained`: on Windows a replacement never runs outside an open kill-on-close
  job, whichever call of the setup fails or is late.
* `CleanupMeansGone`: a cleanup that reports success left no service running, whatever
  the lane did and wherever it was killed.
* `RouteStaysRestored`: a restored default route is not taken away again.

Of the session:

* `RoutingEvidenceIsTunnel`: as long as the lane is not `tainted`, a changed routing
  identity was seen through the tunnel: no session survives into the next baseline.  Two
  things taint a lane: a reset that failed, and a connect request whose client was given
  up and which is still unanswered when the reset has had its last look (section 6).
* `CleanEvidenceIsClear`: as long as the lane is not `tainted`, a verified cleanup means a
  disconnected client and traffic in the clear, until the next connect.
* `RestoredOrReported`: an interface that was taken down and a device that was put to
  sleep are restored, or the scenario has not passed.
* `PassedLeavesNothing`: a scenario passes on the device only with the profile, the
  command, the result and all files of its controls removed and app and test stopped.

With a child and a grandchild an orphan can leave an orphan when it is killed, which is
what the loop of the bounded mode is for.  The runner multiplies the states of the
supervisor; a command and a child are the smallest tree with something to miss, to
detach and to move, and the proofs hold for any number.

`SupervisorFairSpec` asks that the supervisor takes its steps (it never blocks in the
bounded mode) and that its one second passes.  Nothing is assumed about the command, or
about SIGKILL taking effect.  The runner's properties are safety properties.  The
`supervisor` run ends when all processes are gone, hence no deadlock check there; the
runner's model stutters on its verdict, so that a deadlock of runner and supervisor
before it would be found.

One descendant is enough to be missed by a census, to leave the group, to be orphaned and
to outlive its root; a second one takes the `service` run beyond five minutes.  The
stranger may get the number of the service, of the replacement, of the descendant and of
the launcher's group.  The catalogue has the process loss once, so there is one
replacement.  Two scenarios in a row are what a session needs to poison the next
baseline; the pairs include every two of the catalogue in its order.  Both runs end with
the lane and its cleanup, hence no deadlock check, and all their properties are safety
properties: no fairness is assumed.

The two scenarios of `hosted_run` differ in the number of steps; the step timeouts of
the first add up to its bound exactly, so the reset alone can push it over.  The lane
(9) is two more than the worst case of a full selection (7) and one more than the
platform minimum (8), so that a preflight of up to 3 makes the reservation fail before
the first or the second scenario, or not at all.  The run stops when `main` returns,
hence no deadlock check.  It needs no fairness: every property is a safety property,
and `main` is sequential.

Bounds of the lease.  Two own ids are all a lease can get, since each role posts once; one
leftover and one foreign service are enough to be confused with one unidentified
service.  Three faults allow a failure in acquire, one in each of two cleanups, or
three in one command.  Two cleanups reach every branch, since the branch depends
only on what the previous command left on disk.  Two resurfacings let both
services come back, which is the worst case of the call budget.  The two own ids are
interchangeable, hence the symmetry in the safety runs; the liveness run and the
refinement use none.

Fairness.  `CleanupSpec` asks that a running command goes on and returns (a process that
is scheduled; a stuck one is killed, which is a fault), that Render decides every create,
and that a cleanup starts while fewer than `MaxCleanups` have.  `lease_cleanup` has
`MaxCleanups = 1`, so that this is the one `if: always()` step of `server-lease.yml` and
nothing is assumed to repeat it.  A cleanup that is itself killed or meets a fault can of
course fail, and with the provider changing under it its look at the namespace is of the
past; `Undisturbed` says that neither happens to this one.  Acquire and begin-testing before
it are not restricted: they meet the three faults, late creates and resurfaced services.
Nothing is assumed about begin-testing or about acquire reaching its end.

`lease_promise` runs without disk faults, late creates and resurfacing: with a late
create a service appears for a role that is closing; a resurfaced one contradicts
"closed"; and when the append of "deleting" raises, `RenderLease._transition` has
already moved the memory (`lease.py:328-332`), so the second cleanup round deletes
without the record.  `lease_safety` has all three.

## 4. What is proved

TLAPS checks the following for any finite or infinite set of service ids and any
values of the bounds that satisfy the named assumptions (`AccountAssumption`,
`FaultsAssumption`, `CleanupsAssumption`).  Of the services that exist before the lease
there are finitely many, as in every account: the code counts what it lists.

* `TypeCorrect`: `Spec => []TypeOK` (`ServerLeaseProofs`), one lemma per operator
  that builds a command record and one step per action.
* `Invariance`: `Spec => []IInv` (`ServerLeaseProofs`).  `IInv` is needed because
  none of the properties is inductive.  Its parts: `Ledger` (the journal, the view
  and lease.json name nothing but the service the provider created for the role,
  and no create is ahead of the journal), `Control` (which command may be at which
  place), `OneCreate` (a role posts once, after it was declared), `ProofHolds` (after
  the final list of a cleanup the namespace holds unseen services only) and
  `Selection` (no foreign service is ever a candidate).
* `EverythingRecoverable`, `AbsenceIsVerified`, `ForeignServicesUntouched`: the
  corresponding properties of `lease_safety`, from `Invariance`.
* `RecordsAgree`: `Spec => []RInv` (`LeaseRecordsProofs`), on top of `IInv`.  The other
  four properties count: services against roles without an id, operations against a
  bound.  What is counted depends on what journal, `lease.json` and view say of each
  other, so `RInv` has to say it at every place a command can stop.  Its parts:
  `Declared` (both roles are declared before the first create), `Named` (where an id is
  known; a role the view does not know, the journal does not know either), `Selecting`
  (candidates and deletions against unknown roles, and what a cleanup's reap is entitled
  to), `Accounted` (everything in the namespace is stale or has a role), `Issued`
  (`lease.json` names both services and the journal is never behind it), `Found` (which
  `lease.json` a command can find) and `Counted` (at each place, the operations spent and
  those the rest can still take come to nine at most).
* `ReapStaysWithinJournal`, `OwnServicesFit`, `NineCallsSuffice`, `HarmlessRefusal`: the
  properties `ReapWithinJournal`, `OwnServicesNeverRefused`, `NineCalls` and
  `RefusalIsHarmless`, from `RecordsAgree`.  For the last one `Issued` and `Found` show that
  no cleanup refuses a journal with both roles in it, whatever was cut short before.
* `PromiseKept`: `Calm => (Spec => ImplementsPromise)`, for any account and any number of
  kills, lost answers and API errors.  `Calm` is the condition explained in section 3: no
  late create, no resurfacing, no disk fault, as in `lease_promise`.  It rests on a third
  invariant, `PInv` (`RecordsPromise`), because the first two say what a journal record
  may name but not what its state entitles a command to.  Its parts: `Decidedly` (a create
  is outstanding only while `acquire` waits for it; two roles never share a service; a
  recorded absence is true), `Unused` (which roles have not been declared), `Mirrored` (an
  acquisition's memory and journal show the same states, and it lacks the id of one
  service at most, which is what entitles `OtherIds` to protect the other), `Exactly` and
  `Tagwise` (whatever is about to be deleted, by id or by tag, is marked `deleting`),
  `Intended` and `Deletable` (what the loops of a cleanup have established and what they
  still owe) and `Proven` (what is gone and on record at each later place).  Each step
  then maps to one action of `LeasePromise` or to a stutter: `PhaseMoves` for a journal
  write, `DeletionMoves` for a deletion, `AcceptMoves` for the provider, `ClaimMoves` for
  the beginning and the end of a command.

For the hosted run, with any catalogue, selection, step and lane times and number of
overruns (`RunAssumption`), `HostedRunProofs` has one lemma per action and one step per
part of the invariant:

* `Invariance`: `Spec => []IInv`.  Its parts: `Progress` (what has happened at each
  place of `main`), `Finalization` (attempts against calls of `finalize`), `Ahead`
  (scenarios still to come have left no record, no reset and no result, which is why
  the records in the sink can be told apart by position), `Current` (the records of the
  current scenario are those behind `before`; the references are frozen after the
  reset) and `Over` (once the lane is over only the end follows, and no document).
* `TypeCorrect`, `EveryScenarioResetOnce`, `EvidenceIsComplete`, `LatePassImpossible`,
  `QualificationIsSound`, `FinalizationOnce`, `FinalizerHasItsTime`: properties of
  `hosted_run`, from `Invariance`.
* `InTime`: the last of them, `InTimeIfBounded`, with `Punctual` on top of `IInv`: while no
  operation overruns, the clock is at most as far behind the scenario's start as the steps
  so far may take together.  `StepAssumption` states the check of
  `ScenarioDefinition.__post_init__` by the partial sums of the step timeouts instead of
  their sum, so that no induction over a fold is needed.

For process containment, with any number of processes (`TreeAssumption`):

* `Containment` (`CommandRunProofs`): `SupervisorSpec => []IInv`.  Its parts say that
  numbers follow creation (`Numbered`), that every process has a parent that is older
  and lives or is the supervisor (which makes "no children" mean "nobody left":
  `NoKidsNobody` takes the lowest living process, whose parent cannot be a candidate),
  and what each statement of the supervisor and its records have established.
  `SupervisorTypes`, `OrphansAreKept` and `CompleteCertifies` follow from it.
* `RunnerImplementsSupervisor`: `Spec => SupervisorSpec`; every
  action of the runner is one of the supervisor's environment or leaves it alone.  So
  `IInv` holds inside the runner.
* `RunInvariance`: the runner's own invariant, on top: what each stage knows of the
  supervisor, that `status` and `proof` stay true once they are "gone" (`Covered`: what
  cannot be seen alive forks nothing that can), and what the verdict implies.
  `RunTypes`, `ReturnedMeansEmpty`, `SurvivorsFail`, `GoneIsCovered` and `RecordedOnce`
  follow from it.

`BoundedSupervisorLeaves` is a liveness property and stays with TLC.

For the service of a lane, with any descendants, strangers and process numbers that
satisfy `HostAssumption`, `ServiceProofs` has one lemma per kind of step (a step that
moves the controller only, one that also shrinks the process table, one of the machine)
and one per action:

* `Invariance`: `Spec => []IInv`.  Its parts: `Places` (where the controller can be for
  what it was asked to do), `Single` (one service, with a known number, up to the launch),
  `Recorded` (the sidecar is `Pending` from before the launch until an identity is proved
  under the replacement's number; the predecessor cannot be the one proved, because that
  number was free when the replacement got it), `Contained` (nothing of the replacement's
  runs before it is in the job) and `RouteProof` (on macOS the predecessor is gone before
  the sidecar is touched, so the process it names is the only one to ask about; at and
  after the restoration neither service is left).
* `TypeCorrect`, `SidecarStaysCurrent`, `AlwaysContained`, `RestoredRouteStays`: the
  corresponding properties of `service`.

`SignalProofs` adds a second invariant, `Sights`, for `SignalsOnlyProven`: `Spec =>
[]OnlyProvenSignalled`. On Linux and Windows this says that no stranger which was there at
a proof is ever signalled; on macOS that only an adopted one is. Its parts: `Table` (what
the process table guarantees: a number has one holder, a stranger is in nobody's group and
nobody's child), `Targets` (where a signal is next, everybody under its number or in its
group belongs to the service, was adopted, or came after the last proof), `TreeIsOwn`
(what was captured on Linux descends from a process that was proved to be a service),
`GroupIsOwn` (what is known on macOS descends from a service or was adopted, and under the
service's number only a service is ever known, because its probe also compares the
executable) and `Expecting` (who is expected at a proof; on Linux a stranger can have been
committed for the replacement, but then no service has that number and no proof succeeds
again). Every step of the machine keeps a clear number clear (`ClearStays`), since whoever
comes is in `born`; every proof makes one clear (`ProofClears`); nobody who was adopted is
forgotten (`TakenGrows`).

`GoneProofs` adds a third, `Departed`, for `CleanIsGone` and `CleanupIsGone`:
`Spec => []CleanMeansGone` and `Spec => []CleanupMeansGone`.  A report of success is about
the replacement, because the predecessor is dead before its successor is launched
(`Former`).  Committed identity and sidecar carry the replacement's number (`Paired`), so
that on Linux nobody alive under the number is no replacement alive even if the identity
committed was a stranger's; on macOS the replacement leads a group that nobody else can be
given (`Grouped`).  On Windows `NeverUncontained` is what makes a closed job a proof: it
is the one step of the argument that needs the containment theorem (`Emptied`).  The stops
look at the replacement and not at somebody else (`Watched`: the committed identity is
among the captured, the snapshot's root among the known), and no success is reported before
that is established (`Reported`).  `AgesKeeps` is the lemma about the machine: a process
that is dead stays dead, and in a lineage or a group without a living member nobody is
born.

For the sessions, with any number of scenarios and samples (`SessionAssumption`),
`HostedSessionProofs` has an invariant for each adapter, since the variables of the other
stand still:

* `CliInv`: a scenario connects at its second step or never (`Order`), so the baseline is
  taken before anything can be dialled (`Remembered`); while no reset has failed, no
  baseline means no session, none on its way and no tunnel (`Quiet`), a request that may
  still be answered belongs to a scenario that has ended (`HungUp`), and therefore the
  baseline is the runner's own address and another one the tunnel's (`Claims`).
* `DeviceInv`: files carry the number of their scenario (`Dated`), a result is good only
  after the instrumentation has ended (`Judged`), what a good scenario's finalization has
  not failed to remove is gone (`Removed`), and a sleeping device is being woken, or the
  scenario has raised or is not good (`Woke`).
* `EvidenceThroughTunnel`, `CleanupSeen`, `NothingLeftDown`, `PassedIsClean` and
  `TypeCorrect`: the properties of `session`, from `Invariance`.

Only model-checked: `EventuallyGone` and `BoundedSupervisorLeaves`, liveness properties,
which are out of the prover's reach.  Every other property of a passing run is proved.

## 5. Plan

1. *Done:* the lease (section 2), type correctness and three safety theorems.
2. *Done:* the hosted run and the functional engine: scenario loop, reset in the evidence
   callback, lane deadline, finalization and exit code, with its invariants and
   eight safety theorems.  Left: an abstract specification of a lane's verdict that
   `HostedRun` implements.
3. Workflow timing: lease, lane, marker and reserve as one protocol of two workflows
   with a shared clock; the aged reaper running beside them.
4. *Done on Linux:* process containment, supervisor and runner, with their invariants, the
   refinement between them and eight safety theorems.  *Done:* Windows job objects and the
   detached launch, as part of 5.  Left: the deadline wrapper with its progress forwarder.
5. *Done:* the service lifecycle on three platforms with the cleanup after the lane, and
   the sessions of the command-line and Android adapters.  Left: the upload sink.
6. Theorems.  *Done:* every invariant and every refinement of a passing run.

## 6. Findings

The cleanup budget counts eight Render API calls as the worst case
(`docs/contract.md:467-469`, `server-lease.yml:138-149`).  When both recorded
services are visible again, `_reverify_recorded_absence` performs three operations
for each and three lists: nine.  The run `lease_call_budget` shows the path.  Nine
calls of 16.5 s still fit the 150 s of the command.

`main` in `hosted/run.py` notes `finalization_attempted` before it writes the
finalization-start marker, and writes the marker outside the `try` block around
`_finalize_adapter`.  When the marker cannot be written, the exception reaches the
handler, which skips the finalizer because it was attempted, and the process returns
without the release of adapter-owned resources that the docstring of
`_finalize_adapter` and `docs/contract.md:484-486` call for.  The run
`hosted_finalization` shows the path; `FinalizedOnce` is the property with this one
exception.

`_identity_live` (`hosted/cli.py:1859`) takes a recorded process whose process group has
changed for one that is gone.  A child that is recorded and then calls `setsid` before
the kill is skipped by `_signal_tracked`, out of reach of `killpg`, and not seen by
`_tree_status`, which certifies "gone"; the comment at `cli.py:1923-1926` relies on
detached descendants staying in the tracked set.  The run `command_certificate` shows the
path, with the supervisor killed and the child alive under init.  An ordinary completion
is not affected (`CleanMeansEmpty`): it also needs the supervisor's word.  The timeout's
verdict is a failure in any case; what is wrong is its evidence.

`stop_restarted_service` (`hosted/linux.py:771-779`) captures the replacement's tree anew
when something has resisted TERM, and forgets the earlier capture.  A root that TERM has
ended and nobody has collected is a zombie by then and its children have another parent,
so the new tree has no survivors and the method returns as cleaned, while a descendant
that was captured before and had left the group is neither killed nor looked at.  The
comment above (`linux.py:747-750`) demands that such a descendant is "checked and signaled
by its captured start identity individually".  The run `service_captured` shows the path.

Smaller weaknesses met while modelling, without a run of their own:

* Linux: for a zombie root with live descendants the comment at the head of
  `stop_restarted_service` announces the ordinary TERM/KILL path, but the identity proof on
  that path reads the executable of a zombie and always fails: the finalization fails closed.
* Linux: what is forked after the second census and leaves the group is not tracked.
* macOS: `_terminate` expects nothing of a process it probes for the first time
  (`macos.py:559-569`, `593-605`).  If a listed member of the group or the tree ends and is
  collected, and an unrelated process takes its number before that probe, the stranger is
  recorded as known, proved again as the stranger it is (`678-686`) and killed (`687-693`).
  `harmed = {}` is violated in the `service` instance on macOS for this reason, in twenty
  steps; `OnlyProvenSignalled` says that there is no other way.  Comparing the parent
  at the probe with the census, as `linux.py:387` does, would close it.
* Lease: when the fsync after the replacement of `lease.json` fails, acquire unwinds but
  `lease.json` says "issued" (`lease_cli.py:155`).  If both absences are verified and a
  deleted service is then shown again, cleanup takes its branch for an active lease, skips
  the roles recorded as absent, and fails at the final proof with the service live
  (`BelievedAbsent` in `ServerLease`).
* macOS: an uncollected zombie root makes `_terminate` fail closed.
* Windows: the late census goes by `ParentProcessId` from the root; a late grandchild whose
  parent has ended is not found.
* `functional.yml` takes a failed probe (`sudo kill -0`, `ps`) for an absent service.
* An `ip link ... down` (or the sleep key on Android) that times out after it took effect is
  never undone; the scenario fails, and the scenarios after it find the host changed.  The
  time that is left is read once and given to both commands of the transition.
* `adapter.finalize` does not look at the service when the base adapter's reset fails; the
  workflow's cleanup does.
* A connect request whose client was killed and which reaches the service only after the
  reset has verified the baseline is noticed by nobody (`tainted` in `CliSession`).

One of containment: a snapshot of `/proc` after the kill may
certify "gone" although the census before it was incomplete; the guard of
`cli.py:1897-1902` is about the fallback only.

## 7. Not modelled

Secret handling, encryption of the handoff, validation of documents, the content of
artifacts, the format of probes and command lines, and the workflows that only build or
lint.  Of the protocol parts: the deadlines of request, lane, marker and lease across the
two workflows; the aged reaper beside a running lane; the deadline wrapper with its
progress forwarder; the contract slices; the upload sink.  `PROJECT.json` gives the
status of every component and the hazards that are left open.

----------------------------- MODULE HostedRun -----------------------------
(***************************************************************************)
(* One hosted functional lane: torturer_checks/hosted/run.py drives the    *)
(* selected scenarios through the functional engine, which runs the        *)
(* adapter and, to freeze the evidence of a result, calls back into run.py *)
(* where the scenario's reset happens.  The adapter is then finalized, the *)
(* result document written and the exit code derived from the coverage     *)
(* contract.  Only adapter operations and the result write take time; what *)
(* the adapter's operations do to the host is external.                    *)
(***************************************************************************)
EXTENDS Integers, Sequences, FiniteSets

LOCAL INSTANCE FiniteSetsExt

CONSTANTS
    Catalog,       \* canonical scenario ids
    Duration,      \* id -> max_duration_seconds
    Steps,         \* id -> the timeouts of its steps (one step for a bulk adapter)
    Limits,        \* EXPECTED_UNAVAILABLE_BY_PLATFORM of the platform
    Selections,    \* the --scenario-id lists a run may be given
    Allowlists,    \* the --expected-unavailable sets a run may be given
    Gaps,          \* the sets of scenarios an adapter may lack capabilities for
    Lane,          \* --lane-timeout-seconds
    Minimum,       \* _HOSTED_PLATFORM_MINIMUM_SECONDS of the platform
    ResetTime,     \* _RESET_TIMEOUT_SECONDS
    FinalizeTime,  \* _FINALIZE_TIMEOUT_SECONDS
    SetupTime,     \* bound: time preflight may take
    WriteTime,     \* bound: time the result write may take
    MaxOverruns    \* bound: operations that take longer than they were given

ASSUME RunAssumption ==
    /\ IsFiniteSet(Catalog)
    /\ Duration \in [Catalog -> Nat] /\ Steps \in [Catalog -> Seq(Nat)]
    /\ Limits \subseteq Catalog
    /\ Selections \subseteq Seq(Catalog)
    /\ \A s \in Selections : \A i, j \in DOMAIN s : s[i] = s[j] => i = j
    /\ Allowlists \subseteq SUBSET Catalog /\ Gaps \subseteq SUBSET Catalog
    /\ {Lane, Minimum, ResetTime, FinalizeTime, SetupTime, WriteTime, MaxOverruns} \subseteq Nat

\* What the steps of a scenario may take, the first i of them together.
PartialSums(s, sum) ==
    /\ sum[0] = 0
    /\ \A i \in 1..Len(Steps[s]) : sum[i] = sum[i - 1] + Steps[s][i]

\* ScenarioDefinition.__post_init__: together they keep to the scenario's
\* bound, and so does every part of them.
ASSUME StepAssumption ==
    \A s \in Catalog :
        \E sum \in [0..Len(Steps[s]) -> 0..Duration[s]] : PartialSums(s, sum)

VARIABLES
    now,       \* the monotonic clock, from the start of main
    at,        \* the next statement with an effect
    input,     \* the run's arguments: selected, expected, and all: no selection
               \* was given; and what the adapter misses
    cur,       \* index of the current scenario
    sc,        \* the current scenario in the engine and in _run_scenarios
    results,   \* the result payloads, in order
    failures,  \* reset_failures
    adapter,   \* what was asked of the adapter
    flag,      \* finalization_attempted, and facts the properties speak about
    sink,      \* number of evidence records of the runner
    doc,       \* the installed result document: "none", "good" or "bad" coverage
    exit       \* how main returned

vars == <<now, at, input, cur, sc, results, failures, adapter, flag, sink, doc, exit>>

\* Mutant: the scenarios run against the whole lane.
WholeLane == Lane

\* scenario_deadline: what the finalization needs is kept back.
ScenarioDeadline == Lane - FinalizeTime

\* _lane_remaining
Remaining(deadline) == IF deadline > now THEN deadline - now ELSE 0
Shorter(a, b) == IF a < b THEN a ELSE b

\* The ids of the selected scenarios.
Chosen == {input.selected[i] : i \in DOMAIN input.selected}

Outcome == {"passed", "failed", "unavailable"}
Result == [id : Catalog, outcome : Outcome, refs : Nat, time : Nat]

\* outcome: what the engine is about to report; tried: the report is made
\* inside the engine's try block; good: all observations satisfy the
\* assertions so far; refs: records among the result's evidence references;
\* reset: reset_called; resetError: reset_error.
NoScenario == [started |-> 0, step |-> 0, good |-> TRUE, outcome |-> "none",
               tried |-> FALSE, before |-> 0, refs |-> 0, reset |-> FALSE, resetError |-> FALSE]
Scenario == [started : Nat, step : Nat, good : BOOLEAN, outcome : Outcome \cup {"none"},
             tried : BOOLEAN, before : Nat, refs : Nat, reset : BOOLEAN, resetError : BOOLEAN]

\* resets and ran count reset calls and runner commands per scenario;
\* finalizes counts finalize calls, finalized tells that one succeeded.
Adapter == [made : BOOLEAN, resets : [Catalog -> Nat], ran : [Catalog -> Nat],
            finalizes : Nat, finalized : BOOLEAN]

\* attempted: finalization_attempted; overruns: operations past their time;
\* deadline: a HOSTED_LANE_DEADLINE_EXCEEDED was raised after a scenario had
\* started; silenced: the finalization-start marker could not be written;
\* spent: the lane was over when finalization was due.
Flag == [attempted : BOOLEAN, overruns : 0..MaxOverruns, deadline : BOOLEAN,
         silenced : BOOLEAN, spent : BOOLEAN]

TypeOK ==
    /\ now \in Nat
    /\ at \in {"preflight", "scenario", "step", "evidence", "report", "finalize",
               "write", "handler", "done"}
    /\ input \in [selected : Selections, all : BOOLEAN, expected : Allowlists, missing : Gaps]
    /\ cur \in 1..(Len(input.selected) + 1)
    /\ sc \in Scenario
    /\ results \in Seq(Result)
    /\ failures \in Nat
    /\ adapter \in Adapter
    /\ flag \in Flag
    /\ sink \in Nat
    /\ doc \in {"none", "good", "bad"}
    /\ exit \in {"none", "qualified", "unqualified", "error", "killed"}

Init ==
    /\ now = 0 /\ at = "preflight"
    /\ input \in [selected : Selections, all : BOOLEAN, expected : Allowlists, missing : Gaps]
    /\ input.all => Chosen = Catalog
    /\ cur = 1 /\ sc = NoScenario
    /\ results = <<>> /\ failures = 0
    /\ adapter = [made |-> FALSE, resets |-> [s \in Catalog |-> 0],
                  ran |-> [s \in Catalog |-> 0], finalizes |-> 0, finalized |-> FALSE]
    /\ flag = [attempted |-> FALSE, overruns |-> 0, deadline |-> FALSE,
               silenced |-> FALSE, spent |-> FALSE]
    /\ sink = 0 /\ doc = "none" /\ exit = "none"

----------------------------------------------------------------------------
\* Control.

Id == input.selected[cur]

\* An operation that was given at most limit seconds ends; a faulty one may
\* take longer.  f is the flag record to carry on.
Takes(limit, f) ==
    \/ \E d \in 0..limit : now' = now + d /\ flag' = f
    \/ /\ f.overruns < MaxOverruns
       /\ now' = now + limit + 1
       /\ flag' = [f EXCEPT !.overruns = @ + 1]

Instant == UNCHANGED <<now, flag>>

\* An exception reaches main's handler.
Raise == at' = "handler"
RaiseDeadline == Raise /\ flag' = [flag EXCEPT !.deadline = TRUE] /\ UNCHANGED now

\* Mutant: an operation may start that ends exactly at the deadline.
LaneTimeOrEqual(deadline, required) == Remaining(deadline) >= required

\* _require_lane_time: strictly more than the required time is left.
LaneTime(deadline, required) == Remaining(deadline) > required

\* FunctionalEngine._expired
Expired == now - sc.started > Duration[Id]

----------------------------------------------------------------------------
\* main up to the scenario loop.

\* _select_scenarios: the declared maxima of the scenarios the adapter can
\* run, one reset for each selected one and the finalization.
WorstCase ==
    LET sum == MapThenSumSet(LAMBDA s : Duration[s], Chosen \ input.missing)
               + Len(input.selected) * ResetTime + FinalizeTime
    IN  IF input.all /\ sum < Minimum THEN Minimum ELSE sum

\* Arguments, checkout and candidate are verified, then the adapter is built
\* and the selection checked; the clock is already running.
Preflight ==
    /\ at = "preflight"
    /\ Takes(SetupTime, flag)
    /\ \/ Raise /\ UNCHANGED adapter
       \/ /\ adapter' = [adapter EXCEPT !.made = TRUE]
          /\ Raise \/ (WorstCase <= Lane /\ at' = "scenario")
    /\ UNCHANGED <<input, cur, sc, results, failures, sink, doc, exit>>

\* Mutant: a scenario that lacks a capability is given no outcome.
NoOutcomeYet == "none"

\* The outcome the engine starts out with.
FirstOutcome == IF Id \in input.missing THEN "unavailable" ELSE "none"

\* What the current scenario may take, its reset not included.
Allowed == IF Id \in input.missing THEN 0 ELSE Duration[Id]

\* The head of the loop of _run_scenarios, and the engine up to its first
\* step.  The scenario-start marker is written first and may fail.
StartScenario ==
    /\ at = "scenario" /\ cur <= Len(input.selected)
    /\ \/ /\ LaneTime(ScenarioDeadline, ResetTime + Allowed)
          /\ sc' = [NoScenario EXCEPT !.started = now, !.before = sink,
                         !.outcome = FirstOutcome]
          /\ at' = IF Id \in input.missing THEN "evidence" ELSE "step"
       \/ Raise /\ UNCHANGED sc
    /\ Instant
    /\ UNCHANGED <<input, cur, results, failures, adapter, sink, doc, exit>>

\* The engine hands a result to _result; in tells whether it does so inside
\* its try block, where an exception of the evidence provider is caught.
Report(outcome, in) ==
    /\ sc' = [sc EXCEPT !.outcome = outcome, !.tried = in]
    /\ at' = "evidence"

\* The check before every step and after the last one.
Timeout ==
    /\ at = "step" /\ Expired
    /\ Report("failed", TRUE)
    /\ Instant
    /\ UNCHANGED <<input, cur, results, failures, adapter, sink, doc, exit>>

Judge ==
    /\ at = "step" /\ ~Expired /\ sc.step = Len(Steps[Id])
    /\ Report(IF sc.good THEN "passed" ELSE "failed", FALSE)
    /\ Instant
    /\ UNCHANGED <<input, cur, results, failures, adapter, sink, doc, exit>>

\* adapter.execute (or execute_scenario): it returns observations that do or
\* do not satisfy the assertions, returns something else, or raises.  The
\* adapter bounds its own commands by the timeout of the step.
Execute ==
    /\ at = "step" /\ ~Expired /\ sc.step < Len(Steps[Id])
    /\ Takes(Steps[Id][sc.step + 1], flag)
    /\ sink' = sink + 1
    /\ adapter' = [adapter EXCEPT !.ran[Id] = @ + 1]
    /\ \/ \E good \in BOOLEAN :
            /\ sc' = [sc EXCEPT !.step = @ + 1, !.good = @ /\ good]
            /\ at' = "step"
       \/ Report("failed", TRUE)        \* not a Mapping
       \/ Report("failed", FALSE)       \* ScenarioExecutionError, Exception
       \/ Report("unavailable", FALSE)  \* CapabilityUnavailable
    /\ UNCHANGED <<input, cur, results, failures, doc, exit>>

----------------------------------------------------------------------------
\* The evidence provider: the bounded reset, once, and then the references.

\* Mutant: the references are frozen before the reset has run.
ReferencesBeforeReset == sink - sc.before

\* safe_evidence()[before:] when the reset has returned.
References == sink' - sc.before

Frozen(error) ==
    sc' = [sc EXCEPT !.reset = TRUE, !.resetError = error, !.refs = References]

\* The lane was over, or adapter.reset was called and returned or raised.
ResetNow ==
    \/ /\ Remaining(ScenarioDeadline) = 0
       /\ UNCHANGED <<now, adapter, sink>>
       /\ flag' = [flag EXCEPT !.deadline = TRUE]
       /\ Frozen(TRUE)
    \/ /\ Remaining(ScenarioDeadline) > 0
       /\ Takes(Shorter(ResetTime, Remaining(ScenarioDeadline)), flag)
       /\ adapter' = [adapter EXCEPT !.resets[Id] = @ + 1, !.ran[Id] = @ + 1]
       /\ sink' = sink + 1
       /\ \E raises \in BOOLEAN : Frozen(raises)

\* Mutant: reset_called is never looked at.
ResetEveryTime ==
    /\ at = "evidence" /\ at' = "report"
    /\ ResetNow
    /\ UNCHANGED <<input, cur, results, failures, doc, exit>>

\* finalize_evidence
Reset ==
    /\ at = "evidence" /\ at' = "report"
    /\ \/ ~sc.reset /\ ResetNow
       \/ /\ sc.reset /\ Instant /\ UNCHANGED <<adapter, sink>>
          /\ Frozen(sc.resetError)
    /\ UNCHANGED <<input, cur, results, failures, doc, exit>>

\* Mutant: a pass stays a pass however long the evidence took.
OutcomeAsExecuted == sc.outcome

\* FunctionalEngine._result: evidence finalization counts as scenario time.
FinalOutcome ==
    IF sc.outcome = "passed" /\ Expired THEN "failed" ELSE sc.outcome

\* The references or the result are invalid.  In the try block the engine
\* reports an ADAPTER_ERROR instead, and asks the provider again.
EvidenceInvalid ==
    /\ at = "report"
    /\ IF sc.tried THEN Report("failed", FALSE) ELSE Raise /\ UNCHANGED sc
    /\ Instant
    /\ UNCHANGED <<input, cur, results, failures, adapter, sink, doc, exit>>

\* The payload does not validate in _run_scenarios.
PayloadInvalid ==
    /\ at = "report" /\ Raise
    /\ Instant
    /\ UNCHANGED <<input, cur, sc, results, failures, adapter, sink, doc, exit>>

\* The result is kept, a reset failure counted, the lane checked and the
\* scenario-finish marker written.
FinishScenario ==
    /\ at = "report"
    /\ results' = Append(results, [id |-> Id, outcome |-> FinalOutcome,
                                   refs |-> sc.refs, time |-> now - sc.started])
    /\ failures' = failures + (IF sc.resetError THEN 1 ELSE 0)
    /\ IF Remaining(ScenarioDeadline) = 0 THEN RaiseDeadline /\ UNCHANGED <<cur, sc>>
       ELSE \/ at' = "scenario" /\ cur' = cur + 1 /\ sc' = NoScenario /\ Instant
            \/ Raise /\ UNCHANGED <<cur, sc>> /\ Instant
    /\ UNCHANGED <<input, adapter, sink, doc, exit>>

----------------------------------------------------------------------------
\* Finalization, the result document and the exit code.

\* _finalize_adapter within the lane deadline: not called, done or raised.
FinalizeAdapter(f, done, raised) ==
    \/ /\ Remaining(Lane) = 0
       /\ flag' = [f EXCEPT !.spent = TRUE] /\ at' = raised
       /\ UNCHANGED <<now, adapter>>
    \/ /\ Remaining(Lane) > 0
       /\ Takes(Shorter(FinalizeTime, Remaining(Lane)), f)
       /\ \E ok \in BOOLEAN :
            /\ adapter' = [adapter EXCEPT !.finalizes = @ + 1, !.finalized = ok]
            /\ at' = IF ok THEN done ELSE raised

Attempt == [flag EXCEPT !.attempted = TRUE]

\* The regular finalization.  Its start marker is written after the attempt
\* was noted and outside the inner try; its finish marker may fail too.
Finalize ==
    /\ at = "scenario" /\ cur > Len(input.selected)
    /\ \/ Raise /\ flag' = [Attempt EXCEPT !.silenced = TRUE] /\ UNCHANGED <<now, adapter>>
       \/ \E next \in {"write", "handler"} : FinalizeAdapter(Attempt, next, "handler")
    /\ UNCHANGED <<input, cur, sc, results, failures, sink, doc, exit>>

\* Mutant: the limitations observed in the results are not compared.
CoverageOfDeclared ==
    /\ input.expected = Limits
    /\ Chosen = Catalog
    /\ \A i \in DOMAIN results : results[i].outcome \in {"passed", "unavailable"}
    /\ Chosen \cap input.missing = input.expected
    /\ Len(results) = Cardinality(Catalog)
    /\ failures = 0

\* _coverage_contract: "supported-subset-with-expected-limitations".
Coverage ==
    LET observed == {results[i].id : i \in {j \in DOMAIN results :
                                                results[j].outcome = "unavailable"}}
    IN  /\ input.expected = Limits
        /\ Chosen = Catalog
        /\ {results[i].id : i \in DOMAIN results} = Catalog
        /\ \A i \in DOMAIN results : results[i].outcome \in {"passed", "unavailable"}
        /\ Chosen \cap input.missing = observed
        /\ observed = input.expected
        /\ Len(results) = Cardinality(Catalog)
        /\ failures = 0

Status == IF Coverage THEN "good" ELSE "bad"

\* _qualification_exit_code
Qualification ==
    IF failures = 0 /\ (\A i \in DOMAIN results : results[i].outcome # "failed") /\ Coverage
    THEN "qualified" ELSE "unqualified"

\* _write_json never replaces a document; it may fail before or after the
\* link, and the lane clock is read again when both fsyncs are done.
Write ==
    /\ at = "write"
    /\ \/ Remaining(Lane) = 0 /\ Raise /\ Instant /\ UNCHANGED <<doc, exit>>
       \/ /\ Remaining(Lane) > 0
          /\ Takes(WriteTime, flag)
          /\ \/ doc' \in {doc, Status} /\ Raise /\ UNCHANGED exit
             \/ /\ doc' = Status
                /\ IF now' > Lane THEN Raise /\ UNCHANGED exit
                   ELSE at' = "done" /\ exit' = Qualification
    /\ UNCHANGED <<input, cur, sc, results, failures, adapter, sink>>

\* Mutant: the handler does not know that finalization was attempted.
HandleAnew ==
    /\ at = "handler" /\ exit' = "error"
    /\ IF adapter.made THEN FinalizeAdapter(Attempt, "done", "done")
       ELSE at' = "done" /\ UNCHANGED adapter /\ Instant
    /\ UNCHANGED <<input, cur, sc, results, failures, sink, doc>>

\* main's "except Exception".
Handle ==
    /\ at = "handler" /\ exit' = "error"
    /\ IF adapter.made /\ ~flag.attempted THEN FinalizeAdapter(Attempt, "done", "done")
       ELSE at' = "done" /\ UNCHANGED adapter /\ Instant
    /\ UNCHANGED <<input, cur, sc, results, failures, sink, doc>>

\* The outer deadline kills the process.
Kill ==
    /\ exit = "none"
    /\ exit' = "killed" /\ at' = "done"
    /\ UNCHANGED <<now, input, cur, sc, results, failures, adapter, flag, sink, doc>>

Next ==
    \/ Preflight \/ StartScenario \/ Timeout \/ Judge \/ Execute
    \/ Reset \/ EvidenceInvalid \/ PayloadInvalid \/ FinishScenario
    \/ Finalize \/ Write \/ Handle \/ Kill

Spec == Init /\ [][Next]_vars

----------------------------------------------------------------------------
\* Properties.

\* adapter.reset is called at most once per scenario, whatever the engine
\* does with an exception of the evidence provider, and no result is kept
\* whose scenario was not reset unless the lane was over.
ResetOnce ==
    /\ \A s \in Catalog : adapter.resets[s] <= 1
    /\ \A i \in DOMAIN results : adapter.resets[results[i].id] = 1 \/ flag.deadline

\* A kept result refers to every record its scenario left in the sink, those
\* of its reset included, and to no record of another scenario.
EvidenceComplete ==
    \A i \in DOMAIN results : results[i].refs = adapter.ran[results[i].id]

\* No result is a pass that took longer than its scenario may, the reset and
\* the evidence included.
PassedInTime ==
    \A i \in DOMAIN results :
        results[i].outcome = "passed" => results[i].time <= Duration[results[i].id]

\* Every scenario of the catalogue has exactly one result, the limitations of
\* the platform are the unavailable ones and all others passed, every reset
\* returned, and the adapter is finalized.
Complete ==
    /\ Len(results) = Cardinality(Catalog)
    /\ \A s \in Catalog : \E i \in DOMAIN results :
            /\ results[i].id = s
            /\ results[i].outcome = IF s \in Limits THEN "unavailable" ELSE "passed"
    /\ \A s \in Catalog : adapter.resets[s] = 1
    /\ failures = 0 /\ adapter.finalized

\* A document that reports the reviewed coverage exists only for a complete
\* run, even if the process is killed or fails after writing it, and the run
\* qualifies only with such a document and inside its lane.
QualifiedIsComplete ==
    /\ doc = "good" => Complete
    /\ exit = "qualified" => doc = "good" /\ now <= Lane

\* _require_lane_time's "reserve one operation and its cleanup": while every
\* operation keeps to its own timeout no scenario that was started runs into
\* the lane deadline.
InTimeIfBounded == flag.overruns = 0 => ~flag.deadline

\* After a scenario that did not fail the lane, the finalization still has
\* all the time it may take, however slow the scenario was.
FinalizationReserved ==
    at = "scenario" /\ cur > 1 => Remaining(Lane) >= FinalizeTime

\* finalize is called at most once, and main returns without having called it
\* on an adapter it made only if the lane was over or the marker that
\* announces the finalization could not be written.
FinalizedOnce ==
    /\ adapter.finalizes <= 1
    /\ exit \in {"qualified", "unqualified", "error"} /\ adapter.made =>
            adapter.finalizes = 1 \/ flag.spent \/ flag.silenced

\* docs/contract.md:484-488 and _finalize_adapter ("Release adapter-owned
\* resources before the hosted process may exit"), without the exception for
\* the marker.
FinalizationOwed ==
    exit \in {"qualified", "unqualified", "error"} /\ adapter.made =>
        adapter.finalizes = 1 \/ flag.spent

----------------------------------------------------------------------------
\* The inductive invariant behind the theorems of HostedRunProofs.

InScenario == at \in {"step", "evidence", "report"}
InLoop == InScenario \/ at = "scenario"

\* How far main has come.
Progress ==
    /\ at = "preflight" => cur = 1 /\ results = <<>> /\ failures = 0 /\ ~adapter.made
    /\ at = "preflight" \/ InLoop => ~flag.attempted
    /\ InLoop \/ at = "write" => adapter.made
    /\ at = "write" => flag.attempted /\ adapter.finalized
    /\ exit = "none" <=> at # "done"
    /\ doc # "none" => at \in {"handler", "done"} /\ flag.attempted
    /\ InScenario => cur <= Len(input.selected)
    /\ at = "scenario" /\ cur > 1 => Remaining(ScenarioDeadline) > 0

\* finalization_attempted and the calls of finalize.
Finalization ==
    /\ adapter.finalizes <= 1
    /\ ~flag.attempted => adapter.finalizes = 0
    /\ flag.attempted => adapter.finalizes = 1 \/ flag.spent \/ flag.silenced
    /\ exit \in {"qualified", "unqualified", "error"} /\ adapter.made => flag.attempted

\* The scenarios ahead have left no trace and have no result.
Ahead ==
    /\ at = "preflight" \/ at = "scenario" =>
            \A k \in cur..Len(input.selected) :
                adapter.ran[input.selected[k]] = 0 /\ adapter.resets[input.selected[k]] = 0
    /\ InScenario =>
            \A k \in (cur + 1)..Len(input.selected) :
                adapter.ran[input.selected[k]] = 0 /\ adapter.resets[input.selected[k]] = 0
    /\ at = "preflight" \/ InLoop =>
            \A i \in DOMAIN results, k \in cur..Len(input.selected) :
                results[i].id # input.selected[k]

\* The current scenario's records are those behind its start in the sink.
Current ==
    /\ sc.started <= now /\ sc.before <= sink
    /\ InScenario =>
            /\ sink = sc.before + adapter.ran[Id]
            /\ ~sc.reset => adapter.resets[Id] = 0
            /\ sc.reset => adapter.resets[Id] = 1 \/ flag.deadline
    /\ at = "step" => ~sc.reset
    /\ at \in {"evidence", "report"} => sc.outcome \in Outcome
    /\ at = "report" => sc.reset /\ sc.refs = adapter.ran[Id]

\* Once the lane is over nothing but its end follows.
Over ==
    flag.deadline =>
        /\ at \in {"evidence", "report", "handler", "done"}
        /\ at \in {"evidence", "report"} => Remaining(ScenarioDeadline) = 0
        /\ doc = "none"

\* While no operation overruns, a scenario that was started keeps to the time
\* _require_lane_time has reserved for it.
Punctual ==
    flag.overruns = 0 =>
        /\ ~flag.deadline
        /\ InScenario => sc.started + Allowed + ResetTime < ScenarioDeadline
        /\ at = "step" =>
              /\ Id \notin input.missing /\ sc.step <= Len(Steps[Id])
              /\ \A sum \in [0..Len(Steps[Id]) -> 0..Duration[Id]] :
                    PartialSums(Id, sum) => now <= sc.started + sum[sc.step]
        /\ at \in {"evidence", "report"} =>
              now <= sc.started + Allowed + (IF sc.reset THEN ResetTime ELSE 0)

IInv ==
    /\ TypeOK /\ Progress /\ Finalization /\ Ahead /\ Current /\ Over
    /\ ResetOnce /\ EvidenceComplete /\ PassedInTime /\ QualifiedIsComplete
=============================================================================

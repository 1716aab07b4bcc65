-------------------------- MODULE HostedRunProofs --------------------------
(***************************************************************************)
(* IInv of HostedRun is inductive, so its safety properties hold for every *)
(* catalogue, selection, lane and number of overrunning operations.        *)
(***************************************************************************)
EXTENDS HostedRun, TLAPS

(***************************************************************************)
(* Facts the steps share.                                                  *)
(***************************************************************************)
\* The types of the constants, from the assumption on them.
LEMMA ConstantTypes ==
    /\ Lane \in Nat /\ ResetTime \in Nat /\ FinalizeTime \in Nat
    /\ SetupTime \in Nat /\ WriteTime \in Nat /\ MaxOverruns \in Nat
    /\ Duration \in [Catalog -> Nat] /\ Steps \in [Catalog -> Seq(Nat)]
BY RunAssumption

\* The current scenario is selected, and none of those after it is the same.
LEMMA CurrentId ==
  ASSUME TypeOK, cur <= Len(input.selected)
  PROVE  /\ input.selected \in Seq(Catalog) /\ cur \in 1..Len(input.selected)
         /\ Id \in Catalog
         /\ \A k \in (cur + 1)..Len(input.selected) :
                input.selected[k] \in Catalog /\ input.selected[k] # Id
<1>1. input.selected \in Selections /\ input.selected \in Seq(Catalog)
  BY RunAssumption DEF TypeOK
<1>2. cur \in 1..Len(input.selected) /\ Len(input.selected) \in Nat
  BY <1>1 DEF TypeOK
<1>3. \A k \in 1..Len(input.selected) : input.selected[k] \in Catalog
  BY <1>1
<1>4. DOMAIN input.selected = 1..Len(input.selected)
  BY <1>1
<1>5. \A i, j \in 1..Len(input.selected) : input.selected[i] = input.selected[j] => i = j
  BY <1>1, <1>4, RunAssumption
<1>6. \A k \in (cur + 1)..Len(input.selected) : k \in 1..Len(input.selected) /\ k # cur
  BY <1>2
<1> QED BY <1>1, <1>2, <1>3, <1>5, <1>6 DEF Id

\* Time moves on; of the flags only the count of overruns may change.
SameFlags(f) ==
    /\ flag'.attempted = f.attempted /\ flag'.deadline = f.deadline
    /\ flag'.silenced = f.silenced /\ flag'.spent = f.spent

\* Takes moves the clock on and leaves all flags but the overruns alone.
LEMMA TimeMoves ==
  ASSUME NEW limit \in Nat, NEW f \in Flag, now \in Nat, Takes(limit, f)
  PROVE  now' \in Nat /\ now' >= now /\ flag' \in Flag /\ SameFlags(f)
<1>1. CASE \E d \in 0..limit : now' = now + d /\ flag' = f
  BY <1>1 DEF SameFlags
<1>2. CASE f.overruns < MaxOverruns /\ now' = now + limit + 1
           /\ flag' = [f EXCEPT !.overruns = @ + 1]
  <2>1. f.overruns + 1 \in 0..MaxOverruns
    BY <1>2, ConstantTypes DEF Flag
  <2>2. flag' \in Flag /\ SameFlags(f)
    BY <1>2, <2>1 DEF SameFlags, Flag
  <2>3. now' \in Nat /\ now' >= now
    BY <1>2
  <2> QED BY <2>2, <2>3
<1> QED BY <1>1, <1>2 DEF Takes

\* Every kept result is a Result of a catalogued scenario.
LEMMA ResultFields ==
  ASSUME TypeOK
  PROVE  \A i \in DOMAIN results : results[i] \in Result /\ results[i].id \in Catalog
<1>1. \A i \in DOMAIN results : results[i] \in Result
  BY DEF TypeOK
<1> QED BY <1>1 DEF Result

\* One more record, of a command or of a reset, in the current scenario.
LEMMA OneMore ==
  ASSUME NEW f \in [Catalog -> Nat], NEW s \in Catalog
  PROVE  /\ [f EXCEPT ![s] = @ + 1] \in [Catalog -> Nat]
         /\ [f EXCEPT ![s] = @ + 1][s] = f[s] + 1
         /\ \A t \in Catalog \ {s} : [f EXCEPT ![s] = @ + 1][t] = f[t]
OBVIOUS

\* The engine's expiry check preserves the invariant.
LEMMA TimeoutStep == IInv /\ Timeout => IInv'
<1> SUFFICES ASSUME IInv, Timeout PROVE IInv'
  OBVIOUS
<1> USE DEF IInv, Timeout, Report, Instant
<1>1. TypeOK'
  BY DEF TypeOK, Scenario, Outcome
<1>2. Progress' /\ Finalization' /\ Over'
  BY DEF Progress, Finalization, Over, InLoop, InScenario, Remaining, ScenarioDeadline
<1>3. Ahead'
  BY DEF Ahead, InLoop, InScenario
<1>4. Current'
  BY DEF Current, InScenario, Id, TypeOK, Scenario, Outcome
<1>5. ResetOnce' /\ EvidenceComplete' /\ PassedInTime' /\ QualifiedIsComplete'
  BY DEF ResetOnce, EvidenceComplete, PassedInTime, QualifiedIsComplete, Complete, Remaining
<1> QED BY <1>1, <1>2, <1>3, <1>4, <1>5

\* So does an operation of the adapter: it adds one record of this scenario.
LEMMA ExecuteStep == IInv /\ Execute => IInv'
<1> SUFFICES ASSUME IInv, Execute PROVE IInv'
  OBVIOUS
<1> USE DEF IInv
<1>1. TypeOK /\ at = "step" /\ cur <= Len(input.selected) /\ ~sc.reset /\ ~flag.attempted
      /\ exit = "none" /\ doc = "none" /\ ~flag.deadline /\ adapter.made
  BY DEF Execute, Progress, InScenario, InLoop, Current, Over, TypeOK, Flag, Adapter, Scenario
<1>2. Id \in Catalog /\ \A k \in (cur + 1)..Len(input.selected) :
                input.selected[k] \in Catalog /\ input.selected[k] # Id
  BY <1>1, CurrentId
<1>3. Steps[Id][sc.step + 1] \in Nat
  <2>1. Steps[Id] \in Seq(Nat) /\ sc.step \in Nat /\ sc.step < Len(Steps[Id])
    BY <1>1, <1>2, ConstantTypes DEF Execute, TypeOK, Scenario
  <2>2. sc.step + 1 \in 1..Len(Steps[Id])
    BY <2>1
  <2> QED BY <2>1, <2>2
<1>4. now' \in Nat /\ now' >= now /\ flag' \in Flag /\ SameFlags(flag)
  BY <1>1, <1>3, TimeMoves DEF Execute, TypeOK
<1>5. /\ adapter' \in Adapter
      /\ adapter'.ran = [adapter.ran EXCEPT ![Id] = @ + 1]
      /\ adapter'.made = adapter.made /\ adapter'.resets = adapter.resets
      /\ adapter'.finalizes = adapter.finalizes /\ adapter'.finalized = adapter.finalized
  <2> DEFINE ran == [adapter.ran EXCEPT ![Id] = @ + 1]
  <2>1. ran \in [Catalog -> Nat]
    BY <1>1, <1>2, OneMore DEF TypeOK, Adapter
  <2>2. adapter' = [adapter EXCEPT !.ran = ran]
    BY DEF Execute
  <2> HIDE DEF ran
  <2>3. adapter' \in Adapter /\ adapter'.ran = ran
    BY <1>1, <2>1, <2>2 DEF TypeOK, Adapter
  <2>4. /\ adapter'.made = adapter.made /\ adapter'.resets = adapter.resets
        /\ adapter'.finalizes = adapter.finalizes /\ adapter'.finalized = adapter.finalized
    BY <1>1, <2>2 DEF TypeOK, Adapter
  <2> QED BY <2>3, <2>4 DEF ran
<1>6. /\ sc' \in Scenario /\ sc'.reset = sc.reset
      /\ sc'.started = sc.started /\ sc'.before = sc.before
      /\ at' \in {"step", "evidence"} /\ (at' = "evidence" => sc'.outcome \in Outcome)
  <2>1. sc \in Scenario
    BY <1>1 DEF TypeOK
  <2>2. CASE \E good \in BOOLEAN :
                /\ sc' = [sc EXCEPT !.step = @ + 1, !.good = @ /\ good] /\ at' = "step"
    <3>1. PICK good \in BOOLEAN :
                /\ sc' = [sc EXCEPT !.step = @ + 1, !.good = @ /\ good] /\ at' = "step"
      BY <2>2
    <3> DEFINE g == sc.good /\ good
    <3>2. g \in BOOLEAN /\ sc' = [sc EXCEPT !.step = @ + 1, !.good = g]
      BY <2>1, <3>1 DEF Scenario
    <3> HIDE DEF g
    <3>3. sc.step + 1 \in Nat
      BY <2>1 DEF Scenario
    <3>4. /\ sc' \in Scenario /\ sc'.reset = sc.reset
          /\ sc'.started = sc.started /\ sc'.before = sc.before
      BY <2>1, <3>2, <3>3 DEF Scenario
    <3> QED BY <3>1, <3>4
  <2>3. CASE \E o \in {"failed", "unavailable"}, in \in BOOLEAN : Report(o, in)
    BY <2>1, <2>3 DEF Scenario, Outcome, Report
  <2> QED BY <2>2, <2>3 DEF Execute
<1>7. sink' = sink + 1 /\ UNCHANGED <<input, cur, results, failures, doc, exit>>
  BY DEF Execute
<1>8. adapter.ran \in [Catalog -> Nat] /\ adapter.resets \in [Catalog -> Nat]
  BY <1>1 DEF TypeOK, Adapter
<1>9. TypeOK'
  BY <1>4, <1>5, <1>6, <1>7 DEF TypeOK
<1>10. Progress' /\ Finalization' /\ Over'
  BY <1>1, <1>4, <1>5, <1>6, <1>7
     DEF Progress, Finalization, Over, InLoop, InScenario, SameFlags
<1>11. Ahead'
  BY <1>1, <1>2, <1>5, <1>6, <1>7, <1>8 DEF Ahead, InLoop, InScenario
<1>12. Current'
  <2>1. Id' = Id
    BY <1>7 DEF Id
  <2>2. adapter'.ran[Id] = adapter.ran[Id] + 1
    BY <1>2, <1>5, <1>8
  <2>3. sc.started \in Nat /\ sc.before \in Nat /\ sink \in Nat /\ now \in Nat
    BY <1>1 DEF TypeOK, Scenario
  <2>4. sc.started <= now /\ sc.before <= sink /\ sink = sc.before + adapter.ran[Id]
        /\ adapter.resets[Id] = 0 /\ adapter.ran[Id] \in Nat
    BY <1>1, <1>2, <1>8 DEF Current, InScenario
  <2> QED BY <1>1, <1>4, <1>5, <1>6, <1>7, <2>1, <2>2, <2>3, <2>4 DEF Current, InScenario
<1>13. ResetOnce' /\ PassedInTime' /\ QualifiedIsComplete'
  BY <1>1, <1>4, <1>5, <1>7 DEF ResetOnce, PassedInTime, QualifiedIsComplete, SameFlags
<1>14. EvidenceComplete'
  <2>1. \A i \in DOMAIN results : results[i].id # Id
    BY <1>1, CurrentId DEF Ahead, InLoop, InScenario, Id
  <2>2. \A i \in DOMAIN results : results[i].id \in Catalog
    BY <1>1, ResultFields
  <2> QED BY <1>5, <1>7, <1>8, <2>1, <2>2 DEF EvidenceComplete
<1> QED BY <1>9, <1>10, <1>11, <1>12, <1>13, <1>14

(***************************************************************************)
(* What holds while a scenario is under way.                               *)
(***************************************************************************)
LEMMA Within ==
  ASSUME IInv, InScenario
  PROVE  /\ cur \in 1..Len(input.selected) /\ Id \in Catalog
         /\ \A k \in (cur + 1)..Len(input.selected) :
                input.selected[k] \in Catalog /\ input.selected[k] # Id
         /\ \A i \in DOMAIN results : results[i].id \in Catalog /\ results[i].id # Id
         /\ exit = "none" /\ doc = "none" /\ ~flag.attempted /\ adapter.made
         /\ sc.started \in Nat /\ sc.before \in Nat /\ sink \in Nat /\ now \in Nat
         /\ sc.started <= now /\ sc.before <= sink /\ sink = sc.before + adapter.ran[Id]
         /\ adapter.ran \in [Catalog -> Nat] /\ adapter.resets \in [Catalog -> Nat]
<1>1. TypeOK /\ cur <= Len(input.selected)
  BY DEF IInv, Progress
<1>2. /\ cur \in 1..Len(input.selected) /\ Id \in Catalog
      /\ \A k \in (cur + 1)..Len(input.selected) :
            input.selected[k] \in Catalog /\ input.selected[k] # Id
  BY <1>1, CurrentId
<1>3. \A i \in DOMAIN results : results[i].id \in Catalog /\ results[i].id # Id
  BY <1>1, <1>2, ResultFields DEF IInv, Ahead, InLoop, Id
<1>4. exit = "none" /\ doc = "none" /\ ~flag.attempted /\ adapter.made
  BY <1>1 DEF IInv, Progress, InScenario, InLoop, TypeOK
<1>5. sc.started \in Nat /\ sc.before \in Nat /\ sink \in Nat /\ now \in Nat
  BY <1>1 DEF TypeOK, Scenario
<1>6. sc.started <= now /\ sc.before <= sink /\ sink = sc.before + adapter.ran[Id]
  BY DEF IInv, Current
<1>7. adapter.ran \in [Catalog -> Nat] /\ adapter.resets \in [Catalog -> Nat]
  BY <1>1 DEF TypeOK, Adapter
<1> QED BY <1>2, <1>3, <1>4, <1>5, <1>6, <1>7

\* Steps that change nothing but where main is and what it is told.
LEMMA ResultsStand ==
  ASSUME IInv, UNCHANGED <<results, failures, adapter, doc>>,
         flag'.deadline = flag.deadline,
         exit' = "qualified" => exit = "qualified" /\ UNCHANGED now
  PROVE  ResetOnce' /\ EvidenceComplete' /\ PassedInTime' /\ QualifiedIsComplete'
BY DEF IInv, ResetOnce, EvidenceComplete, PassedInTime, QualifiedIsComplete, Complete

\* So does the preflight, whether or not it built the adapter.
LEMMA PreflightStep == IInv /\ Preflight => IInv'
<1> SUFFICES ASSUME IInv, Preflight PROVE IInv'
  OBVIOUS
<1>1. TypeOK /\ at = "preflight" /\ now \in Nat /\ flag \in Flag /\ SetupTime \in Nat
  BY ConstantTypes DEF Preflight, IInv, TypeOK
<1>2. now' \in Nat /\ now' >= now /\ flag' \in Flag /\ SameFlags(flag)
  BY <1>1, TimeMoves DEF Preflight
<1>3. /\ adapter' \in Adapter /\ (adapter'.made => adapter.made \/ adapter' = [adapter EXCEPT !.made = TRUE])
      /\ adapter'.ran = adapter.ran /\ adapter'.resets = adapter.resets
      /\ adapter'.finalizes = adapter.finalizes /\ adapter'.finalized = adapter.finalized
  BY <1>1 DEF Preflight, TypeOK, Adapter
<1>4. at' \in {"handler", "scenario"} /\ (at' = "scenario" => adapter'.made)
  BY <1>1 DEF Preflight, Raise, TypeOK, Adapter
<1>5. UNCHANGED <<input, cur, sc, results, failures, sink, doc, exit>>
  BY DEF Preflight
<1>6. /\ cur = 1 /\ results = <<>> /\ failures = 0 /\ ~flag.attempted /\ ~flag.deadline
      /\ exit = "none" /\ doc = "none"
  BY <1>1 DEF IInv, Progress, InScenario, InLoop, Over, TypeOK, Flag
<1>7. TypeOK'
  BY <1>1, <1>2, <1>3, <1>4, <1>5 DEF TypeOK
<1>8. Progress' /\ Finalization' /\ Over'
  BY <1>1, <1>2, <1>3, <1>4, <1>5, <1>6
     DEF IInv, Progress, Finalization, Over, InLoop, InScenario, SameFlags
<1>9. Ahead'
  BY <1>1, <1>3, <1>4, <1>5 DEF IInv, Ahead, InLoop, InScenario
<1>10. Current'
  BY <1>1, <1>2, <1>4, <1>5 DEF IInv, Current, InScenario, TypeOK, Scenario
<1>11. ResetOnce' /\ EvidenceComplete' /\ PassedInTime' /\ QualifiedIsComplete'
  BY <1>2, <1>3, <1>5, <1>6 DEF IInv, ResetOnce, EvidenceComplete, PassedInTime,
                               QualifiedIsComplete, SameFlags
<1> QED BY <1>7, <1>8, <1>9, <1>10, <1>11 DEF IInv

\* So does the start of a scenario, which notes where its records begin.
LEMMA StartScenarioStep == IInv /\ StartScenario => IInv'
<1> SUFFICES ASSUME IInv, StartScenario PROVE IInv'
  OBVIOUS
<1>1. /\ TypeOK /\ at = "scenario" /\ cur <= Len(input.selected)
      /\ UNCHANGED <<now, flag, input, cur, results, failures, adapter, sink, doc, exit>>
  BY DEF StartScenario, IInv, Instant
<1>2. Id \in Catalog /\ cur \in 1..Len(input.selected)
  BY <1>1, CurrentId
<1>3. /\ exit = "none" /\ doc = "none" /\ ~flag.attempted /\ ~flag.deadline /\ adapter.made
  BY <1>1 DEF IInv, Progress, InScenario, InLoop, Over, TypeOK, Flag
<1>4. adapter.ran[Id] = 0 /\ adapter.resets[Id] = 0
  BY <1>1, <1>2 DEF IInv, Ahead, Id
<1>5. sc \in Scenario /\ now \in Nat /\ sink \in Nat
  BY <1>1 DEF TypeOK
<1>6. \/ UNCHANGED sc /\ at' = "handler"
      \/ /\ sc' \in Scenario /\ ~sc'.reset /\ sc'.started = now /\ sc'.before = sink
         /\ at' \in {"evidence", "step"}
         /\ at' = "evidence" => sc'.outcome = "unavailable"
  <2>1. FirstOutcome \in Outcome \cup {"none"}
    BY DEF FirstOutcome, Outcome
  <2>2. CASE Raise /\ UNCHANGED sc
    BY <2>2 DEF Raise
  <2>3. CASE /\ sc' = [NoScenario EXCEPT !.started = now, !.before = sink,
                                         !.outcome = FirstOutcome]
             /\ at' = IF Id \in input.missing THEN "evidence" ELSE "step"
    <3>1. sc' = [started |-> now, step |-> 0, good |-> TRUE, outcome |-> FirstOutcome,
                 tried |-> FALSE, before |-> sink, refs |-> 0, reset |-> FALSE,
                 resetError |-> FALSE]
      BY <2>3 DEF NoScenario
    <3>2. sc' \in Scenario /\ ~sc'.reset /\ sc'.started = now /\ sc'.before = sink
          /\ sc'.outcome = FirstOutcome
      BY <1>5, <2>1, <3>1 DEF Scenario
    <3> QED BY <2>3, <3>2 DEF FirstOutcome
  <2> QED BY <2>2, <2>3 DEF StartScenario
<1>7. TypeOK'
  BY <1>1, <1>5, <1>6 DEF TypeOK
<1>8. Progress' /\ Finalization' /\ Over'
  BY <1>1, <1>3, <1>6
     DEF IInv, Progress, Finalization, Over, InLoop, InScenario
<1>9. Ahead'
  BY <1>1, <1>2, <1>6 DEF IInv, Ahead, InLoop, InScenario
<1>10. Current'
  <2>1. Id' = Id
    BY <1>1 DEF Id
  <2>2. sc.started <= now /\ sc.before <= sink
    BY DEF IInv, Current
  <2> QED BY <1>1, <1>4, <1>5, <1>6, <2>1, <2>2 DEF Current, InScenario, Outcome
<1>11. ResetOnce' /\ EvidenceComplete' /\ PassedInTime' /\ QualifiedIsComplete'
  BY <1>1, ResultsStand
<1> QED BY <1>7, <1>8, <1>9, <1>10, <1>11 DEF IInv

\* So does the evaluation of the assertions.
LEMMA JudgeStep == IInv /\ Judge => IInv'
<1> SUFFICES ASSUME IInv, Judge PROVE IInv'
  OBVIOUS
<1> USE DEF IInv, Judge, Report, Instant
<1>1. TypeOK'
  BY DEF TypeOK, Scenario, Outcome
<1>2. Progress' /\ Finalization' /\ Over'
  BY DEF Progress, Finalization, Over, InLoop, InScenario, Remaining, ScenarioDeadline
<1>3. Ahead'
  BY DEF Ahead, InLoop, InScenario
<1>4. Current'
  BY DEF Current, InScenario, Id, TypeOK, Scenario, Outcome
<1>5. ResetOnce' /\ EvidenceComplete' /\ PassedInTime' /\ QualifiedIsComplete'
  BY ResultsStand
<1> QED BY <1>1, <1>2, <1>3, <1>4, <1>5

\* So does an exception of the evidence provider, caught or not.
LEMMA EvidenceInvalidStep == IInv /\ EvidenceInvalid => IInv'
<1> SUFFICES ASSUME IInv, EvidenceInvalid PROVE IInv'
  OBVIOUS
<1> USE DEF IInv, EvidenceInvalid, Report, Raise, Instant
<1>1. TypeOK'
  BY DEF TypeOK, Scenario, Outcome
<1>2. Progress' /\ Finalization' /\ Over'
  BY DEF Progress, Finalization, Over, InLoop, InScenario, Remaining, ScenarioDeadline
<1>3. Ahead'
  BY DEF Ahead, InLoop, InScenario
<1>4. Current'
  BY DEF Current, InScenario, Id, TypeOK, Scenario, Outcome
<1>5. ResetOnce' /\ EvidenceComplete' /\ PassedInTime' /\ QualifiedIsComplete'
  BY ResultsStand
<1> QED BY <1>1, <1>2, <1>3, <1>4, <1>5

\* So does a payload that does not validate.
LEMMA PayloadInvalidStep == IInv /\ PayloadInvalid => IInv'
<1> SUFFICES ASSUME IInv, PayloadInvalid PROVE IInv'
  OBVIOUS
<1> USE DEF IInv, PayloadInvalid, Raise, Instant
<1>1. TypeOK'
  BY DEF TypeOK
<1>2. Progress' /\ Finalization' /\ Over'
  BY DEF Progress, Finalization, Over, InLoop, InScenario, Remaining, ScenarioDeadline
<1>3. Ahead' /\ Current'
  BY DEF Ahead, Current, InLoop, InScenario
<1>4. ResetOnce' /\ EvidenceComplete' /\ PassedInTime' /\ QualifiedIsComplete'
  BY ResultsStand
<1> QED BY <1>1, <1>2, <1>3, <1>4

\* So does a kill at any step.
LEMMA KillStep == IInv /\ Kill => IInv'
<1> SUFFICES ASSUME IInv, Kill PROVE IInv'
  OBVIOUS
<1> USE DEF IInv, Kill
<1>1. TypeOK'
  BY DEF TypeOK
<1>2. Progress' /\ Finalization' /\ Over'
  BY DEF Progress, Finalization, Over, InLoop, InScenario, Remaining, ScenarioDeadline
<1>3. Ahead' /\ Current'
  BY DEF Ahead, Current, InLoop, InScenario
<1>4. ResetOnce' /\ EvidenceComplete' /\ PassedInTime' /\ QualifiedIsComplete'
  BY ResultsStand
<1> QED BY <1>1, <1>2, <1>3, <1>4

(***************************************************************************)
(* _finalize_adapter: called once, or the lane was over.                   *)
(***************************************************************************)
LEMMA FinalizeAdapterLeads ==
  ASSUME TypeOK, NEW f \in Flag, NEW done, NEW raised, FinalizeAdapter(f, done, raised)
  PROVE  /\ now' \in Nat /\ now' >= now /\ flag' \in Flag /\ adapter' \in Adapter
         /\ at' \in {done, raised} /\ (at' = done => adapter'.finalized \/ done = raised)
         /\ flag'.attempted = f.attempted /\ flag'.deadline = f.deadline
         /\ flag'.silenced = f.silenced
         /\ adapter'.made = adapter.made /\ adapter'.ran = adapter.ran
         /\ adapter'.resets = adapter.resets
         /\ \/ flag'.spent /\ adapter'.finalizes = adapter.finalizes
            \/ adapter'.finalizes = adapter.finalizes + 1
<1>1. adapter \in Adapter /\ now \in Nat
  BY DEF TypeOK
<1>2. CASE /\ flag' = [f EXCEPT !.spent = TRUE] /\ at' = raised
           /\ UNCHANGED <<now, adapter>>
  <2>1. flag' \in Flag /\ flag'.spent /\ flag'.attempted = f.attempted
        /\ flag'.deadline = f.deadline /\ flag'.silenced = f.silenced
    BY <1>2 DEF Flag
  <2> QED BY <1>1, <1>2, <2>1
<1>3. CASE /\ Remaining(Lane) > 0
           /\ Takes(Shorter(FinalizeTime, Remaining(Lane)), f)
           /\ \E ok \in BOOLEAN :
                /\ adapter' = [adapter EXCEPT !.finalizes = @ + 1, !.finalized = ok]
                /\ at' = IF ok THEN done ELSE raised
  <2>1. Shorter(FinalizeTime, Remaining(Lane)) \in Nat
    BY <1>1, ConstantTypes DEF Shorter, Remaining
  <2>2. now' \in Nat /\ now' >= now /\ flag' \in Flag /\ SameFlags(f)
    BY <1>1, <1>3, <2>1, TimeMoves
  <2>3. PICK ok \in BOOLEAN :
            /\ adapter' = [adapter EXCEPT !.finalizes = @ + 1, !.finalized = ok]
            /\ at' = IF ok THEN done ELSE raised
    BY <1>3
  <2>4. /\ adapter' \in Adapter /\ adapter'.finalizes = adapter.finalizes + 1
        /\ adapter'.finalized = ok /\ adapter'.made = adapter.made
        /\ adapter'.ran = adapter.ran /\ adapter'.resets = adapter.resets
    <3>1. adapter.finalizes + 1 \in Nat
      BY <1>1 DEF Adapter
    <3> QED BY <1>1, <2>3, <3>1 DEF Adapter
  <2> QED BY <2>2, <2>3, <2>4 DEF SameFlags
<1> QED BY <1>2, <1>3 DEF FinalizeAdapter

\* The regular finalization preserves the invariant.
LEMMA FinalizeStep == IInv /\ Finalize => IInv'
<1> SUFFICES ASSUME IInv, Finalize PROVE IInv'
  OBVIOUS
<1>1. /\ TypeOK /\ at = "scenario" /\ cur > Len(input.selected)
      /\ UNCHANGED <<input, cur, sc, results, failures, sink, doc, exit>>
  BY DEF Finalize, IInv
<1>2. /\ exit = "none" /\ doc = "none" /\ ~flag.attempted /\ ~flag.deadline /\ adapter.made
      /\ adapter.finalizes = 0
  BY <1>1 DEF IInv, Progress, InScenario, InLoop, Over, TypeOK, Flag, Finalization
<1>3. flag \in Flag /\ adapter \in Adapter
  BY <1>1 DEF TypeOK
<1>4. Attempt \in Flag /\ Attempt.attempted /\ ~Attempt.deadline
  BY <1>2, <1>3 DEF Attempt, Flag
<1>5. /\ now' \in Nat /\ now' >= now /\ flag' \in Flag /\ adapter' \in Adapter
      /\ at' \in {"write", "handler"} /\ (at' = "write" => adapter'.finalized)
      /\ flag'.attempted /\ ~flag'.deadline
      /\ adapter'.made /\ adapter'.ran = adapter.ran /\ adapter'.resets = adapter.resets
      /\ adapter'.finalizes <= 1
      /\ adapter'.finalizes = 1 \/ flag'.spent \/ flag'.silenced
  <2>1. CASE Raise /\ flag' = [Attempt EXCEPT !.silenced = TRUE] /\ UNCHANGED <<now, adapter>>
    <3>1. flag' \in Flag /\ flag'.attempted /\ ~flag'.deadline /\ flag'.silenced
      BY <1>4, <2>1 DEF Flag
    <3> QED BY <1>1, <1>2, <2>1, <3>1 DEF Raise, TypeOK
  <2>2. CASE \E next \in {"write", "handler"} : FinalizeAdapter(Attempt, next, "handler")
    <3>1. PICK next \in {"write", "handler"} : FinalizeAdapter(Attempt, next, "handler")
      BY <2>2
    <3>2. /\ now' \in Nat /\ now' >= now /\ flag' \in Flag /\ adapter' \in Adapter
          /\ at' \in {next, "handler"} /\ (at' = next => adapter'.finalized \/ next = "handler")
          /\ flag'.attempted = Attempt.attempted /\ flag'.deadline = Attempt.deadline
          /\ adapter'.made = adapter.made /\ adapter'.ran = adapter.ran
          /\ adapter'.resets = adapter.resets
          /\ \/ flag'.spent /\ adapter'.finalizes = adapter.finalizes
             \/ adapter'.finalizes = adapter.finalizes + 1
      BY <1>1, <1>4, <3>1, FinalizeAdapterLeads
    <3> QED BY <1>2, <1>4, <3>2
  <2> QED BY <2>1, <2>2 DEF Finalize
<1>6. TypeOK'
  BY <1>1, <1>5 DEF TypeOK
<1>7. Progress' /\ Finalization' /\ Over'
  BY <1>1, <1>2, <1>5 DEF Progress, Finalization, Over, InLoop, InScenario
<1>8. Ahead' /\ Current'
  BY <1>1, <1>5 DEF IInv, Ahead, Current, InLoop, InScenario, TypeOK, Scenario
<1>9. ResetOnce' /\ EvidenceComplete' /\ PassedInTime' /\ QualifiedIsComplete'
  BY <1>1, <1>2, <1>5 DEF IInv, ResetOnce, EvidenceComplete, PassedInTime, QualifiedIsComplete
<1> QED BY <1>6, <1>7, <1>8, <1>9 DEF IInv

\* So does the handler, which finalizes only when nobody has tried.
LEMMA HandleStep == IInv /\ Handle => IInv'
<1> SUFFICES ASSUME IInv, Handle PROVE IInv'
  OBVIOUS
<1>1. /\ TypeOK /\ at = "handler" /\ exit' = "error" /\ exit = "none"
      /\ UNCHANGED <<input, cur, sc, results, failures, sink, doc>>
  BY DEF Handle, IInv, Progress
<1>2. flag \in Flag /\ adapter \in Adapter /\ now \in Nat
  BY <1>1 DEF TypeOK
<1>3. CASE adapter.made /\ ~flag.attempted
  <2>1. FinalizeAdapter(Attempt, "done", "done")
    BY <1>3 DEF Handle
  <2>2. Attempt \in Flag /\ Attempt.attempted /\ Attempt.deadline = flag.deadline
    BY <1>2 DEF Attempt, Flag
  <2>3. adapter.finalizes = 0 /\ doc = "none"
    BY <1>1, <1>3 DEF IInv, Finalization, Progress, TypeOK
  <2>4. /\ now' \in Nat /\ now' >= now /\ flag' \in Flag /\ adapter' \in Adapter /\ at' = "done"
        /\ flag'.attempted /\ flag'.deadline = flag.deadline
        /\ adapter'.ran = adapter.ran /\ adapter'.resets = adapter.resets
        /\ adapter'.finalizes <= 1
        /\ adapter'.finalizes = 1 \/ flag'.spent \/ flag'.silenced
    BY <1>1, <2>1, <2>2, <2>3, FinalizeAdapterLeads
  <2>5. TypeOK'
    BY <1>1, <2>4 DEF TypeOK
  <2>6. Progress' /\ Finalization' /\ Over'
    BY <1>1, <2>3, <2>4 DEF Progress, Finalization, Over, InLoop, InScenario
  <2>7. Ahead' /\ Current'
    BY <1>1, <2>4 DEF IInv, Ahead, Current, InLoop, InScenario, TypeOK, Scenario
  <2>8. ResetOnce' /\ EvidenceComplete' /\ PassedInTime' /\ QualifiedIsComplete'
    BY <1>1, <2>3, <2>4 DEF IInv, ResetOnce, EvidenceComplete, PassedInTime, QualifiedIsComplete
  <2> QED BY <2>5, <2>6, <2>7, <2>8 DEF IInv
<1>4. CASE ~(adapter.made /\ ~flag.attempted)
  <2>1. at' = "done" /\ UNCHANGED <<adapter, now, flag>>
    BY <1>4 DEF Handle, Instant
  <2>2. TypeOK'
    BY <1>1, <2>1 DEF TypeOK
  <2>3. Progress' /\ Finalization' /\ Over'
    BY <1>1, <1>4, <2>1 DEF IInv, Progress, Finalization, Over, InLoop, InScenario
  <2>4. Ahead' /\ Current'
    BY <1>1, <2>1 DEF IInv, Ahead, Current, InLoop, InScenario
  <2>5. ResetOnce' /\ EvidenceComplete' /\ PassedInTime' /\ QualifiedIsComplete'
    BY <1>1, <2>1, ResultsStand
  <2> QED BY <2>2, <2>3, <2>4, <2>5 DEF IInv
<1> QED BY <1>3, <1>4

(***************************************************************************)
(* The coverage contract, read from the results alone, implies that the    *)
(* run was complete.                                                       *)
(***************************************************************************)
LEMMA CoverageIsComplete ==
  ASSUME IInv, at = "write", Coverage
  PROVE  Complete
<1>1. ~flag.deadline /\ adapter.finalized
  BY DEF IInv, Over, Progress, TypeOK, Flag
<1> DEFINE observed == {results[i].id : i \in {j \in DOMAIN results :
                                                    results[j].outcome = "unavailable"}}
<1>2. /\ {results[i].id : i \in DOMAIN results} = Catalog
      /\ \A i \in DOMAIN results : results[i].outcome \in {"passed", "unavailable"}
      /\ observed = Limits
      /\ Len(results) = Cardinality(Catalog) /\ failures = 0
  BY DEF Coverage
<1>3. ASSUME NEW s \in Catalog
      PROVE  /\ \E i \in DOMAIN results :
                    /\ results[i].id = s
                    /\ results[i].outcome = IF s \in Limits THEN "unavailable" ELSE "passed"
             /\ adapter.resets[s] = 1
  <2>1. PICK i \in DOMAIN results : results[i].id = s
    BY <1>2
  <2>2. adapter.resets[s] = 1
    BY <1>1, <2>1 DEF IInv, ResetOnce
  <2>3. CASE s \in Limits
    <3>1. PICK j \in DOMAIN results : results[j].outcome = "unavailable" /\ results[j].id = s
      BY <1>2, <2>3
    <3> QED BY <2>2, <2>3, <3>1
  <2>4. CASE s \notin Limits
    <3>1. results[i].outcome # "unavailable"
      BY <1>2, <2>1, <2>4
    <3> QED BY <1>2, <2>1, <2>2, <2>4, <3>1
  <2> QED BY <2>3, <2>4
<1> QED BY <1>1, <1>2, <1>3 DEF Complete

\* Writing the document preserves the invariant, at whatever point it fails.
LEMMA WriteStep == IInv /\ Write => IInv'
<1> SUFFICES ASSUME IInv, Write PROVE IInv'
  OBVIOUS
<1>1. /\ TypeOK /\ at = "write"
      /\ UNCHANGED <<input, cur, sc, results, failures, adapter, sink>>
  BY DEF Write, IInv
<1>2. exit = "none" /\ doc = "none" /\ flag.attempted /\ ~flag.deadline
  BY <1>1 DEF IInv, Progress, InScenario, InLoop, Over, TypeOK, Flag
<1>3. flag \in Flag /\ now \in Nat
  BY <1>1 DEF TypeOK
<1>4. /\ now' \in Nat /\ now' >= now /\ flag' \in Flag /\ SameFlags(flag)
      /\ at' \in {"handler", "done"} /\ doc' \in {"none", "good", "bad"}
      /\ doc' = "good" => Coverage
      /\ \/ at' = "handler" /\ exit' = "none"
         \/ at' = "done" /\ exit' = "unqualified"
         \/ at' = "done" /\ exit' = "qualified" /\ doc' = "good" /\ now' <= Lane
  <2>1. CASE Raise /\ Instant /\ UNCHANGED <<doc, exit>>
    <3>1. now' = now /\ flag' = flag /\ doc' = doc /\ exit' = exit /\ at' = "handler"
      BY <2>1 DEF Raise, Instant
    <3>2. now' \in Nat /\ now' >= now
      BY <1>3, <3>1
    <3>3. flag' \in Flag
      BY <1>3, <3>1
    <3>4. SameFlags(flag)
      BY <3>1 DEF SameFlags
    <3>5. at' \in {"handler", "done"} /\ doc' \in {"none", "good", "bad"}
      BY <1>2, <3>1
    <3>6. doc' = "good" => Coverage
      BY <1>2, <3>1
    <3>7. at' = "handler" /\ exit' = "none"
      BY <1>2, <3>1
    <3> QED BY <3>2, <3>3, <3>4, <3>5, <3>6, <3>7
  <2>2. CASE Takes(WriteTime, flag) /\ doc' \in {doc, Status} /\ Raise /\ UNCHANGED exit
    <3>1. now' \in Nat /\ now' >= now /\ flag' \in Flag /\ SameFlags(flag)
      BY <1>3, <2>2, ConstantTypes, TimeMoves
    <3> QED BY <1>2, <2>2, <3>1 DEF Raise, Status
  <2>3. CASE /\ Takes(WriteTime, flag) /\ doc' = Status
             /\ IF now' > Lane THEN Raise /\ UNCHANGED exit
                ELSE at' = "done" /\ exit' = Qualification
    <3>1. now' \in Nat /\ now' >= now /\ flag' \in Flag /\ SameFlags(flag)
      BY <1>3, <2>3, ConstantTypes, TimeMoves
    <3> QED BY <1>2, <2>3, <3>1, ConstantTypes DEF Raise, Status, Qualification
  <2> QED BY <2>1, <2>2, <2>3 DEF Write
<1>5. TypeOK'
  BY <1>1, <1>4 DEF TypeOK
<1>6. Progress' /\ Finalization' /\ Over'
  BY <1>1, <1>2, <1>4 DEF IInv, Progress, Finalization, Over, InLoop, InScenario, SameFlags
<1>7. Ahead' /\ Current'
  BY <1>1, <1>4 DEF IInv, Ahead, Current, InLoop, InScenario, TypeOK, Scenario
<1>8. ResetOnce' /\ EvidenceComplete' /\ PassedInTime'
  BY <1>1, <1>4 DEF IInv, ResetOnce, EvidenceComplete, PassedInTime, SameFlags
<1>9. QualifiedIsComplete'
  <2>1. doc' = "good" => Complete'
    BY <1>1, <1>4, CoverageIsComplete DEF Complete
  <2> QED BY <1>4, <2>1 DEF QualifiedIsComplete
<1> QED BY <1>5, <1>6, <1>7, <1>8, <1>9 DEF IInv

(***************************************************************************)
(* The reset of the current scenario.                                      *)
(***************************************************************************)
\* Two counts that differ in the current scenario only.
SameOthers(f, g) == \A s \in Catalog \ {Id} : f[s] = g[s]

\* The evidence provider preserves the invariant, also when it is asked twice.
LEMMA ResetStep == IInv /\ Reset => IInv'
<1> SUFFICES ASSUME IInv, Reset PROVE IInv'
  OBVIOUS
<1>1. /\ TypeOK /\ at = "evidence" /\ at' = "report" /\ InScenario
      /\ UNCHANGED <<input, cur, results, failures, doc, exit>>
  BY DEF Reset, IInv, InScenario
<1>2. /\ cur \in 1..Len(input.selected) /\ Id \in Catalog
      /\ \A k \in (cur + 1)..Len(input.selected) :
            input.selected[k] \in Catalog /\ input.selected[k] # Id
      /\ \A i \in DOMAIN results : results[i].id \in Catalog /\ results[i].id # Id
      /\ exit = "none" /\ doc = "none" /\ ~flag.attempted /\ adapter.made
      /\ sc.started \in Nat /\ sc.before \in Nat /\ sink \in Nat /\ now \in Nat
      /\ sc.started <= now /\ sc.before <= sink /\ sink = sc.before + adapter.ran[Id]
      /\ adapter.ran \in [Catalog -> Nat] /\ adapter.resets \in [Catalog -> Nat]
  BY <1>1, Within
<1>3. sc \in Scenario /\ flag \in Flag /\ adapter \in Adapter /\ sc.outcome \in Outcome
  BY <1>1 DEF TypeOK, IInv, Current
<1>4. /\ sc.reset => adapter.resets[Id] = 1 \/ flag.deadline
      /\ ~sc.reset => adapter.resets[Id] = 0
      /\ flag.deadline => Remaining(ScenarioDeadline) = 0
  BY <1>1 DEF IInv, Current, Over
<1>5. ASSUME NEW e \in BOOLEAN, Frozen(e), sink' \in Nat, sink' >= sink
      PROVE  /\ sc' \in Scenario /\ sc'.reset /\ sc'.outcome \in Outcome
             /\ sc'.started = sc.started /\ sc'.before = sc.before
             /\ sc'.refs = sink' - sc.before
  <2>1. sink' - sc.before \in Nat
    BY <1>2, <1>5
  <2> QED BY <1>3, <1>5, <2>1 DEF Frozen, References, Scenario
<1>6. sc.resetError \in BOOLEAN
  BY <1>3 DEF Scenario
<1>7. Id' = Id
  BY <1>1 DEF Id
<1>8. /\ now' \in Nat /\ now' >= now /\ sink' \in Nat /\ sink' >= sink
      /\ flag' \in Flag /\ flag'.attempted = flag.attempted
      /\ flag'.silenced = flag.silenced /\ flag'.spent = flag.spent
      /\ flag'.deadline => Remaining(ScenarioDeadline)' = 0
      /\ flag.deadline => flag'.deadline
      /\ sc' \in Scenario /\ sc'.reset /\ sc'.outcome \in Outcome
      /\ sc'.started = sc.started /\ sc'.before = sc.before
      /\ sc'.refs = sink' - sc.before
      /\ adapter' \in Adapter /\ adapter'.made = adapter.made
      /\ adapter'.finalizes = adapter.finalizes /\ adapter'.finalized = adapter.finalized
      /\ SameOthers(adapter'.ran, adapter.ran) /\ SameOthers(adapter'.resets, adapter.resets)
      /\ sink' = sc.before + adapter'.ran[Id]
      /\ adapter'.resets[Id] <= 1 /\ (adapter'.resets[Id] = 1 \/ flag'.deadline)
  <2>1. CASE sc.reset /\ Instant /\ UNCHANGED <<adapter, sink>> /\ Frozen(sc.resetError)
    <3>1. adapter.resets[Id] <= 1
      BY <1>2 DEF IInv, ResetOnce
    <3>2. Remaining(ScenarioDeadline)' = Remaining(ScenarioDeadline)
      BY <2>1 DEF Instant, Remaining, ScenarioDeadline
    <3>3. /\ sc' \in Scenario /\ sc'.reset /\ sc'.outcome \in Outcome
          /\ sc'.started = sc.started /\ sc'.before = sc.before
          /\ sc'.refs = sink' - sc.before
      BY <1>2, <1>5, <1>6, <2>1
    <3>4. SameOthers(adapter'.ran, adapter.ran) /\ SameOthers(adapter'.resets, adapter.resets)
      BY <2>1 DEF SameOthers
    <3>5. now' = now /\ sink' = sink /\ flag' = flag /\ adapter' = adapter
      BY <2>1 DEF Instant
    <3>6. sink' = sc.before + adapter'.ran[Id] /\ sink' \in Nat /\ sink' >= sink
      BY <1>2, <3>5
    <3>7. adapter'.resets[Id] <= 1 /\ (adapter'.resets[Id] = 1 \/ flag'.deadline)
      BY <1>4, <2>1, <3>1, <3>5
    <3>8. now' \in Nat /\ now' >= now
      BY <1>2, <3>5
    <3>9. /\ flag' \in Flag /\ flag'.attempted = flag.attempted
          /\ flag'.silenced = flag.silenced /\ flag'.spent = flag.spent
          /\ flag.deadline => flag'.deadline
      BY <1>3, <3>5
    <3>10. flag'.deadline => Remaining(ScenarioDeadline)' = 0
      BY <1>4, <3>2, <3>5
    <3>11. /\ adapter' \in Adapter /\ adapter'.made = adapter.made
           /\ adapter'.finalizes = adapter.finalizes /\ adapter'.finalized = adapter.finalized
      BY <1>3, <3>5
    <3> QED BY <3>3, <3>4, <3>6, <3>7, <3>8, <3>9, <3>10, <3>11
  <2>2. CASE /\ ~sc.reset /\ Remaining(ScenarioDeadline) = 0
             /\ UNCHANGED <<now, adapter, sink>>
             /\ flag' = [flag EXCEPT !.deadline = TRUE] /\ Frozen(TRUE)
    <3>1. flag' \in Flag /\ flag'.deadline /\ flag'.attempted = flag.attempted
          /\ flag'.silenced = flag.silenced /\ flag'.spent = flag.spent
      BY <1>3, <2>2 DEF Flag
    <3>2. Remaining(ScenarioDeadline)' = 0
      BY <2>2 DEF Remaining, ScenarioDeadline
    <3>3. /\ sc' \in Scenario /\ sc'.reset /\ sc'.outcome \in Outcome
          /\ sc'.started = sc.started /\ sc'.before = sc.before
          /\ sc'.refs = sink' - sc.before
      <4>1. sink' \in Nat /\ sink' >= sink /\ TRUE \in BOOLEAN
        BY <1>2, <2>2
      <4> QED BY <1>5, <2>2, <4>1
    <3>4. SameOthers(adapter'.ran, adapter.ran) /\ SameOthers(adapter'.resets, adapter.resets)
      BY <2>2 DEF SameOthers
    <3>5. now' = now /\ sink' = sink /\ adapter' = adapter
      BY <2>2
    <3>6. sink' = sc.before + adapter'.ran[Id] /\ sink' \in Nat /\ sink' >= sink
      BY <1>2, <3>5
    <3>7. adapter'.resets[Id] <= 1
      BY <1>4, <2>2, <3>5
    <3>8. now' \in Nat /\ now' >= now
      BY <1>2, <3>5
    <3>9. /\ adapter' \in Adapter /\ adapter'.made = adapter.made
          /\ adapter'.finalizes = adapter.finalizes /\ adapter'.finalized = adapter.finalized
      BY <1>3, <3>5
    <3> QED BY <3>1, <3>2, <3>3, <3>4, <3>6, <3>7, <3>8, <3>9
  <2>3. CASE /\ ~sc.reset /\ Remaining(ScenarioDeadline) > 0
             /\ Takes(Shorter(ResetTime, Remaining(ScenarioDeadline)), flag)
             /\ adapter' = [adapter EXCEPT !.resets[Id] = @ + 1, !.ran[Id] = @ + 1]
             /\ sink' = sink + 1
             /\ \E raises \in BOOLEAN : Frozen(raises)
    <3>1. Shorter(ResetTime, Remaining(ScenarioDeadline)) \in Nat
      BY <1>2, ConstantTypes DEF Shorter, Remaining, ScenarioDeadline
    <3>2. now' \in Nat /\ now' >= now /\ flag' \in Flag /\ SameFlags(flag)
      BY <1>2, <1>3, <2>3, <3>1, TimeMoves
    <3>3. ~flag.deadline
      BY <1>3, <1>4, <2>3 DEF Flag
    <3> DEFINE ran == [adapter.ran EXCEPT ![Id] = @ + 1]
               resets == [adapter.resets EXCEPT ![Id] = @ + 1]
    <3>4. /\ ran \in [Catalog -> Nat] /\ ran[Id] = adapter.ran[Id] + 1
          /\ SameOthers(ran, adapter.ran)
          /\ resets \in [Catalog -> Nat] /\ resets[Id] = 1
          /\ SameOthers(resets, adapter.resets)
      BY <1>2, <1>4, <2>3, OneMore DEF SameOthers
    <3>5. adapter' = [adapter EXCEPT !.resets = resets, !.ran = ran]
      BY <1>3, <2>3 DEF Adapter
    <3> HIDE DEF ran, resets
    <3>6. /\ adapter' \in Adapter /\ adapter'.made = adapter.made
          /\ adapter'.finalizes = adapter.finalizes /\ adapter'.finalized = adapter.finalized
          /\ adapter'.ran = ran /\ adapter'.resets = resets
      BY <1>3, <3>4, <3>5 DEF Adapter
    <3>7. sink' \in Nat /\ sink' >= sink
      BY <1>2, <2>3
    <3>8. /\ sc' \in Scenario /\ sc'.reset /\ sc'.outcome \in Outcome
          /\ sc'.started = sc.started /\ sc'.before = sc.before
          /\ sc'.refs = sink' - sc.before
      BY <1>5, <2>3, <3>7
    <3>9. sink' = sc.before + ran[Id]
      <4>1. adapter.ran[Id] \in Nat
        BY <1>2
      <4> QED BY <1>2, <2>3, <3>4, <4>1
    <3> QED BY <3>2, <3>3, <3>4, <3>6, <3>7, <3>8, <3>9 DEF SameFlags
  <2> QED BY <2>1, <2>2, <2>3 DEF Reset, ResetNow
<1>9. TypeOK'
  BY <1>1, <1>8 DEF TypeOK
<1>10. Progress' /\ Finalization' /\ Over'
  BY <1>1, <1>2, <1>8 DEF IInv, Progress, Finalization, Over, InLoop, InScenario
<1>11. Ahead'
  BY <1>1, <1>2, <1>8 DEF IInv, Ahead, InLoop, InScenario, SameOthers
<1>12. Current'
  <2>1. adapter'.ran[Id] \in Nat
    BY <1>2, <1>8 DEF Adapter
  <2> QED BY <1>1, <1>2, <1>7, <1>8, <2>1 DEF Current, InScenario
<1>13. ResetOnce' /\ PassedInTime' /\ QualifiedIsComplete'
  BY <1>1, <1>2, <1>8 DEF IInv, ResetOnce, PassedInTime, QualifiedIsComplete, SameOthers
<1>14. EvidenceComplete'
  BY <1>1, <1>2, <1>8 DEF IInv, EvidenceComplete, SameOthers
<1> QED BY <1>9, <1>10, <1>11, <1>12, <1>13, <1>14 DEF IInv

(***************************************************************************)
(* The result of the current scenario is appended to those before it.      *)
(***************************************************************************)
\* Keeping a result preserves the invariant.
LEMMA FinishScenarioStep == IInv /\ FinishScenario => IInv'
<1> SUFFICES ASSUME IInv, FinishScenario PROVE IInv'
  OBVIOUS
<1>1. /\ TypeOK /\ at = "report" /\ InScenario
      /\ input' = input /\ adapter' = adapter /\ sink' = sink /\ doc' = doc /\ exit' = exit
  BY DEF FinishScenario, IInv, InScenario
<1>2. /\ cur \in 1..Len(input.selected) /\ Id \in Catalog
      /\ \A k \in (cur + 1)..Len(input.selected) :
            input.selected[k] \in Catalog /\ input.selected[k] # Id
      /\ \A i \in DOMAIN results : results[i].id \in Catalog /\ results[i].id # Id
      /\ exit = "none" /\ doc = "none" /\ ~flag.attempted /\ adapter.made
      /\ sc.started \in Nat /\ sc.before \in Nat /\ sink \in Nat /\ now \in Nat
      /\ sc.started <= now /\ sc.before <= sink /\ sink = sc.before + adapter.ran[Id]
  BY <1>1, Within
<1>3. /\ sc \in Scenario /\ flag \in Flag /\ sc.outcome \in Outcome
      /\ results \in Seq(Result) /\ failures \in Nat
  BY <1>1 DEF TypeOK, IInv, Current
<1>4. /\ sc.refs = adapter.ran[Id] /\ (adapter.resets[Id] = 1 \/ flag.deadline)
      /\ flag.deadline => Remaining(ScenarioDeadline) = 0
  BY <1>1 DEF IInv, Current, Over
<1> DEFINE r == [id |-> Id, outcome |-> FinalOutcome,
                 refs |-> sc.refs, time |-> now - sc.started]
<1>5. r \in Result
  <2>1. FinalOutcome \in Outcome
    BY <1>3 DEF FinalOutcome, Outcome
  <2>2. sc.refs \in Nat /\ now - sc.started \in Nat
    BY <1>2, <1>3 DEF Scenario
  <2> QED BY <1>2, <2>1, <2>2 DEF Result
<1>6. r.outcome = "passed" => r.time <= Duration[Id]
  <2>1. r.outcome = "passed" => ~(now - sc.started > Duration[Id])
    BY DEF FinalOutcome, Expired
  <2>2. Duration[Id] \in Nat
    BY <1>2, ConstantTypes
  <2> QED BY <1>2, <2>1, <2>2
<1>7. r.id = Id /\ r.refs = adapter.ran[Id]
  BY <1>4
<1>8. results' = Append(results, r)
  BY DEF FinishScenario
<1> HIDE DEF r
<1>9. /\ results' \in Seq(Result)
      /\ \A i \in DOMAIN results' : (i \in DOMAIN results /\ results'[i] = results[i])
                                    \/ results'[i] = r
  BY <1>3, <1>5, <1>8
<1>10. now' = now /\ failures' \in Nat /\ flag' \in Flag /\ flag'.attempted = flag.attempted
       /\ flag'.silenced = flag.silenced /\ flag'.spent = flag.spent
       /\ (flag.deadline => flag'.deadline)
  <2>1. failures' \in Nat
    <3>1. failures' = failures + (IF sc.resetError THEN 1 ELSE 0)
      BY DEF FinishScenario
    <3> QED BY <1>3, <3>1
  <2>2. CASE flag' = [flag EXCEPT !.deadline = TRUE] /\ now' = now
    <3>1. /\ flag' \in Flag /\ flag'.attempted = flag.attempted
          /\ flag'.silenced = flag.silenced /\ flag'.spent = flag.spent /\ flag'.deadline
      BY <1>3, <2>2 DEF Flag
    <3> QED BY <2>1, <2>2, <3>1
  <2>3. CASE flag' = flag /\ now' = now
    BY <1>3, <2>1, <2>3
  <2> QED BY <2>2, <2>3 DEF FinishScenario, RaiseDeadline, Instant
<1>11. \/ at' = "handler" /\ cur' = cur /\ sc' = sc
       \/ /\ at' = "scenario" /\ cur' = cur + 1 /\ sc' = NoScenario
          /\ flag' = flag /\ ~flag.deadline
          /\ Remaining(ScenarioDeadline) > 0
  <2>1. Remaining(ScenarioDeadline) \in Nat
    BY <1>2, ConstantTypes DEF Remaining, ScenarioDeadline
  <2>2. CASE Remaining(ScenarioDeadline) = 0
    BY <2>2 DEF FinishScenario, RaiseDeadline, Raise
  <2>3. CASE Remaining(ScenarioDeadline) # 0
    <3>1. Remaining(ScenarioDeadline) > 0 /\ ~flag.deadline
      BY <1>4, <2>1, <2>3
    <3>2. \/ at' = "scenario" /\ cur' = cur + 1 /\ sc' = NoScenario /\ flag' = flag
          \/ at' = "handler" /\ cur' = cur /\ sc' = sc
      BY <2>3 DEF FinishScenario, Raise, Instant
    <3> QED BY <3>1, <3>2
  <2> QED BY <2>2, <2>3
<1>12. NoScenario \in Scenario
  BY DEF NoScenario, Scenario
<1>13. TypeOK'
  <2>1. cur' \in 1..(Len(input.selected) + 1)
    BY <1>2, <1>11
  <2>2. sc' \in Scenario
    BY <1>3, <1>11, <1>12
  <2> QED BY <1>1, <1>2, <1>9, <1>10, <1>11, <2>1, <2>2 DEF TypeOK
<1>14. Progress'
  <2>1. CASE at' = "handler"
    BY <1>1, <1>2, <1>10, <2>1 DEF Progress, InLoop, InScenario
  <2>2. CASE /\ at' = "scenario" /\ Remaining(ScenarioDeadline) > 0 /\ flag' = flag
    <3>1. Remaining(ScenarioDeadline)' > 0
      BY <1>10, <2>2 DEF Remaining, ScenarioDeadline
    <3> QED BY <1>1, <1>2, <1>10, <2>2, <3>1 DEF Progress, InLoop, InScenario
  <2> QED BY <1>11, <2>1, <2>2
<1>15. Finalization'
  BY <1>1, <1>10 DEF IInv, Finalization
<1>16. Over'
  BY <1>1, <1>2, <1>10, <1>11 DEF IInv, Over
<1>17. Ahead'
  <2>1. CASE at' = "handler"
    BY <2>1 DEF Ahead, InLoop, InScenario
  <2>2. CASE at' = "scenario" /\ cur' = cur + 1
    <3>1. \A k \in (cur + 1)..Len(input.selected) :
            adapter.ran[input.selected[k]] = 0 /\ adapter.resets[input.selected[k]] = 0
      BY <1>1 DEF IInv, Ahead
    <3>2. \A i \in DOMAIN results, k \in (cur + 1)..Len(input.selected) :
            results[i].id # input.selected[k]
      BY <1>1, <1>2 DEF IInv, Ahead, InLoop
    <3>3. \A i \in DOMAIN results', k \in (cur + 1)..Len(input.selected) :
            results'[i].id # input.selected[k]
      BY <1>2, <1>7, <1>9, <3>2
    <3> QED BY <1>1, <2>2, <3>1, <3>3 DEF Ahead, InLoop, InScenario
  <2> QED BY <1>11, <2>1, <2>2
<1>18. Current'
  <2>1. CASE at' = "handler" /\ sc' = sc
    BY <1>1, <1>2, <1>10, <2>1 DEF Current, InScenario
  <2>2. CASE at' = "scenario" /\ sc' = NoScenario
    <3>1. sc'.started = 0 /\ sc'.before = 0
      BY <2>2 DEF NoScenario
    <3> QED BY <1>1, <1>2, <1>10, <2>2, <3>1 DEF Current, InScenario
  <2> QED BY <1>11, <2>1, <2>2
<1>19. ResetOnce'
  BY <1>1, <1>4, <1>7, <1>9, <1>10 DEF IInv, ResetOnce
<1>20. EvidenceComplete'
  BY <1>1, <1>7, <1>9 DEF IInv, EvidenceComplete
<1>21. PassedInTime'
  BY <1>6, <1>7, <1>9 DEF IInv, PassedInTime
<1>22. QualifiedIsComplete'
  BY <1>1, <1>2 DEF QualifiedIsComplete
<1> QED BY <1>13, <1>14, <1>15, <1>16, <1>17, <1>18, <1>19, <1>20, <1>21, <1>22 DEF IInv

----------------------------------------------------------------------------
(***************************************************************************)
(* Time: what _require_lane_time has reserved is enough while no operation *)
(* takes longer than it may.                                               *)
(***************************************************************************)
\* Without an overrun an operation keeps to its limit and leaves the flags.
LEMMA KeepsTime ==
  ASSUME NEW limit \in Nat, NEW f \in Flag, now \in Nat, Takes(limit, f), flag'.overruns = 0
  PROVE  f.overruns = 0 /\ flag' = f /\ now' \in Nat /\ now' <= now + limit
<1>1. CASE \E d \in 0..limit : now' = now + d /\ flag' = f
  BY <1>1
<1>2. CASE f.overruns < MaxOverruns /\ now' = now + limit + 1
           /\ flag' = [f EXCEPT !.overruns = @ + 1]
  <2>1. flag'.overruns = f.overruns + 1 /\ f.overruns \in Nat
    BY <1>2 DEF Flag
  <2> QED BY <2>1
<1> QED BY <1>1, <1>2 DEF Takes

\* Outside of a scenario only the flags count.
LEMMA ElsewherePunctual ==
  ASSUME Punctual, flag'.overruns = 0 => flag.overruns = 0 /\ flag'.deadline = flag.deadline,
         at' \notin {"step", "evidence", "report"}
  PROVE  Punctual'
BY DEF Punctual, InScenario

\* Inside of one its start, its limit and the flags stand still.
LEMMA SameScenario ==
  ASSUME IInv, InScenario
  PROVE  /\ now \in Nat /\ sc \in Scenario /\ flag \in Flag
         /\ Id \in Catalog /\ Allowed \in Nat /\ ScenarioDeadline \in Int
         /\ Steps[Id] \in Seq(Nat) /\ Len(Steps[Id]) \in Nat /\ Duration[Id] \in Nat
         /\ (UNCHANGED <<input, cur>> => Id' = Id /\ Allowed' = Allowed)
         /\ ScenarioDeadline' = ScenarioDeadline
<1>1. now \in Nat /\ sc \in Scenario /\ flag \in Flag
  BY DEF IInv, TypeOK
<1>2. Id \in Catalog
  BY Within
<1>3. Duration[Id] \in Nat /\ Steps[Id] \in Seq(Nat)
  BY <1>2, ConstantTypes
<1>4. Allowed \in Nat /\ ScenarioDeadline \in Int
  BY <1>3, ConstantTypes DEF Allowed, ScenarioDeadline
<1> QED BY <1>1, <1>2, <1>3, <1>4 DEF Id, Allowed, ScenarioDeadline

\* Before the first step the clock has not moved.
LEMMA StartPunctual == IInv /\ Punctual /\ StartScenario => Punctual'
<1> SUFFICES ASSUME IInv, Punctual, StartScenario, flag'.overruns = 0 PROVE Punctual'
  BY DEF Punctual
<1>1. UNCHANGED <<now, flag, input, cur>> /\ now \in Nat /\ cur <= Len(input.selected)
  BY DEF StartScenario, Instant, IInv, TypeOK
<1>2. Id \in Catalog /\ Id' = Id /\ Allowed' = Allowed /\ ScenarioDeadline' = ScenarioDeadline
  BY <1>1, CurrentId DEF IInv, Id, Allowed, ScenarioDeadline
<1>3. Allowed \in Nat /\ ScenarioDeadline \in Int /\ Duration[Id] \in Nat
      /\ Len(Steps[Id]) \in Nat
  BY <1>2, ConstantTypes DEF Allowed, ScenarioDeadline
<1>4. ~flag.deadline
  BY <1>1 DEF Punctual
<1>5. CASE at' = "handler"
  BY <1>1, <1>5, ElsewherePunctual
<1>6. CASE /\ LaneTime(ScenarioDeadline, ResetTime + Allowed)
           /\ sc' = [NoScenario EXCEPT !.started = now, !.before = sink, !.outcome = FirstOutcome]
           /\ at' = IF Id \in input.missing THEN "evidence" ELSE "step"
  <2>1. now + ResetTime + Allowed < ScenarioDeadline
    BY <1>1, <1>3, <1>6, ConstantTypes DEF LaneTime, Remaining
  <2>2. sc'.started = now /\ sc'.step = 0 /\ sc'.reset = FALSE
    BY <1>6 DEF NoScenario
  <2>3. sc'.started + Allowed' + ResetTime < ScenarioDeadline'
    BY <1>1, <1>2, <1>3, <2>1, <2>2, ConstantTypes
  <2>4. ASSUME at' = "step"
        PROVE  /\ Id' \notin input'.missing /\ sc'.step <= Len(Steps[Id'])
               /\ \A sum \in [0..Len(Steps[Id']) -> 0..Duration[Id']] :
                     PartialSums(Id', sum) => now' <= sc'.started + sum[sc'.step]
    BY <1>1, <1>2, <1>3, <1>6, <2>2, <2>4 DEF PartialSums
  <2>5. now' <= sc'.started + Allowed' + (IF sc'.reset THEN ResetTime ELSE 0)
    BY <1>1, <1>2, <1>3, <2>2
  <2>6. ~flag'.deadline
    BY <1>1, <1>4
  <2> QED BY <2>3, <2>4, <2>5, <2>6 DEF Punctual
<1> QED BY <1>5, <1>6 DEF StartScenario, Raise, Allowed

\* Wherever the steps end, they have kept to the scenario's bound.
LEMMA StepsWithin ==
  ASSUME IInv, Punctual, at = "step", flag.overruns = 0
  PROVE  /\ now <= sc.started + Allowed /\ Allowed = Duration[Id]
         /\ \E sum \in [0..Len(Steps[Id]) -> 0..Duration[Id]] :
                PartialSums(Id, sum) /\ now <= sc.started + sum[sc.step]
<1>1. InScenario /\ Id \notin input.missing /\ Allowed = Duration[Id] /\ sc.step <= Len(Steps[Id])
  BY DEF Punctual, InScenario, Allowed
<1>2. /\ Id \in Catalog /\ now \in Nat /\ sc \in Scenario /\ Duration[Id] \in Nat
      /\ Len(Steps[Id]) \in Nat
  BY <1>1, SameScenario
<1>3. PICK sum \in [0..Len(Steps[Id]) -> 0..Duration[Id]] : PartialSums(Id, sum)
  BY <1>2, StepAssumption
<1>4. now <= sc.started + sum[sc.step]
  BY <1>3 DEF Punctual
<1>5. sc.step \in 0..Len(Steps[Id]) /\ sc.started \in Nat
  BY <1>1, <1>2 DEF Scenario
<1>6. sum[sc.step] \in 0..Duration[Id]
  BY <1>3, <1>5
<1>7. now <= sc.started + Allowed
  BY <1>1, <1>2, <1>4, <1>5, <1>6
<1> QED BY <1>1, <1>3, <1>4, <1>7

\* A result that is handed on at once is as punctual as what led to it.
LEMMA ReportPunctual ==
  ASSUME IInv, Punctual, flag'.overruns = 0, flag.overruns = 0, flag' = flag, InScenario,
         UNCHANGED <<input, cur>>, at' \in {"evidence", "report"},
         sc'.started = sc.started, NEW spare \in Nat, now' \in Nat,
         now' <= sc.started + Allowed + spare,
         spare = IF sc'.reset THEN ResetTime ELSE 0
  PROVE  Punctual'
<1>1. Allowed' = Allowed /\ ScenarioDeadline' = ScenarioDeadline
  BY SameScenario
<1>2. ~flag'.deadline /\ sc'.started + Allowed' + ResetTime < ScenarioDeadline'
  BY <1>1 DEF Punctual
<1>3. now' <= sc'.started + Allowed' + (IF sc'.reset THEN ResetTime ELSE 0)
  BY <1>1
<1> QED BY <1>2, <1>3 DEF Punctual

\* The check before a step finds nothing late, and the last one neither.
LEMMA JudgePunctual == IInv /\ Punctual /\ (Timeout \/ Judge) => Punctual'
<1> SUFFICES ASSUME IInv, Punctual, Timeout \/ Judge, flag'.overruns = 0 PROVE Punctual'
  BY DEF Punctual
<1>1. at = "step" /\ UNCHANGED <<now, flag, input, cur>> /\ InScenario
  BY DEF Timeout, Judge, Instant, InScenario
<1>2. PICK o \in {"passed", "failed"}, in \in BOOLEAN : Report(o, in)
  BY DEF Timeout, Judge
<1>3. now \in Nat /\ sc \in Scenario /\ Allowed \in Nat
  BY <1>1, SameScenario
<1>4. ~sc.reset
  BY <1>1 DEF IInv, Current
<1>5. at' = "evidence" /\ sc'.started = sc.started /\ sc'.reset = sc.reset
  BY <1>2, <1>3 DEF Report, Scenario
<1>6. now' <= sc.started + Allowed + 0
  BY <1>1, <1>3, StepsWithin DEF Scenario
<1>7. 0 = (IF sc'.reset THEN ResetTime ELSE 0)
  BY <1>4, <1>5
<1> QED BY <1>1, <1>3, <1>5, <1>6, <1>7, ReportPunctual

\* A step takes its timeout at most, and the next sum has room for it.
LEMMA ExecutePunctual == IInv /\ Punctual /\ Execute => Punctual'
<1> SUFFICES ASSUME IInv, Punctual, Execute, flag'.overruns = 0 PROVE Punctual'
  BY DEF Punctual
<1>1. at = "step" /\ UNCHANGED <<input, cur>> /\ InScenario /\ sc.step < Len(Steps[Id])
  BY DEF Execute, InScenario
<1>2. /\ now \in Nat /\ sc \in Scenario /\ flag \in Flag /\ Steps[Id] \in Seq(Nat)
      /\ Len(Steps[Id]) \in Nat /\ Duration[Id] \in Nat /\ Allowed \in Nat
      /\ Id' = Id /\ Allowed' = Allowed /\ ScenarioDeadline' = ScenarioDeadline
  BY <1>1, SameScenario
<1>3. sc.step \in Nat /\ sc.started \in Nat
  BY <1>2 DEF Scenario
<1>4. sc.step + 1 \in 1..Len(Steps[Id]) /\ sc.step \in 0..Len(Steps[Id])
      /\ sc.step + 1 \in 0..Len(Steps[Id])
  BY <1>1, <1>2, <1>3
<1> DEFINE limit == Steps[Id][sc.step + 1]
<1>5. limit \in Nat
  BY <1>2, <1>4
<1>6. flag.overruns = 0 /\ flag' = flag /\ now' \in Nat /\ now' <= now + limit
  BY <1>2, <1>5, KeepsTime DEF Execute
<1>7. \A sum \in [0..Len(Steps[Id]) -> 0..Duration[Id]] :
         PartialSums(Id, sum) => /\ sum[sc.step + 1] = sum[sc.step] + limit
                                 /\ sum[sc.step] \in Nat
                                 /\ sum[sc.step + 1] \in 0..Duration[Id]
  <2> SUFFICES ASSUME NEW sum \in [0..Len(Steps[Id]) -> 0..Duration[Id]], PartialSums(Id, sum)
               PROVE  /\ sum[sc.step + 1] = sum[sc.step] + limit
                      /\ sum[sc.step] \in Nat /\ sum[sc.step + 1] \in 0..Duration[Id]
    OBVIOUS
  <2>1. sum[sc.step + 1] = sum[(sc.step + 1) - 1] + Steps[Id][sc.step + 1]
    BY <1>4 DEF PartialSums
  <2>2. (sc.step + 1) - 1 = sc.step
    BY <1>3
  <2>3. sum[sc.step] \in 0..Duration[Id] /\ sum[sc.step + 1] \in 0..Duration[Id]
    BY <1>4
  <2> QED BY <1>2, <2>1, <2>2, <2>3
<1> HIDE DEF limit
<1>8. ~flag.deadline /\ ~sc.reset /\ sc.started + Allowed + ResetTime < ScenarioDeadline
      /\ Id \notin input.missing /\ Allowed = Duration[Id]
  BY <1>1, <1>6 DEF Punctual, IInv, Current, Allowed
<1>9. CASE \E good \in BOOLEAN :
              /\ sc' = [sc EXCEPT !.step = @ + 1, !.good = @ /\ good] /\ at' = "step"
  <2>1. PICK good \in BOOLEAN :
              /\ sc' = [sc EXCEPT !.step = @ + 1, !.good = @ /\ good] /\ at' = "step"
    BY <1>9
  <2>2. sc'.step = sc.step + 1 /\ sc'.started = sc.started
    BY <1>2, <2>1 DEF Scenario
  <2>3. \A sum \in [0..Len(Steps[Id]) -> 0..Duration[Id]] :
           PartialSums(Id, sum) => now' <= sc.started + sum[sc.step + 1]
    <3> SUFFICES ASSUME NEW sum \in [0..Len(Steps[Id]) -> 0..Duration[Id]], PartialSums(Id, sum)
                 PROVE  now' <= sc.started + sum[sc.step + 1]
      OBVIOUS
    <3>1. now <= sc.started + sum[sc.step]
      BY <1>1, <1>6 DEF Punctual
    <3>2. sum[sc.step + 1] = sum[sc.step] + limit /\ sum[sc.step] \in Nat
      BY <1>7
    <3> QED BY <1>2, <1>3, <1>5, <1>6, <3>1, <3>2
  <2>4. sc'.started + Allowed' + ResetTime < ScenarioDeadline' /\ ~flag'.deadline
    BY <1>2, <1>6, <1>8, <2>2
  <2>5. Id' \notin input'.missing /\ sc'.step <= Len(Steps[Id'])
    BY <1>1, <1>2, <1>4, <1>8, <2>2
  <2> QED BY <1>2, <2>1, <2>2, <2>3, <2>4, <2>5 DEF Punctual
<1>10. CASE \E o \in {"failed", "unavailable"}, in \in BOOLEAN : Report(o, in)
  <2>1. at' = "evidence" /\ sc'.started = sc.started /\ sc'.reset = sc.reset
    BY <1>2, <1>10 DEF Report, Scenario
  <2>2. PICK sum \in [0..Len(Steps[Id]) -> 0..Duration[Id]] :
                PartialSums(Id, sum) /\ now <= sc.started + sum[sc.step]
    BY <1>1, <1>6, StepsWithin
  <2>3. /\ sum[sc.step + 1] = sum[sc.step] + limit /\ sum[sc.step] \in Nat
        /\ sum[sc.step + 1] \in 0..Duration[Id]
    BY <1>7, <2>2
  <2>4. now' <= sc.started + Allowed + 0
    <3>1. now' <= sc.started + sum[sc.step + 1]
      BY <1>2, <1>3, <1>5, <1>6, <2>2, <2>3
    <3>2. sum[sc.step + 1] \in Nat /\ sum[sc.step + 1] <= Allowed
      BY <1>2, <1>8, <2>3
    <3> QED BY <1>2, <1>3, <1>6, <3>1, <3>2
  <2>5. 0 = (IF sc'.reset THEN ResetTime ELSE 0)
    BY <1>8, <2>1
  <2> QED BY <1>1, <1>6, <2>1, <2>4, <2>5, ReportPunctual
<1> QED BY <1>9, <1>10 DEF Execute

\* The reset finds all of its time left.
LEMMA ResetPunctual == IInv /\ Punctual /\ Reset => Punctual'
<1> SUFFICES ASSUME IInv, Punctual, Reset, flag'.overruns = 0 PROVE Punctual'
  BY DEF Punctual
<1>1. at = "evidence" /\ at' = "report" /\ UNCHANGED <<input, cur>> /\ InScenario
  BY DEF Reset, InScenario
<1>2. /\ now \in Nat /\ sc \in Scenario /\ flag \in Flag /\ Allowed \in Nat
      /\ ScenarioDeadline \in Int /\ sc.started \in Nat
  BY <1>1, SameScenario DEF Scenario
<1>3. CASE sc.reset /\ Instant /\ Frozen(sc.resetError)
  <2>1. UNCHANGED <<now, flag>> /\ sc'.started = sc.started /\ sc'.reset = TRUE
    BY <1>2, <1>3 DEF Instant, Frozen, Scenario
  <2>2. now' <= sc.started + Allowed + ResetTime
    BY <1>1, <1>3, <2>1 DEF Punctual
  <2> QED BY <1>1, <1>2, <2>1, <2>2, ReportPunctual, ConstantTypes
<1>4. CASE ~sc.reset /\ ResetNow
  <2>1. ASSUME flag.overruns = 0
        PROVE  /\ now + ResetTime < ScenarioDeadline /\ Remaining(ScenarioDeadline) > 0
               /\ now <= sc.started + Allowed
    <3>1. sc.started + Allowed + ResetTime < ScenarioDeadline /\ now <= sc.started + Allowed + 0
      BY <1>1, <1>4, <2>1 DEF Punctual
    <3> QED BY <1>2, <3>1, ConstantTypes DEF Remaining
  <2>2. ~(Remaining(ScenarioDeadline) = 0 /\ flag' = [flag EXCEPT !.deadline = TRUE])
    BY <1>2, <2>1 DEF Flag
  <2>3. /\ Takes(Shorter(ResetTime, Remaining(ScenarioDeadline)), flag)
        /\ \E raises \in BOOLEAN : Frozen(raises)
    BY <1>4, <2>2 DEF ResetNow
  <2>4. /\ Shorter(ResetTime, Remaining(ScenarioDeadline)) \in Nat
        /\ Shorter(ResetTime, Remaining(ScenarioDeadline)) <= ResetTime
    BY <1>2, ConstantTypes DEF Shorter, Remaining
  <2>5. /\ flag.overruns = 0 /\ flag' = flag /\ now' \in Nat
        /\ now' <= now + Shorter(ResetTime, Remaining(ScenarioDeadline))
    BY <1>2, <2>3, <2>4, KeepsTime
  <2>6. sc'.started = sc.started /\ sc'.reset = TRUE
    BY <1>2, <2>3 DEF Frozen, Scenario
  <2>7. now' <= sc.started + Allowed + ResetTime
    BY <1>2, <2>1, <2>4, <2>5, ConstantTypes
  <2> QED BY <1>1, <2>5, <2>6, <2>7, ReportPunctual, ConstantTypes
<1> QED BY <1>3, <1>4 DEF Reset

\* The engine asks for the evidence again with the same clock.
LEMMA InvalidPunctual == IInv /\ Punctual /\ EvidenceInvalid => Punctual'
<1> SUFFICES ASSUME IInv, Punctual, EvidenceInvalid, flag'.overruns = 0 PROVE Punctual'
  BY DEF Punctual
<1>1. at = "report" /\ UNCHANGED <<now, flag, input, cur>> /\ InScenario
  BY DEF EvidenceInvalid, Instant, InScenario
<1>2. CASE at' = "handler"
  BY <1>1, <1>2, ElsewherePunctual
<1>3. CASE Report("failed", FALSE)
  <2>1. now \in Nat /\ sc \in Scenario /\ sc.reset
    BY <1>1, SameScenario DEF IInv, Current
  <2>2. at' = "evidence" /\ sc'.started = sc.started /\ sc'.reset = sc.reset
    BY <1>3, <2>1 DEF Report, Scenario
  <2>3. now' <= sc.started + Allowed + ResetTime
    BY <1>1, <2>1 DEF Punctual
  <2> QED BY <1>1, <2>1, <2>2, <2>3, ReportPunctual, ConstantTypes
<1> QED BY <1>2, <1>3 DEF EvidenceInvalid, Raise

\* A scenario that kept its time leaves time before the deadline.
LEMMA FinishPunctual == IInv /\ Punctual /\ FinishScenario => Punctual'
<1> SUFFICES ASSUME IInv, Punctual, FinishScenario, flag'.overruns = 0 PROVE Punctual'
  BY DEF Punctual
<1>1. at = "report" /\ InScenario
  BY DEF FinishScenario, InScenario
<1>2. /\ now \in Nat /\ sc \in Scenario /\ flag \in Flag /\ Allowed \in Nat
      /\ ScenarioDeadline \in Int /\ sc.started \in Nat /\ sc.reset
  BY <1>1, SameScenario DEF Scenario, IInv, Current
<1>3. ASSUME flag.overruns = 0 PROVE Remaining(ScenarioDeadline) # 0
  <2>1. /\ sc.started + Allowed + ResetTime < ScenarioDeadline
        /\ now <= sc.started + Allowed + ResetTime
    BY <1>1, <1>2, <1>3 DEF Punctual
  <2> QED BY <1>2, <2>1, ConstantTypes DEF Remaining
<1>4. ~(Remaining(ScenarioDeadline) = 0 /\ flag' = [flag EXCEPT !.deadline = TRUE])
  BY <1>2, <1>3 DEF Flag
<1>5. flag' = flag /\ at' \in {"scenario", "handler"}
  BY <1>4 DEF FinishScenario, RaiseDeadline, Raise, Instant
<1> QED BY <1>5, ElsewherePunctual

\* What main does around the scenarios never notes a deadline.
LEMMA AroundPunctual ==
    IInv /\ Punctual /\ (Preflight \/ PayloadInvalid \/ Finalize \/ Write \/ Handle \/ Kill)
        => Punctual'
<1> SUFFICES ASSUME IInv, Punctual,
                    Preflight \/ PayloadInvalid \/ Finalize \/ Write \/ Handle \/ Kill,
                    flag'.overruns = 0
             PROVE  Punctual'
  BY DEF Punctual
<1>1. now \in Nat /\ flag \in Flag
  BY DEF IInv, TypeOK
<1>2. Attempt \in Flag /\ Attempt.overruns = flag.overruns /\ Attempt.deadline = flag.deadline
  BY <1>1 DEF Attempt, Flag
<1>3. ASSUME NEW done \in {"write", "handler", "done"}, NEW raised \in {"handler", "done"},
             FinalizeAdapter(Attempt, done, raised)
      PROVE  flag.overruns = 0 /\ flag'.deadline = flag.deadline
             /\ at' \in {"write", "handler", "done"}
  <2>1. CASE flag' = [Attempt EXCEPT !.spent = TRUE] /\ at' = raised
    BY <1>2, <2>1 DEF Flag
  <2>2. CASE /\ Takes(Shorter(FinalizeTime, Remaining(Lane)), Attempt)
             /\ at' \in {done, raised}
    <3>1. Shorter(FinalizeTime, Remaining(Lane)) \in Nat
      BY <1>1, ConstantTypes DEF Shorter, Remaining
    <3>2. Attempt.overruns = 0 /\ flag' = Attempt
      BY <1>1, <1>2, <2>2, <3>1, KeepsTime
    <3> QED BY <1>2, <2>2, <3>2
  <2> QED BY <1>3, <2>1, <2>2 DEF FinalizeAdapter
<1>4. flag.overruns = 0 /\ flag'.deadline = flag.deadline
      /\ at' \notin {"step", "evidence", "report"}
  <2>1. CASE Preflight
    <3>1. flag.overruns = 0 /\ flag' = flag
      BY <1>1, <2>1, KeepsTime, ConstantTypes DEF Preflight
    <3> QED BY <2>1, <3>1 DEF Preflight, Raise
  <2>2. CASE PayloadInvalid
    BY <2>2 DEF PayloadInvalid, Instant, Raise
  <2>3. CASE Finalize
    <3>1. CASE Raise /\ flag' = [Attempt EXCEPT !.silenced = TRUE]
      BY <1>2, <3>1 DEF Raise, Flag
    <3>2. CASE \E next \in {"write", "handler"} : FinalizeAdapter(Attempt, next, "handler")
      BY <1>3, <3>2
    <3> QED BY <2>3, <3>1, <3>2 DEF Finalize
  <2>4. CASE Write
    <3>1. CASE Takes(WriteTime, flag)
      <4>1. flag.overruns = 0 /\ flag' = flag
        BY <1>1, <3>1, KeepsTime, ConstantTypes
      <4> QED BY <2>4, <4>1 DEF Write, Raise
    <3>2. CASE Instant /\ Raise
      BY <3>2 DEF Instant, Raise
    <3> QED BY <2>4, <3>1, <3>2 DEF Write
  <2>5. CASE Handle
    <3>1. CASE FinalizeAdapter(Attempt, "done", "done")
      BY <1>3, <3>1
    <3>2. CASE Instant /\ at' = "done"
      BY <3>2 DEF Instant
    <3> QED BY <2>5, <3>1, <3>2 DEF Handle
  <2>6. CASE Kill
    BY <2>6 DEF Kill
  <2> QED BY <2>1, <2>2, <2>3, <2>4, <2>5, <2>6
<1> QED BY <1>4, ElsewherePunctual

----------------------------------------------------------------------------
(***************************************************************************)
(* The theorems.                                                           *)
(***************************************************************************)
\* The invariant holds when main starts.
LEMMA InitHolds == Init => IInv
<1> SUFFICES ASSUME Init PROVE IInv
  OBVIOUS
<1> USE DEF Init
<1>1. input.selected \in Seq(Catalog)
  BY RunAssumption
<1>2. \A k \in 1..Len(input.selected) : input.selected[k] \in Catalog
  BY <1>1
<1>3. NoScenario \in Scenario /\ NoScenario.started = 0 /\ NoScenario.before = 0
  BY DEF NoScenario, Scenario
<1>4. TypeOK
  <2>1. flag \in Flag
    BY ConstantTypes DEF Flag
  <2>2. adapter \in Adapter
    BY DEF Adapter
  <2>3. cur \in 1..(Len(input.selected) + 1) /\ results \in Seq(Result)
    BY <1>1
  <2> QED BY <1>3, <2>1, <2>2, <2>3 DEF TypeOK
<1>5. Progress /\ Finalization /\ Over
  BY DEF Progress, Finalization, Over, InLoop, InScenario
<1>6. Ahead
  BY <1>2 DEF Ahead, InLoop, InScenario
<1>7. Current
  BY <1>3 DEF Current, InScenario
<1>8. ResetOnce /\ EvidenceComplete /\ PassedInTime /\ QualifiedIsComplete
  BY DEF ResetOnce, EvidenceComplete, PassedInTime, QualifiedIsComplete
<1> QED BY <1>4, <1>5, <1>6, <1>7, <1>8 DEF IInv

\* And steps that change nothing keep it.
LEMMA StutterStep == IInv /\ UNCHANGED vars => IInv'
<1> SUFFICES ASSUME IInv, UNCHANGED vars PROVE IInv'
  OBVIOUS
<1> USE DEF IInv, vars
<1>1. TypeOK'
  BY DEF TypeOK
<1>2. Progress' /\ Finalization' /\ Over'
  BY DEF Progress, Finalization, Over, InLoop, InScenario, Remaining, ScenarioDeadline
<1>3. Ahead' /\ Current'
  BY DEF Ahead, Current, InLoop, InScenario, Id
<1>4. ResetOnce' /\ EvidenceComplete' /\ PassedInTime' /\ QualifiedIsComplete'
  BY ResultsStand
<1> QED BY <1>1, <1>2, <1>3, <1>4

\* The inductive invariant: what main, the engine, the evidence provider and
\* the adapter have done fit together after every step.
THEOREM Invariance == Spec => []IInv
<1>1. IInv /\ [Next]_vars => IInv'
  BY PreflightStep, StartScenarioStep, TimeoutStep, JudgeStep, ExecuteStep, ResetStep,
     EvidenceInvalidStep, PayloadInvalidStep, FinishScenarioStep, FinalizeStep, WriteStep,
     HandleStep, KillStep, StutterStep DEF Next
<1> QED BY InitHolds, <1>1, PTL DEF Spec

\* Every variable keeps its type, the flags and the clock included.
THEOREM TypeCorrect == Spec => []TypeOK
<1>1. IInv => TypeOK
  BY DEF IInv
<1> QED BY Invariance, <1>1, PTL

\* finalize_evidence resets a scenario at most once, on every path of engine.
THEOREM EveryScenarioResetOnce == Spec => []ResetOnce
<1>1. IInv => ResetOnce
  BY DEF IInv
<1> QED BY Invariance, <1>1, PTL

\* The references of a kept result are exactly its scenario's records.
THEOREM EvidenceIsComplete == Spec => []EvidenceComplete
<1>1. IInv => EvidenceComplete
  BY DEF IInv
<1> QED BY Invariance, <1>1, PTL

\* FunctionalEngine._result never lets a late scenario pass.
THEOREM LatePassImpossible == Spec => []PassedInTime
<1>1. IInv => PassedInTime
  BY DEF IInv
<1> QED BY Invariance, <1>1, PTL

\* The coverage status of a document and the exit code 0 stand only for a
\* complete run.
THEOREM QualificationIsSound == Spec => []QualifiedIsComplete
<1>1. IInv => QualifiedIsComplete
  BY DEF IInv
<1> QED BY Invariance, <1>1, PTL

\* main finalizes the adapter at most once, and skips it only for the reasons
\* FinalizedOnce names.
THEOREM FinalizationOnce == Spec => []FinalizedOnce
<1>1. IInv => FinalizedOnce
  BY DEF IInv, Finalization, FinalizedOnce
<1> QED BY Invariance, <1>1, PTL

\* The scenario deadline keeps the finalizer's time back.
THEOREM FinalizerHasItsTime == Spec => []FinalizationReserved
<1>1. IInv => FinalizationReserved
  <2> SUFFICES ASSUME IInv, at = "scenario", cur > 1 PROVE Remaining(Lane) >= FinalizeTime
    BY DEF FinalizationReserved
  <2>1. Remaining(ScenarioDeadline) > 0 /\ now \in Nat
    BY DEF IInv, Progress, TypeOK
  <2> QED BY <2>1, ConstantTypes DEF Remaining, ScenarioDeadline
<1> QED BY Invariance, <1>1, PTL

\* _require_lane_time reserves enough: no scenario that was started runs into
\* the lane deadline while every operation keeps to its own timeout.
THEOREM InTime == Spec => []InTimeIfBounded
<1>1. Init => Punctual
  BY DEF Init, Punctual, InScenario
<1>2. IInv /\ Punctual /\ [Next]_vars => Punctual'
  <2> SUFFICES ASSUME IInv, Punctual, [Next]_vars PROVE Punctual'
    OBVIOUS
  <2>1. CASE UNCHANGED vars
    BY <2>1 DEF vars, Punctual, InScenario, Allowed, Id, ScenarioDeadline
  <2>2. CASE Next
    BY <2>2, StartPunctual, JudgePunctual, ExecutePunctual, ResetPunctual, InvalidPunctual,
       FinishPunctual, AroundPunctual DEF Next
  <2> QED BY <2>1, <2>2
<1>3. Punctual => InTimeIfBounded
  BY DEF Punctual, InTimeIfBounded
<1> QED BY Invariance, <1>1, <1>2, <1>3, PTL DEF Spec
=============================================================================

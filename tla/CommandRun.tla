----------------------------- MODULE CommandRun -----------------------------
(***************************************************************************)
(* hosted/cli.py, SubprocessRunner.run on Linux: start one command under   *)
(* its supervisor, wait for it or kill it, find out what became of the     *)
(* process tree, retain one evidence record and either return the result   *)
(* or raise a reason code.                                                 *)
(*                                                                         *)
(* What the command prints, and how long its pipes stay open, is left out: *)
(* communicate() returns at some time after the supervisor has ended.  The *)
(* deadlines of the run are the values of clock.  Any probe of /proc may   *)
(* fail, and any signal to a process of another user.                      *)
(***************************************************************************)
EXTENDS Subreaper

VARIABLES
    at,        \* the next statement of run
    path,      \* "ok", or the exception handler: "timeout" or "error"
    clock,     \* which of the deadlines below have passed
    known,     \* the processes the monitor or a census has recorded
    moved,     \* those of them that have left the group they were recorded in
    observed,  \* _torturer_tree_census_observed
    proof,     \* pre_reap_status
    status,    \* the status of the process tree run goes by
    failure,   \* what the control pipe says is wrong
    sink,      \* number of evidence records
    verdict    \* "returned" or the reason code that was raised

runVars == <<at, path, clock, known, moved, observed, proof, status, failure,
             sink, verdict>>
vars == <<treeVars, supVars, runVars>>

\* The deadlines of one invocation.  The cleanup after a timeout is given two
\* more, cleanup_work_deadline and proof_deadline, between these; past one of
\* them a probe fails, and here a probe may fail at any time.
Working == 0
WorkOver == 1        \* work_timeout
Over == 2            \* deadline

Stages == {"launch", "communicate", "finish", "term", "census", "signal",
           "await", "late", "prove", "reap", "final", "status", "retain", "over"}
TreeStatuses == {"none", "gone", "alive", "unknown", "survivor"}
Failures == {"none", "PROCESS_TREE_UNPROVEN", "COMMAND_UNAVAILABLE", "SUBREAPER_UNAVAILABLE"}
Verdicts == {"none", "returned", "COMMAND_TIMEOUT", "COMMAND_UNAVAILABLE",
             "COMMAND_DEADLINE_EXCEEDED", "PROCESS_TREE_UNPROVEN",
             "SUBREAPER_UNAVAILABLE", "EVIDENCE_UNAVAILABLE"}

\* Type correctness of the tree, the supervisor and the runner.
TypeOK ==
    /\ TreeTypeOK /\ SupTypeOK
    /\ at \in Stages
    /\ path \in {"ok", "timeout", "error"}
    /\ clock \in Working..Over
    /\ known \in SUBSET Processes /\ moved \in SUBSET Processes /\ observed \in BOOLEAN
    /\ proof \in TreeStatuses /\ status \in TreeStatuses
    /\ failure \in Failures
    /\ sink \in Nat
    /\ verdict \in Verdicts

Init ==
    /\ TreeInit /\ SupInit
    /\ at = "launch" /\ path = "ok" /\ clock = Working
    /\ known = {} /\ moved = {} /\ observed = FALSE
    /\ proof = "none" /\ status = "none" /\ failure = "none"
    /\ sink = 0 /\ verdict = "none"

----------------------------------------------------------------------------
\* Probes.

\* _identity_live: the number, the start time and the group have to agree.
KnownAlive == {p \in known \ moved : Alive(p)}
GroupAlive == {p \in Processes : Alive(p) /\ group[p] = Supervisor}

\* _direct_tree_status: the identities, then killpg(root, 0), for which a
\* zombie is as good as a living process.
DirectStatus ==
    IF KnownAlive # {} \/ \E p \in Processes : Exists(p) /\ group[p] = Supervisor THEN "alive" ELSE "gone"

\* Mutant: the process group is not looked at.
KnownStatus == IF KnownAlive # {} THEN "alive" ELSE "gone"

\* _tree_status with a snapshot of /proc
CensusStatus == IF KnownAlive # {} \/ GroupAlive # {} THEN "alive" ELSE "gone"

\* What _tree_status may answer.
TreeStatus(direct) ==
    {"unknown"} \cup
    (IF clock = Over THEN {}
     ELSE {CensusStatus} \cup (IF direct /\ observed THEN {DirectStatus} ELSE {}))

\* Mutant: a survivor the supervisor has killed is no failure.
LenientVerdict(list) ==
    IF list # <<>> /\ list[1] = "READY" /\ list[Len(list)] = "COMPLETE" THEN "none"
    ELSE "SUBREAPER_UNAVAILABLE"

\* Mutant: the last record is taken for a reason code.
LiteralVerdict(list) ==
    IF list = <<"READY", "COMPLETE">> THEN "none"
    ELSE IF list = <<>> THEN "SUBREAPER_UNAVAILABLE" ELSE list[Len(list)]

\* _consume_subreaper_status of a pipe that was read to its end.
PipeVerdict(list) ==
    LET Has(r) == \E i \in DOMAIN list : list[i] = r
        Completed == list # <<>> /\ list[1] = "READY" /\ list[Len(list)] = "COMPLETE"
    IN IF list = <<"READY", "COMPLETE">> THEN "none"
       ELSE IF Completed /\ (Has("SURVIVOR_KILLED") \/ Has("SURVIVOR_UNCONTAINED"))
            THEN "PROCESS_TREE_UNPROVEN"
       ELSE IF Has("EXEC_FAILED") THEN "COMMAND_UNAVAILABLE"
       ELSE "SUBREAPER_UNAVAILABLE"

----------------------------------------------------------------------------
\* The run.

\* The evidence record is retained, or run ends with the failure to do so.
Conclude(code_) ==
    /\ at' = "over"
    /\ \/ sink' = sink + 1 /\ verdict' = code_
       \/ sink' = sink /\ verdict' = "EVIDENCE_UNAVAILABLE"

GoTo(s) == at' = s /\ UNCHANGED <<sink, verdict>>

\* Mutant: the command is started without its supervisor.
LaunchBare ==
    /\ at = "launch"
    /\ state' = [state EXCEPT ![Leader] = "live"]
    /\ born' = Leader
    /\ GoTo("communicate")
    /\ UNCHANGED <<parent, group, supVars, path, clock, known, moved, observed, proof, status,
                   failure>>

\* Up to the start of the monitor.
Launch ==
    /\ at = "launch"
    /\ \/ /\ \E c \in {"SUBREAPER_UNAVAILABLE", "COMMAND_UNAVAILABLE"} : Conclude(c)
          /\ UNCHANGED <<treeVars, sup>>
       \/ /\ state' = [state EXCEPT ![Supervisor] = "live"]
          /\ sup' = "setup"
          /\ GoTo("communicate")
          /\ UNCHANGED <<parent, group, born>>
    /\ UNCHANGED <<bound, leader, found, targets, spent, records, code, path, clock, known,
                   moved, observed, proof, status, failure>>

\* communicate returns; the supervisor's status is collected.
CommunicateReturns ==
    /\ at = "communicate"
    /\ Bury(Supervisor)
    /\ GoTo("finish")
    /\ UNCHANGED <<supVars, path, clock, known, moved, observed, proof, status, failure>>

\* communicate raises TimeoutExpired ...
CommunicateTimesOut ==
    /\ at = "communicate" /\ clock # Working
    /\ path' = "timeout"
    /\ GoTo("census")
    /\ UNCHANGED <<treeVars, supVars, clock, known, moved, observed, proof, status, failure>>

\* ... or OSError.
CommunicateFails ==
    /\ at = "communicate"
    /\ path' = "error"
    /\ GoTo("census")
    /\ UNCHANGED <<treeVars, supVars, clock, known, moved, observed, proof, status, failure>>

\* The monitor records the tree in walks of its own, and a walk that meets a
\* change records nothing: any processes there are may be recorded.  The
\* supervisor is, as it is found by its group in any case.  A record that is
\* out of date when it is used first is as good as none, and so is the record
\* of a process that has ended.
Monitored == {{Supervisor} \cup C : C \in SUBSET {p \in Candidates : Alive(p)}}

\* _finish_process_tree.  The supervisor is gone: only its own exit code is
\* taken for a complete census.  A tree that is not seen to be gone is a
\* survivor, whatever the cleanup that follows does about it.
FinishTree ==
    /\ at = "finish"
    /\ UNCHANGED <<treeVars, supVars, path, clock, proof, failure>>
    /\ known' \in Monitored /\ moved' = {}
    /\ observed' \in {FALSE, code = "code"}
    /\ \E monitor_complete \in BOOLEAN :
         \E s \in (IF monitor_complete THEN TreeStatus(FALSE)' ELSE {"unknown"}) :
            \/ s = "gone" /\ status' = "gone" /\ GoTo("status")
            \/ s # "gone" /\ status' = "survivor" /\ GoTo("term")

\* The SIGTERM and the SIGKILL of _kill_process_tree: what is signalled may
\* survive both.
EndSurvivors ==
    /\ at = "term"
    /\ \E T \in SUBSET (KnownAlive \cup GroupAlive) : Doom(T)
    /\ GoTo("status")
    /\ UNCHANGED <<supVars, path, clock, known, moved, observed, proof, status, failure>>

\* The census of _kill_process_tree adds the whole tree to what the monitor
\* knows.  A supervisor that is dead but not collected still has its entry in
\* /proc; what is forked behind the census might as well be forked after it.
KillCensus ==
    /\ at = "census"
    /\ moved' = {}
    /\ \E seen \in Monitored :
         \/ observed' = FALSE /\ known' = seen
         \/ /\ clock < Over
            /\ observed' = (Exists(Supervisor) \/ code = "code")
            /\ known' = seen \cup Below(Supervisor)
    /\ GoTo("signal")
    /\ UNCHANGED <<treeVars, supVars, path, clock, proof, status, failure>>

\* _signal_tracked, where there is time to probe the identities, and
\* os.killpg.  The supervisor at least belongs to the same user.
KillTree ==
    /\ at = "signal"
    /\ \E T \in SUBSET (GroupAlive \cup (IF clock = Over THEN {} ELSE KnownAlive)) :
         /\ Alive(Supervisor) => Supervisor \in T
         /\ Doom(T)
    /\ GoTo("await")
    /\ UNCHANGED <<supVars, path, clock, known, moved, observed, proof, status, failure>>

AfterKill == IF path = "timeout" THEN "late" ELSE "reap"

\* _wait_tree_gone
AwaitTree ==
    /\ at = "await"
    /\ \/ Bury(Supervisor) /\ GoTo("await")
       \/ /\ clock = Over \/ "gone" \in TreeStatus(TRUE)
          /\ GoTo(AfterKill)
          /\ UNCHANGED treeVars
    /\ UNCHANGED <<supVars, path, clock, known, moved, observed, proof, status, failure>>

\* A probe that fails ends the waiting.
AwaitFails ==
    /\ at = "await"
    /\ GoTo(AfterKill)
    /\ UNCHANGED <<treeVars, supVars, path, clock, known, moved, observed, proof, status, failure>>

\* What a monitor that did not stop in time has seen meanwhile is killed; for
\* a process of the census the record of the census is kept.
KillLate ==
    /\ at = "late"
    /\ \/ known' = known /\ UNCHANGED treeVars
       \/ /\ \E seen \in Monitored : known' = known \cup seen
          /\ \E T \in SUBSET {p \in known' \ moved : Alive(p)} :
               /\ clock = Over => T = {}
               /\ Doom(T)
    /\ GoTo("prove")
    /\ UNCHANGED <<supVars, path, clock, moved, observed, proof, status, failure>>

\* pre_reap_status
ProveTree ==
    /\ at = "prove"
    /\ proof' \in TreeStatus(TRUE)
    /\ GoTo("reap")
    /\ UNCHANGED <<treeVars, supVars, path, clock, known, moved, observed, status, failure>>

\* The leader's output is drained and its status collected within the reserve;
\* a supervisor that is still there is killed once more.
Reap ==
    /\ at = "reap"
    /\ \/ Bury(Supervisor) /\ GoTo("reap")
       \/ Doom({Supervisor}) /\ GoTo(IF path = "timeout" THEN "final" ELSE "status")
    /\ UNCHANGED <<supVars, path, clock, known, moved, observed, proof, status, failure>>

\* final_status
FinalStatus(post) == IF post # "unknown" THEN post ELSE proof

FinalProof ==
    /\ at = "final"
    /\ \E s \in TreeStatus(TRUE) : status' = FinalStatus(s)
    /\ GoTo("status")
    /\ UNCHANGED <<treeVars, supVars, path, clock, known, moved, observed, proof, failure>>

\* The handlers of timeouts and errors drop what the pipe says is wrong
\* (_subreaper_failure); they raise their own reason code.
Notes(reason) == failure' = IF path = "ok" THEN reason ELSE "none"

\* _consume_subreaper_status: the supervisor alone keeps the pipe open, and
\* run waits for it to the deadline.
ReadStatus ==
    /\ at = "status"
    /\ \/ ~Alive(Supervisor) /\ Notes(PipeVerdict(records))
       \/ Alive(Supervisor) /\ clock = Over /\ Notes("SUBREAPER_UNAVAILABLE")
    /\ GoTo("retain")
    /\ UNCHANGED <<treeVars, supVars, path, clock, known, moved, observed, proof, status>>

\* The pipe cannot be read.
ReadFails ==
    /\ at = "status"
    /\ Notes("SUBREAPER_UNAVAILABLE")
    /\ GoTo("retain")
    /\ UNCHANGED <<treeVars, supVars, path, clock, known, moved, observed, proof, status>>

\* Mutant: the control pipe is not asked.
TreeJudgement ==
    IF clock = Over THEN "COMMAND_DEADLINE_EXCEEDED"
    ELSE IF status # "gone" THEN "PROCESS_TREE_UNPROVEN"
    ELSE "returned"

\* How an ordinary completion is judged once its record is retained.
Judgement ==
    IF clock = Over THEN "COMMAND_DEADLINE_EXCEEDED"
    ELSE IF status # "gone" THEN "PROCESS_TREE_UNPROVEN"
    ELSE IF failure # "none" THEN failure
    ELSE "returned"

\* Mutant: the record is counted before it is known to be complete.
RetainTwice ==
    /\ at = "retain"
    /\ \/ /\ Conclude(IF path = "timeout" THEN "COMMAND_TIMEOUT" ELSE "COMMAND_UNAVAILABLE")
          /\ UNCHANGED path
       \/ /\ path = "ok" /\ path' = "error"
          /\ at' = "census" /\ sink' = sink + 1 /\ UNCHANGED verdict
    /\ UNCHANGED <<treeVars, supVars, clock, known, moved, observed, proof, status, failure>>

\* An OSError while the record of a completion is retained leads into the
\* handler of output errors, which retains another one.
\* The locals of run that no property speaks of end with it.
Retain ==
    /\ at = "retain"
    /\ \/ /\ Conclude(CASE path = "ok" -> Judgement
                        [] path = "timeout" -> "COMMAND_TIMEOUT"
                        [] path = "error" -> "COMMAND_UNAVAILABLE")
          /\ observed' = FALSE /\ proof' = "none" /\ failure' = "none"
          /\ UNCHANGED path
       \/ /\ path = "ok" /\ path' = "error" /\ GoTo("census")
          /\ UNCHANGED <<observed, proof, failure>>
    /\ UNCHANGED <<treeVars, supVars, clock, known, moved, status>>

\* The next deadline passes.
Tick ==
    /\ clock < Over /\ at # "over"
    /\ clock' = clock + 1
    /\ UNCHANGED <<treeVars, supVars, at, path, known, moved, observed, proof, status,
                   failure, sink, verdict>>

RunnerStep ==
    \/ Launch \/ CommunicateReturns \/ CommunicateTimesOut \/ FinishTree \/ EndSurvivors
    \/ KillCensus \/ KillTree \/ AwaitTree \/ KillLate \/ ProveTree \/ Reap \/ FinalProof
    \/ ReadStatus \/ Retain

RunnerFault == CommunicateFails \/ AwaitFails \/ ReadFails

\* What the command does, and what becomes of the records.
Surroundings ==
    /\ Environment
    /\ moved' = moved \cup {p \in known : group'[p] # group[p]}
    /\ UNCHANGED <<supVars, at, path, clock, known, observed, proof, status, failure, sink, verdict>>

\* The model ends with the verdict.
Done == at = "over" /\ UNCHANGED vars

Next ==
    \/ RunnerStep
    \/ RunnerFault
    \/ at # "over" /\ (SupervisorStep \/ ReapDeadline) /\ UNCHANGED runVars
    \/ at # "over" /\ Surroundings
    \/ Tick
    \/ Done

Spec == Init /\ [][Next]_vars

----------------------------------------------------------------------------
\* Properties.

\* A command whose result is returned has left no process behind: neither a
\* daemon in a session of its own nor one whose parent has died.
CleanMeansEmpty == verdict = "returned" => Empty

\* A command that left a survivor for the bounded supervisor to kill fails,
\* whatever its exit status and however clean the tree is afterwards.
SurvivorFailsTheCommand ==
    sup \in {"census", "kill", "sweep"} \/ found # "nothing" => verdict # "returned"

\* A tree that is certified as gone, also after a timeout, has nothing living
\* in its process group and none of the processes run has recorded, as long
\* as they stay in the group they were recorded in.
GoneCoversTheKnown ==
    status = "gone" /\ path # "error" => KnownAlive = {} /\ GroupAlive = {}

\* No more than one evidence record is retained for a command, and one for
\* every verdict except the failure to retain it.
OneRecord ==
    /\ sink <= 1
    /\ verdict \notin {"none", "EVIDENCE_UNAVAILABLE"} => sink = 1

\* cli.py, _tree_status: detached descendants remain in the tracked identity
\* set.  So a tree that is certified as gone after a timeout has no living
\* process that was recorded, whatever group that process is in.
DetachedStayTracked ==
    path = "timeout" /\ at = "over" /\ status = "gone" => \A p \in known : ~Alive(p)
=============================================================================

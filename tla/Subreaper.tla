----------------------------- MODULE Subreaper -----------------------------
(***************************************************************************)
(* hosted/linux_subreaper.py: the supervisor of one command.  It forks the *)
(* command, adopts every orphan the command leaves, and exits only when    *)
(* none is left or, in the bounded mode of the outer deadline, when it has *)
(* killed what it could within one second.  What it found goes to the      *)
(* runner over a control pipe.  The kernel has CONFIG_PROC_CHILDREN.       *)
(***************************************************************************)
EXTENDS ProcessTree, Sequences

VARIABLES
    sup,       \* the next statement of main
    bound,     \* _BOUND_DESCENDANTS_ENV is "1"
    leader,    \* leader_status: "none", a "code" or a "signal"
    found,     \* survivor_seen and containment_complete
    targets,   \* children of the last census that are still to be killed
    spent,     \* reap_deadline is over
    records,   \* the status records written to the control pipe
    code       \* how the supervisor ended: "none", "code" or "signal"

supVars == <<sup, bound, leader, found, targets, spent, records, code>>

Statements == {"idle", "setup", "wait", "waitAll", "reap", "census", "kill",
               "sweep", "report", "left"}
Record == {"SETUP_FAILED", "READY", "FORK_FAILED", "EXEC_FAILED", "SURVIVOR_KILLED",
           "SURVIVOR_UNCONTAINED", "WAIT_FAILED", "COMPLETE"}

SupTypeOK ==
    /\ sup \in Statements
    /\ bound \in BOOLEAN
    /\ leader \in {"none", "code", "signal"}
    /\ found \in {"nothing", "contained", "uncontained"}
    /\ targets \in SUBSET Candidates
    /\ spent \in BOOLEAN
    /\ records \in Seq(Record)
    /\ code \in {"none", "code", "signal"}

SupInit ==
    /\ sup = "idle"
    /\ bound \in BOOLEAN
    /\ leader = "none" /\ found = "nothing" /\ targets = {} /\ spent = FALSE
    /\ records = <<>> /\ code = "none"

\* The supervisor executes its statement s.
Runs(s) == sup = s /\ state[Supervisor] = "live"

\* It ends: its children are orphans.
Leave(how) == sup' = "left" /\ code' = how /\ Die(Supervisor)

\* It forks the command; alive: the command could be executed.
ForkLeader(alive) ==
    /\ born' = Leader
    /\ state' = [state EXCEPT ![Leader] = IF alive THEN "live" ELSE "zombie"]
    /\ parent' = [parent EXCEPT ![Leader] = Supervisor]
    /\ sup' = "wait"
    /\ UNCHANGED <<group, code>>

\* main up to the fork and the exec of its child.  A record that cannot be
\* written ends it as well.
Setup ==
    /\ Runs("setup")
    /\ \/ /\ records' \in {<<>>, <<"SETUP_FAILED">>, <<"READY", "FORK_FAILED">>}
          /\ Leave("code")
       \/ records' = <<"READY">> /\ ForkLeader(TRUE)
       \/ records' = <<"READY", "EXEC_FAILED">> /\ ForkLeader(FALSE)
    /\ UNCHANGED <<bound, leader, found, targets, spent>>

\* waitpid(leader); the status is lost where SIGCHLD is ignored.
WaitLeader ==
    /\ Runs("wait")
    /\ Bury(Leader)
    /\ leader' \in {"none", "code", "signal"}
    /\ sup' = IF bound THEN "reap" ELSE "waitAll"
    /\ UNCHANGED <<bound, found, targets, spent, records, code>>

Report(result) == sup' = "report" /\ found' = result /\ UNCHANGED <<state, parent, group, born>>

\* os.wait() until there is no child.
WaitAll ==
    /\ Runs("waitAll")
    /\ \/ \E c \in Kids(Supervisor) : Bury(c) /\ UNCHANGED <<sup, found>>
       \/ Kids(Supervisor) = {} /\ Report("nothing")
    /\ UNCHANGED <<bound, leader, targets, spent, records, code>>

\* Go on with statement s.
Proceed(s) == sup' = s /\ UNCHANGED <<found, state, parent, group, born>>

\* _bound_remaining_descendants before the loop: children that have already
\* exited are reaped; a child that then is left is a survivor.
ReapExited ==
    /\ Runs("reap")
    /\ \/ \E c \in Kids(Supervisor) : Bury(c) /\ UNCHANGED <<sup, found>>
       \/ Kids(Supervisor) = {} /\ Report("nothing")
       \/ /\ Kids(Supervisor) # {}
          /\ \A c \in Kids(Supervisor) : Alive(c)
          /\ Report("uncontained") \/ Proceed("census")
    /\ UNCHANGED <<bound, leader, targets, spent, records, code>>

\* Mutant: the supervisor counts itself among its children.
CensusOfAll ==
    /\ Runs("census")
    /\ targets' = Kids(Supervisor) \cup {Supervisor}
    /\ Proceed("kill")
    /\ UNCHANGED <<bound, leader, spent, records, code>>

\* The head of the loop.  Whether the children file can be read is up to the
\* system.
Census ==
    /\ Runs("census")
    /\ \/ Report("uncontained") /\ UNCHANGED targets
       \/ Kids(Supervisor) = {} /\ Report("contained") /\ UNCHANGED targets
       \/ /\ Kids(Supervisor) # {}
          /\ targets' = Kids(Supervisor)
          /\ Proceed("kill")
    /\ UNCHANGED <<bound, leader, spent, records, code>>

\* os.kill(pid, SIGKILL), one child at a time; it may be refused.
KillChild ==
    /\ Runs("kill")
    /\ \/ \E c \in targets :
            \/ targets' = targets \ {c} /\ Doom({c}) /\ UNCHANGED <<sup, found>>
            \/ Report("uncontained") /\ UNCHANGED targets
       \/ targets = {} /\ Proceed("sweep") /\ UNCHANGED targets
    /\ UNCHANGED <<bound, leader, spent, records, code>>

\* Mutant: one round of killing has to do.
SweepOnce ==
    /\ Runs("sweep")
    /\ \/ \E c \in Kids(Supervisor) : Bury(c) /\ UNCHANGED <<sup, found>>
       \/ (\A c \in Kids(Supervisor) : Alive(c)) /\ Report("contained")
    /\ UNCHANGED <<bound, leader, targets, spent, records, code>>

\* Mutant: the loop has no end of its own.
SweepForever ==
    /\ Runs("sweep")
    /\ \/ \E c \in Kids(Supervisor) : Bury(c) /\ UNCHANGED <<sup, found>>
       \/ (\A c \in Kids(Supervisor) : Alive(c)) /\ Proceed("census")
    /\ UNCHANGED <<bound, leader, targets, spent, records, code>>

\* The tail of the loop: reap, and look whether the second is over.
Sweep ==
    /\ Runs("sweep")
    /\ \/ \E c \in Kids(Supervisor) : Bury(c) /\ UNCHANGED <<sup, found>>
       \/ /\ \A c \in Kids(Supervisor) : Alive(c)
          /\ \/ ~spent /\ Proceed("census")
             \/ spent /\ Kids(Supervisor) = {} /\ Report("contained")
             \/ spent /\ Report("uncontained")
    /\ UNCHANGED <<bound, leader, targets, spent, records, code>>

\* What main writes at its end.
FinalRecords ==
    LET last == IF leader = "none" THEN "WAIT_FAILED" ELSE "COMPLETE"
    IN CASE found = "nothing" -> <<last>>
         [] found = "contained" -> <<"SURVIVOR_KILLED", last>>
         [] found = "uncontained" -> <<"SURVIVOR_KILLED", "SURVIVOR_UNCONTAINED", last>>

\* The end of main.  A pipe that fails stays broken: only the first n records
\* arrive.  _mirror_leader_status ends the supervisor as the leader ended.
Finish ==
    /\ Runs("report")
    /\ \E n \in 0..Len(FinalRecords) :
         /\ records' = records \o SubSeq(FinalRecords, 1, n)
         /\ Leave(IF n = Len(FinalRecords) /\ leader = "signal" THEN "signal" ELSE "code")
    /\ UNCHANGED <<bound, leader, found, targets, spent>>

\* The second of the bounded loop passes.
ReapDeadline ==
    /\ sup \in {"census", "kill", "sweep"} /\ ~spent
    /\ spent' = TRUE
    /\ UNCHANGED <<sup, bound, leader, found, targets, records, code, treeVars>>

SupervisorStep ==
    Setup \/ WaitLeader \/ WaitAll \/ ReapExited \/ Census \/ KillChild \/ Sweep \/ Finish
----------------------------------------------------------------------------
\* The supervisor in an environment that starts it, may kill any process at
\* any time and collects the supervisor's status.

Start ==
    /\ sup = "idle"
    /\ state' = [state EXCEPT ![Supervisor] = "live"]
    /\ sup' = "setup"
    /\ UNCHANGED <<parent, group, born, bound, leader, found, targets, spent, records, code>>

Outsiders ==
    \/ \E S \in SUBSET {p \in Processes : state[p] = "live"} : Doom(S)
    \/ Bury(Supervisor)
    \/ Environment

SupervisorNext ==
    \/ UNCHANGED supVars /\ Outsiders
    \/ Start
    \/ SupervisorStep
    \/ ReapDeadline

allVars == <<treeVars, supVars>>

SupervisorInit == TreeInit /\ SupInit

SupervisorSpec == SupervisorInit /\ [][SupervisorNext]_allVars
SupervisorFairSpec == SupervisorSpec /\ WF_allVars(SupervisorStep) /\ WF_allVars(ReapDeadline)

\* Type correctness of the processes and of the supervisor.
SupervisorTypeOK == TreeTypeOK /\ SupTypeOK

Empty == \A p \in Candidates : ~Alive(p)
Wrote(r) == \E i \in DOMAIN records : records[i] = r

\* A supervisor that says COMPLETE, and not that something could not be
\* contained, has outlived every process of the command: orphans, daemons in
\* a session of their own, and what those left when they were killed.
CompleteMeansReaped == Wrote("COMPLETE") /\ ~Wrote("SURVIVOR_UNCONTAINED") => Empty

\* The parent of p is the supervisor or is older than p and lives.
Kept(p) == parent[p] = Supervisor \/ (parent[p] \in 1..(p - 1) /\ Alive(parent[p]))

\* As long as the supervisor lives no process of the command escapes to init:
\* every one has a parent that is the supervisor or is older and still lives.
NoneEscapes == Alive(Supervisor) => \A p \in Candidates : Exists(p) => Kept(p)

\* In the bounded mode the supervisor does not wait for the survivors of a
\* leader that has ended, not even for those that SIGKILL does not remove.
BoundedSupervisorLeaves ==
    (bound /\ sup = "reap") ~> (sup = "left" \/ ~Alive(Supervisor) \/ state[Supervisor] = "doomed")
=============================================================================

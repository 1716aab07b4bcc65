----------------------------- MODULE WindowsJob -----------------------------
(***************************************************************************)
(* windows_job.py: a process created suspended, put into a kill-on-close   *)
(* job and only then resumed, and every way that can fail half-way.  The   *)
(* handles belong to the lane's process.                                   *)
(***************************************************************************)
EXTENDS MacService

JobVars == <<platform, born, harmed, sidecar, pidFile, route>>
WindowsAt(label) == platform = "windows" /\ ctl.at = label
Members == {p \in Procs : proc[p].job /\ proc[p].st \in {"live", "suspended"}}

NoJob == [attached |-> FALSE, open |-> FALSE]

\* Closing the last handle kills the members.
Closed(table) ==
    [p \in Procs |-> IF table[p].job THEN [table[p] EXCEPT !.st = "gone"] ELSE table[p]]

\* Mutant of CreateSuspended: the process runs from its creation on.
CreateRunning ==
    /\ WindowsAt("launch")
    /\ \E n \in {Initial, Replacement} :
          /\ Free(n)
          /\ proc' = [proc EXCEPT ![Replacement] = Newborn("live", n, n, FALSE)]
    /\ born' = born \cup {Replacement}
    /\ ctl' = Goto("j_create")
    /\ UNCHANGED <<job, platform, harmed, sidecar, pidFile, route>>

\* CreateProcess with CREATE_SUSPENDED.
CreateSuspended ==
    /\ WindowsAt("launch")
    /\ \E n \in {Initial, Replacement} :
          /\ Free(n)
          /\ proc' = [proc EXCEPT ![Replacement] = Newborn("suspended", n, n, FALSE)]
    /\ born' = born \cup {Replacement}
    /\ ctl' = Goto("j_create")
    /\ UNCHANGED <<job, platform, harmed, sidecar, pidFile, route>>

\* The job object with its kill-on-close limit.  A job that cannot be
\* configured is closed, at most twice, before the failure is raised.
CreateJob ==
    /\ WindowsAt("j_create")
    /\ \/ job' = [job EXCEPT !.open = TRUE] /\ ctl' = Goto("j_assign")
       \/ UNCHANGED job /\ ctl' = Goto("j_direct")
    /\ UNCHANGED <<proc, JobVars>>

\* The handle is attached to the Popen object after a timely assignment.
AssignJob ==
    /\ WindowsAt("j_assign")
    /\ \/ /\ proc' = [proc EXCEPT ![Replacement].job = TRUE]
          /\ \/ job' = [job EXCEPT !.attached = TRUE] /\ ctl' = Goto("j_resume")
             \/ UNCHANGED job /\ ctl' = Goto("j_undo")          \* after the deadline
       \/ UNCHANGED <<proc, job>> /\ ctl' = Goto("j_direct")
    /\ UNCHANGED JobVars

\* ResumeThread, or a failure to find, open or resume the one thread; it may
\* also be reported too late, with the process running.
Resume ==
    /\ WindowsAt("j_resume")
    /\ \/ /\ proc[Replacement].st = "suspended"
          /\ proc' = [proc EXCEPT ![Replacement].st = "live"]
          /\ ctl' \in {[Goto("popened") EXCEPT !.handle = TRUE], Goto("j_undo")}
       \/ UNCHANGED proc /\ ctl' = Goto("j_undo")
    /\ UNCHANGED <<job, JobVars>>

\* attach_and_resume fails with an assigned job: terminate it, then close it.
\* A handle that cannot be closed stays attached.
UndoJob ==
    /\ WindowsAt("j_undo")
    /\ \/ proc' = Closed(proc) /\ job' = NoJob
       \/ UNCHANGED <<proc, job>>
    /\ ctl' = Raise(ctl)
    /\ UNCHANGED JobVars

\* Without an assignment the suspended process itself is terminated, if that
\* works; the empty job is closed, if there is one.
TerminateUnassigned ==
    /\ WindowsAt("j_direct")
    /\ \/ proc' = [proc EXCEPT ![Replacement].st = "gone"]
       \/ UNCHANGED proc
    /\ job' = NoJob
    /\ ctl' = Raise(ctl)
    /\ UNCHANGED JobVars

\* TerminateJobObject; the members end at some later time.
TerminateJob ==
    /\ WindowsAt("w_job") /\ job.attached
    /\ ctl' = Goto("w_jobterm")
    /\ UNCHANGED <<job, proc, JobVars>>

\* ActiveProcesses = 0, asked until the deadline.
ProveJobEmpty ==
    /\ WindowsAt("w_jobterm") /\ Members = {}
    /\ ctl' = Goto("w_reap")
    /\ UNCHANGED <<job, proc, JobVars>>

\* _close_job_with_retry: closed in time, closed too late, or not closed.
CloseJob ==
    /\ WindowsAt("w_close")
    /\ \/ /\ proc' = Closed(proc) /\ job' = NoJob
          /\ ctl' \in {[ctl EXCEPT !.handle = FALSE, !.proven = TRUE, !.at = "w_closed"],
                       Raise(ctl)}
       \/ /\ UNCHANGED <<proc, job>>
          /\ ctl' = Raise(ctl)
    /\ UNCHANGED JobVars

JobNext ==
    \/ CreateSuspended \/ CreateJob \/ AssignJob \/ Resume
    \/ UndoJob \/ TerminateUnassigned
    \/ TerminateJob \/ ProveJobEmpty \/ CloseJob
=============================================================================

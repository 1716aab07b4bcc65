--------------------------- MODULE ServiceControl ---------------------------
(***************************************************************************)
(* HostedServiceProcessController of hosted/cli.py and what the three      *)
(* platform controllers share with it: construction, identity proofs, the  *)
(* process-loss scenario with its restart, and the way out of a failure.   *)
(*                                                                         *)
(* ctl is the controller: at is its next command, ret where an identity    *)
(* proof returns to, op what it was asked to do.  Every command is bounded *)
(* and every one of them may fail or find its deadline passed; both raise. *)
(* known, listed, rest and todo are what a termination knows, has still to *)
(* probe and has still to kill; seen and taken are history: what Linux has *)
(* captured, and who answered macOS under a number listed for another.     *)
(***************************************************************************)
EXTENDS ServiceHost

VARIABLES
    ctl,
    job     \* the Windows job object of the replacement

controlVars == <<ctl, job>>

Goto(label) == [ctl EXCEPT !.at = label]
Verify(c, then) == [c EXCEPT !.at = "verify", !.ret = then]
Idle(c) == [c EXCEPT !.at = "idle", !.ret = "idle", !.op = "none",
                     !.obs = Nobody, !.known = {}, !.todo = {}, !.owned = FALSE,
                     !.listed = {}, !.rest = {}]

ControlInit ==
    /\ ctl = [at |-> "create", ret |-> "idle", op |-> "create", pid |-> Initial,
              obs |-> Nobody, init |-> Nobody, repl |-> Nobody, restarts |-> 0,
              known |-> {}, seen |-> {}, todo |-> {}, owned |-> FALSE,
              listed |-> {}, rest |-> {}, taken |-> {},
              loss |-> "none", fin |-> "none", handle |-> FALSE, proven |-> FALSE]
    /\ job = [attached |-> FALSE, open |-> FALSE]

\* Where an exception ends up.  A start that fails on Windows after the
\* process exists first cleans up what it owns (_cleanup_start_failure).
Raise(c) ==
    CASE c.op = "create" -> [Idle(c) EXCEPT !.at = "exiting"]
      [] c.op = "loss" /\ c.handle -> [c EXCEPT !.op = "undo", !.at = "w_job"]
      [] c.op \in {"loss", "undo"} /\ ~(c.op = "loss" /\ c.handle) ->
            [Idle(c) EXCEPT !.loss = "failed"]
      [] c.op = "finalize" -> [Idle(c) EXCEPT !.at = "exiting", !.fin = "failed"]
      [] c.op = "outer" -> [c EXCEPT !.at = "o_fallback"]

\* Commands that only look, or whose failure changes nothing.
Commands == {"verify", "stat", "kill", "wait", "start", "launch", "pid", "ready",
             "f_alive", "f_zombie", "f_tree", "f_tree2", "f_term", "f_grace", "f_root",
             "f_stat", "f_kill", "f_group_id", "f_group", "f_wait",
             "m_first", "m_own", "m_pass", "m_probe", "m_rootid", "m_group", "m_each", "m_kill", "m_census",
             "b_alive", "w_snap", "w_check", "w_stop", "w_verify", "w_late",
             "w_finalize", "w_jobterm", "w_reap", "w_evidence"}

\* A command times out, cannot be run, prints something else than expected or
\* finds the deadline passed.
CommandFails ==
    /\ ctl.at \in Commands
    /\ ctl' = Raise(ctl)
    /\ UNCHANGED <<job, hostVars>>

-----------------------------------------------------------------------------
\* Identity proofs.

Expected == IF ctl.repl # Nobody THEN ctl.repl ELSE ctl.init

\* Linux asks for the executable first, in a command of its own.
VerifyExecutable ==
    /\ platform = "linux" /\ ctl.at = "verify"
    /\ Holder(ctl.pid) \in Services /\ Live(Holder(ctl.pid))
    /\ ctl' = Goto("stat")
    /\ UNCHANGED <<job, hostVars>>

\* Mutant of VerifyIdentity: the identity is read but not compared.
VerifyAnybody ==
    LET found == Holder(ctl.pid)
    IN  /\ ctl.at = IF platform = "linux" THEN "stat" ELSE "verify"
        /\ found # Nobody
        /\ platform # "linux" => found \in Services /\ Live(found)
        /\ ctl' = [ctl EXCEPT !.at = ctl.ret, !.obs = found]
        /\ Proved
        /\ UNCHANGED <<job, platform, proc, harmed, sidecar, pidFile, route>>

\* macOS and Windows read path and start time in one probe.  The start time
\* Linux reads may be another process's than the executable was.
VerifyIdentity ==
    LET found == Holder(ctl.pid)
    IN  /\ ctl.at = IF platform = "linux" THEN "stat" ELSE "verify"
        /\ found # Nobody
        /\ platform # "linux" => found \in Services /\ Live(found)
        /\ Expected \in {Nobody, found}
        /\ ctl' = [ctl EXCEPT !.at = ctl.ret, !.obs = found]
        /\ Proved
        /\ UNCHANGED <<job, platform, proc, harmed, sidecar, pidFile, route>>

-----------------------------------------------------------------------------
\* The sidecar is replaced as a whole, or the write fails and raises.
Persist(value, c, label) ==
    \/ sidecar' = value /\ ctl' = [c EXCEPT !.at = label]
    \/ UNCHANGED sidecar /\ ctl' = Raise(c)

\* Construction of the controller, over the sidecar the workflow wrote.

Create ==
    /\ ctl.at = "create"
    /\ sidecar \in Services
    /\ pidFile' = ctl.pid
    /\ ctl' = [Verify(ctl, "adopt") EXCEPT
                 !.init = IF platform = "macos" THEN Nobody ELSE sidecar]
    /\ UNCHANGED <<job, platform, proc, born, harmed, sidecar, route>>

\* Linux trusts the sidecar it was given; the others write it anew.
Adopt ==
    /\ ctl.at = "adopt"
    /\ LET c == Idle([ctl EXCEPT !.init = ctl.obs])
       IN  IF platform = "linux"
           THEN ctl' = c /\ UNCHANGED sidecar
           ELSE \/ sidecar' = ctl.obs /\ ctl' = c
                \/ UNCHANGED sidecar /\ ctl' = Raise(ctl)
    /\ UNCHANGED <<job, platform, proc, born, harmed, pidFile, route>>

-----------------------------------------------------------------------------
\* The process-loss scenario.  The catalogue has it once.

\* Mutant of LossBegins: the loss may be asked for again.
LossBeginsAgain ==
    /\ ctl.at = "idle"
    /\ ctl' = [Verify(ctl, IF platform = "linux" THEN "again" ELSE "terminate")
                 EXCEPT !.op = "loss"]
    /\ UNCHANGED <<job, hostVars>>

\* Linux proves the identity twice, next to each other.
LossBegins ==
    /\ ctl.at = "idle" /\ ctl.loss = "none"
    /\ ctl' = [Verify(ctl, IF platform = "linux" THEN "again" ELSE "terminate")
                 EXCEPT !.op = "loss"]
    /\ UNCHANGED <<job, hostVars>>

VerifyAgain ==
    /\ ctl.at = "again"
    /\ ctl' = Verify(ctl, "kill")
    /\ UNCHANGED <<job, hostVars>>

\* sudo kill -KILL pid
KillPredecessor ==
    /\ ctl.at = "kill" /\ Listing(ctl.pid) # {}
    /\ Signal(Listing(ctl.pid))
    /\ ctl' = Goto("wait")
    /\ UNCHANGED <<job, platform, proc, born, sidecar, pidFile, route>>

\* _wait_dead: Linux takes a zombie for dead, the others wait until the number
\* is gone.
WaitDead ==
    /\ ctl.at = "wait"
    /\ \A p \in Listing(ctl.pid) : platform = "linux" /\ proc[p].st = "zombie"
    /\ ctl' = Goto("start")
    /\ UNCHANGED <<job, hostVars>>

\* Mutant of StartBegins: the predecessor's sidecar is left in place.
StartUnderOldSidecar ==
    /\ ctl.at = "start"
    /\ ctl' = [ctl EXCEPT !.restarts = @ + 1, !.proven = FALSE, !.at = "launch"]
    /\ UNCHANGED <<job, hostVars>>

\* _start up to the launch: the predecessor's sidecar is invalidated first.
\* The restart counts even when that write fails.
StartBegins ==
    /\ ctl.at = "start"
    /\ Persist(Pending, [ctl EXCEPT !.restarts = @ + 1, !.proven = FALSE], "launch")
    /\ UNCHANGED <<job, platform, proc, born, harmed, pidFile, route>>

Newborn(st, n, g, inJob) ==
    [st |-> st, pid |-> n, parent |-> Nobody, group |-> g, root |-> Replacement,
     job |-> inJob]

\* The number the launcher reports is the service's; the identities kept so
\* far are dropped, and the new one is to be proved.
Launched(n) ==
    Verify([ctl EXCEPT !.pid = n, !.init = Nobody, !.repl = Nobody], "commit")

\* run_detached: the launcher prints the number of the process it left
\* behind.  It may also fail without one, or report a failure although the
\* process runs (deadline exceeded, output error, a kill that missed it).
LaunchDetached ==
    /\ POSIX /\ ctl.at = "launch"
    /\ \E n \in {Initial, Replacement} :
          /\ Free(n)
          /\ proc' = [proc EXCEPT ![Replacement] =
                        Newborn("live", n,
                                IF platform = "linux" THEN LauncherGroup ELSE n, FALSE)]
          /\ ctl' \in {Launched(n), Raise(ctl)}
    /\ platform = "linux" => Free(LauncherGroup)
    /\ born' = born \cup {Replacement}
    /\ UNCHANGED <<job, platform, harmed, sidecar, pidFile, route>>

\* The identity is committed to memory, then to the sidecar.
Commit ==
    /\ ctl.at = "commit"
    /\ Persist(ctl.obs, [ctl EXCEPT !.repl = ctl.obs], "pid")
    /\ UNCHANGED <<job, platform, proc, born, harmed, pidFile, route>>

WritePid ==
    /\ ctl.at = "pid"
    /\ pidFile' = ctl.pid
    /\ ctl' = Goto("ready")
    /\ UNCHANGED <<job, platform, proc, born, harmed, sidecar, route>>

\* The number is live and the control socket answers; the identity is proved
\* once more before the restart counts.
Ready ==
    /\ ctl.at = "ready"
    /\ \E p \in Listing(ctl.pid) : platform = "linux" => Live(p)
    /\ ctl' = Verify(ctl, "restarted")
    /\ UNCHANGED <<job, hostVars>>

Restarted ==
    /\ ctl.at = "restarted"
    /\ ctl' = [Idle(ctl) EXCEPT !.loss = "ok"]
    /\ UNCHANGED <<job, hostVars>>

-----------------------------------------------------------------------------
\* Finalization, once, when the scenarios are through.  What the base adapter
\* does first (disconnect, remove the profile) may fail; then the service is
\* not looked at any more.

Cleaned(c) == [Idle(c) EXCEPT !.at = "exiting", !.fin = "clean"]

FinalizeBegins ==
    /\ ctl.at = "idle"
    /\ \/ ctl' = [Idle(ctl) EXCEPT !.at = "exiting", !.fin = "failed"]
       \/ /\ ctl.restarts = 0
          /\ ctl' = Cleaned(ctl)
       \/ /\ ctl.restarts > 0
          /\ ctl' = [ctl EXCEPT !.op = "finalize",
                                !.at = CASE platform = "linux" -> "f_alive"
                                         [] platform = "macos" -> "b_alive"
                                         [] platform = "windows" -> "w_finalize"]
    /\ UNCHANGED <<job, hostVars>>

\* Mutant of BaseFinalize: a dead root is taken for a clean tree.
CleanOnceRootDead ==
    /\ ctl.at = "b_alive" /\ ctl.repl # Nobody
    /\ ctl' = IF Listing(ctl.pid) # {} THEN Verify(ctl, "terminate") ELSE Cleaned(ctl)
    /\ UNCHANGED <<job, hostVars>>

\* The base finalizer, which macOS uses: without a committed identity nothing
\* is touched; a dead root is no proof about its descendants.
BaseFinalize ==
    /\ ctl.at = "b_alive" /\ ctl.repl # Nobody
    /\ ctl' = IF Listing(ctl.pid) # {} THEN Verify(ctl, "terminate") ELSE Goto("terminate")
    /\ UNCHANGED <<job, hostVars>>

-----------------------------------------------------------------------------
\* The lane ends or is killed.  With the process go its handles, and with the
\* last handle of a kill-on-close job its members.
InLane == ctl.op \notin {"gone", "outer"}

LaneEnds ==
    /\ InLane
    /\ proc' = [p \in Procs |-> IF proc[p].job THEN [proc[p] EXCEPT !.st = "gone"] ELSE proc[p]]
    /\ job' = [attached |-> FALSE, open |-> FALSE]
    /\ ctl' = [Idle(ctl) EXCEPT !.at = "o_read", !.op = "gone", !.init = Nobody,
                                !.repl = Nobody, !.handle = FALSE]
    /\ UNCHANGED <<platform, born, harmed, sidecar, pidFile, route>>

ControlNext ==
    \/ CommandFails
    \/ VerifyExecutable \/ VerifyIdentity
    \/ Create \/ Adopt
    \/ LossBegins \/ VerifyAgain \/ KillPredecessor \/ WaitDead
    \/ StartBegins \/ LaunchDetached \/ Commit \/ WritePid \/ Ready \/ Restarted
    \/ FinalizeBegins \/ BaseFinalize
    \/ LaneEnds

-----------------------------------------------------------------------------
\* The places of the controller and of the cleanup after it, by what is done there.

\* The predecessor is stopped, and everything up to the launch.
StopsExternal == {"w_snap", "w_check", "w_stop", "w_verify", "w_late"}
StopsPredecessor == {"again", "kill", "terminate", "wait", "start",
                     "m_first", "m_own", "m_pass", "m_probe", "m_rootid", "m_group", "m_each", "m_kill", "m_census"}
                    \cup StopsExternal
\* The replacement is launched; on Windows it is put into its job on the way.
Owns == {"j_create", "j_assign", "j_resume", "j_direct", "j_undo", "popened"}
Restarts == Owns \cup {"launch", "commit", "pid", "ready", "restarted"}
\* It is stopped.
StopsJob == {"w_job", "w_jobterm", "w_reap", "w_close", "w_closed"}
StopsOnLinux == {"f_alive", "f_zombie", "f_tree", "f_tree2", "f_term", "f_grace", "f_root",
                 "f_stat", "f_kill", "f_group_id", "f_group", "f_wait"}
StopsOnMac == {"b_alive", "terminate", "m_first", "m_own", "m_pass", "m_probe", "m_rootid", "m_group", "m_each",
               "m_kill", "m_census"}
\* The cleanup after the lane.
Ended == {"r_probe", "r_decide", "r_verify", "done"}
Outside == Ended \cup StopsExternal \cup
           {"o_live", "o_id", "o_id2", "o_term", "o_kill", "o_stop", "o_stop2", "o_children",
            "o_stopped", "o_fallback", "o_leader"}

Labels == {"create", "adopt", "idle", "exiting", "verify", "stat", "w_finalize", "w_evidence", "o_read"}
          \cup StopsPredecessor \cup Restarts \cup StopsJob \cup StopsOnLinux \cup StopsOnMac
          \cup Outside

Controllers ==
    [at : Labels, ret : Labels, pid : Nat, restarts : {0, 1},
     op : {"create", "none", "loss", "undo", "finalize", "gone", "outer"},
     obs : Procs \cup {Nobody}, init : Procs \cup {Nobody}, repl : Procs \cup {Nobody},
     known : SUBSET Procs, seen : SUBSET Procs, todo : SUBSET Procs,
     listed : SUBSET Procs, rest : SUBSET Procs, taken : SUBSET Procs,
     owned : BOOLEAN, handle : BOOLEAN, proven : BOOLEAN,
     loss : {"none", "ok", "failed"}, fin : {"none", "clean", "failed"}]

ControlTypeOK == ctl \in Controllers /\ job \in [attached : BOOLEAN, open : BOOLEAN]
=============================================================================

--------------------------- MODULE WindowsService ---------------------------
(***************************************************************************)
(* WindowsServiceProcessController of hosted/windows.py: the service the   *)
(* workflow launched is outside any job and is stopped by identity, with   *)
(* censuses before and after; a replacement is owned through its job.      *)
(***************************************************************************)
EXTENDS WindowsJob

Watch == UNCHANGED <<job, proc, born, harmed, platform, sidecar, pidFile, route>>

\* After a Popen has returned its pid is the service's; the identity follows.
Popened ==
    /\ WindowsAt("popened")
    /\ ctl' = IF job.attached
              THEN Launched(proc[Replacement].pid)
              ELSE Raise(ctl)
    /\ Watch

TerminateOnWindows ==
    /\ WindowsAt("terminate")
    /\ ctl' = Goto(IF ctl.handle THEN "w_job" ELSE "w_snap")
    /\ Watch

\* _snapshot_external_tree: every member with its identity, the expected root
\* among them; then the root's identity once more.
SnapshotTree ==
    /\ WindowsAt("w_snap")
    /\ ctl.init # Nobody /\ Holder(ctl.pid) = ctl.init
    /\ ctl' = Verify([ctl EXCEPT !.known = {ctl.init} \cup TreeOfPid(ctl.pid)], "w_check")
    /\ Watch

\* The stop script compares path and creation time itself ...
StopScriptChecks ==
    /\ WindowsAt("w_check")
    /\ Holder(ctl.pid) = ctl.obs /\ Live(ctl.obs)
    /\ ctl' = Goto("w_stop")
    /\ Proved
    /\ UNCHANGED <<job, proc, harmed, platform, sidecar, pidFile, route>>

\* ... and stops whatever has the number then.
StopScriptStops ==
    /\ WindowsAt("w_stop") /\ Listing(ctl.pid) # {}
    /\ Signal(Listing(ctl.pid))
    /\ ctl' = Goto("w_verify")
    /\ UNCHANGED <<job, proc, born, platform, sidecar, pidFile, route>>

VerifyTreeGone ==
    /\ WindowsAt("w_verify")
    /\ \A p \in ctl.known : ~Listed(p)
    /\ ctl' = Goto("w_late")
    /\ Watch

\* Children forked after the snapshot are found by their parent's number.
LateDescendants ==
    /\ WindowsAt("w_late")
    /\ TreeOfPid(ctl.pid) = {}
    /\ ctl' = IF ctl.op = "outer" THEN Goto("o_stopped")
              ELSE [Goto("wait") EXCEPT !.known = {}]
    /\ Watch

\* _terminate_replacement without a job: the leader is killed by its handle,
\* and nothing is certified.
LeaderOnly ==
    /\ WindowsAt("w_job") /\ ~job.attached
    /\ ctl' = Raise(ctl)
    /\ Watch

\* The leader is waited for by its handle before the job is closed.
ReapLeader ==
    /\ WindowsAt("w_reap") /\ ~Listed(Replacement)
    /\ ctl' = Goto("w_close")
    /\ Watch

\* After a failed start the clean-up's success does not undo the failure.
TerminatedReplacement ==
    /\ WindowsAt("w_closed")
    /\ ctl' = IF ctl.op = "undo" THEN Raise(ctl) ELSE Goto("w_evidence")
    /\ Watch

\* finalize_restarted_service: the job is the authority once a Popen has
\* returned, even if no identity was committed.
FinalizeWindows ==
    /\ WindowsAt("w_finalize")
    /\ ctl' = CASE ctl.handle /\ (ctl.repl = Nobody \/ Listing(ctl.pid) = {}) -> Goto("w_job")
                [] ctl.handle /\ ctl.repl # Nobody /\ Listing(ctl.pid) # {} -> Verify(ctl, "w_job")
                [] ~ctl.handle /\ ctl.proven -> Goto("w_evidence")
                [] ~ctl.handle /\ ~ctl.proven -> Raise(ctl)
    /\ Watch

\* finalize_evidence: nobody may have the number any more.
FinalizeEvidence ==
    /\ WindowsAt("w_evidence") /\ Listing(ctl.pid) = {}
    /\ ctl' = IF ctl.proven THEN Cleaned(ctl) ELSE Raise(ctl)
    /\ Watch

WindowsNext ==
    \/ Popened \/ TerminateOnWindows
    \/ SnapshotTree \/ StopScriptChecks \/ StopScriptStops \/ VerifyTreeGone \/ LateDescendants
    \/ LeaderOnly \/ ReapLeader \/ TerminatedReplacement
    \/ FinalizeWindows \/ FinalizeEvidence
    \/ JobNext
=============================================================================

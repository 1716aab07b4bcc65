---------------------------- MODULE LinuxService ----------------------------
(***************************************************************************)
(* LinuxServiceProcessController.stop_restarted_service of                 *)
(* hosted/linux.py: the replacement's tree is captured twice, its group is *)
(* asked to terminate, and what resists is killed, by its own identity     *)
(* where it has left the group.                                            *)
(***************************************************************************)
EXTENDS ServiceControl

LinuxVars == <<job, platform, proc, sidecar, pidFile, route>>
At(label) == platform = "linux" /\ ctl.at = label
Look == UNCHANGED <<born, harmed>> /\ UNCHANGED LinuxVars

Root == Holder(ctl.pid)
Group == proc[ctl.repl].group

\* _tracked_tree: a census, then the precise stat of every member.  It stands
\* only if the root is the committed one and nobody else is in its group.
Captured == Tree(Root)
Isolated ==
    /\ Root # Nobody /\ Root = ctl.repl
    /\ \A p \in Procs : Listed(p) /\ proc[p].group = Group => p \in Captured

\* _replacement_records over the captured tree.
Survivors(tree) == {p \in tree : Live(p)}
Reused(tree) == \E p \in tree : ~Listed(p) /\ Listing(proc[p].pid) # {}

\* A dead root is accepted only as the zombie of the committed identity.
FinalizeLinux ==
    /\ At("f_alive") /\ ctl.repl # Nobody
    /\ \/ /\ Root # Nobody /\ Live(Root)
          /\ ctl' = Verify(ctl, "f_tree")
       \/ /\ Root = ctl.repl /\ ~Live(Root)
          /\ ctl' = Goto("f_zombie")
    /\ Look

\* A tree of zombies is clean; otherwise the identity has to be proved.
ZombieRoot ==
    /\ At("f_zombie") /\ Isolated
    /\ ctl' = IF Survivors(Captured) = {}
              THEN Cleaned(ctl)
              ELSE Verify([ctl EXCEPT !.known = Captured, !.seen = Captured], "f_tree")
    /\ Look

\* The second census is adjacent to the signal, but for the identity proof.
CaptureTree ==
    /\ At("f_tree") /\ Isolated
    /\ ctl' = [ctl EXCEPT !.known = Captured, !.seen = @ \cup Captured, !.at = "f_tree2"]
    /\ Look

CaptureAgain ==
    /\ At("f_tree2") /\ Isolated
    /\ ctl' = Verify([ctl EXCEPT !.known = Captured, !.seen = @ \cup Captured], "f_term")
    /\ Look

TermGroup ==
    /\ At("f_term") /\ InGroup(Group) # {}
    /\ Signal(InGroup(Group))
    /\ ctl' = Goto("f_grace")
    /\ UNCHANGED born /\ UNCHANGED LinuxVars

\* The grace period ends with everybody gone or with survivors.
Grace ==
    /\ At("f_grace") /\ ~Reused(ctl.known)
    /\ ctl' = IF Survivors(ctl.known) = {} THEN Cleaned(ctl)
              ELSE [ctl EXCEPT !.at = "f_root", !.todo = Survivors(ctl.known)]
    /\ Look

\* With the root still in the table its group is captured once more; without
\* it the group's number may be somebody else's.
Escalate ==
    /\ At("f_root") /\ Root \in {Nobody, ctl.repl}
    /\ IF Root = Nobody
       THEN ctl' = [ctl EXCEPT !.at = "f_stat", !.owned = FALSE]
       ELSE /\ Isolated /\ ~Reused(Captured)
            /\ ctl' = IF Survivors(Captured) = {}
                      THEN Cleaned(ctl)
                      ELSE [ctl EXCEPT !.at = "f_stat", !.owned = TRUE, !.known = Captured,
                               !.todo = {p \in Survivors(Captured) : proc[p].group # Group}]
    /\ Look

\* Each escaped survivor is killed right after its identity was read again.
StatSurvivor ==
    /\ At("f_stat")
    /\ \E p \in ctl.todo :
          /\ Holder(proc[p].pid) = p
          /\ ctl' = [ctl EXCEPT !.obs = p, !.at = "f_kill"]
    /\ Proved
    /\ UNCHANGED harmed /\ UNCHANGED LinuxVars

KillSurvivor ==
    LET number == proc[ctl.obs].pid
    IN  /\ At("f_kill") /\ Listing(number) # {}
        /\ Signal(Listing(number))
        /\ ctl' = [ctl EXCEPT !.todo = @ \ {ctl.obs}, !.obs = Nobody, !.at = "f_stat"]
        /\ UNCHANGED born /\ UNCHANGED LinuxVars

SurvivorsKilled ==
    /\ At("f_stat") /\ ctl.todo = {}
    /\ ctl' = Goto(IF ctl.owned THEN "f_group_id" ELSE "f_wait")
    /\ Look

\* The group is killed only after the root's start and group were read again.
ProveGroup ==
    /\ At("f_group_id") /\ Root = ctl.repl
    /\ ctl' = Goto("f_group")
    /\ Proved
    /\ UNCHANGED harmed /\ UNCHANGED LinuxVars

KillGroup ==
    /\ At("f_group") /\ InGroup(Group) # {}
    /\ Signal(InGroup(Group))
    /\ ctl' = Goto("f_wait")
    /\ UNCHANGED born /\ UNCHANGED LinuxVars

WaitTree ==
    /\ At("f_wait") /\ ~Reused(ctl.known) /\ Survivors(ctl.known) = {}
    /\ ctl' = Cleaned(ctl)
    /\ Look

LinuxNext ==
    \/ FinalizeLinux \/ ZombieRoot \/ CaptureTree \/ CaptureAgain \/ TermGroup \/ Grace
    \/ Escalate \/ StatSurvivor \/ KillSurvivor \/ SurvivorsKilled
    \/ ProveGroup \/ KillGroup \/ WaitTree
=============================================================================

----------------------------- MODULE MacService -----------------------------
(***************************************************************************)
(* MacOSServiceProcessController._terminate of hosted/macos.py, used for   *)
(* the predecessor and for the replacement: passes of census, identity     *)
(* proofs and kills until nothing known is left and the group is empty.    *)
(***************************************************************************)
EXTENDS LinuxService

MacAt(label) == platform = "macos" /\ ctl.at = label

\* The root's group has the root's number (the launch script calls setsid).
OwnedGroup == InGroup(ctl.pid)
Topology == IF Root = Nobody THEN {} ELSE Tree(Root)

\* What capture() demands of one census.
CaptureHolds ==
    Root # Nobody => proc[Root].group = ctl.pid /\ OwnedGroup # {}

\* An identity probe is a command of its own: it finds whoever has the number
\* by then.  The service's number must answer with the service's executable; a
\* zombie has none, and the probe fails.
Answers(n, found) ==
    /\ found = Holder(n) /\ found # Nobody /\ Live(found)
    /\ n = ctl.pid => found \in Services

TerminateBegins ==
    /\ MacAt("terminate")
    /\ ctl' = Goto("m_first")
    /\ Look

\* Before any signal: the root is there, in a group of its own.
EstablishOwnership ==
    /\ MacAt("m_first") /\ Root # Nobody /\ CaptureHolds
    /\ ctl' = [ctl EXCEPT !.at = "m_own", !.known = {}, !.listed = OwnedGroup]
    /\ Look

\* Nothing is expected of a member that is seen for the first time: whoever
\* answers is known from now on, be it another than the census saw (taken).
ProbeMember ==
    /\ MacAt("m_own")
    /\ \E p \in ctl.listed :
          \/ /\ Listing(proc[p].pid) = {} /\ proc[p].pid # ctl.pid
             /\ ctl' = [ctl EXCEPT !.listed = @ \ {p}]
          \/ \E found \in Procs :
                /\ Answers(proc[p].pid, found)
                /\ ctl' = [ctl EXCEPT !.listed = @ \ {p}, !.known = @ \cup {found},
                                      !.taken = @ \cup ({found} \ {p})]
    /\ Look

\* Of the root an identity may be expected.
OwnershipProven ==
    /\ MacAt("m_own") /\ ctl.listed = {}
    /\ \E p \in ctl.known : proc[p].pid = ctl.pid /\ Expected \in {Nobody, p}
    /\ ctl' = Goto("m_pass")
    /\ Look

\* One pass: a census of the group and the tree, then a probe of each of
\* their members, then of everybody else known.
Current == OwnedGroup \cup Survivors(Topology)
Unlisted(records) == {k \in ctl.known : \A p \in records : proc[p].pid # proc[k].pid}

Pass ==
    /\ MacAt("m_pass") /\ CaptureHolds
    /\ ctl' = [ctl EXCEPT !.at = "m_probe", !.listed = Current, !.rest = Unlisted(Current),
                          !.owned = OwnedGroup # {} /\ OwnedGroup \subseteq Topology,
                          !.todo = {}, !.obs = Nobody]
    /\ Look

\* Whoever answers is a survivor (obs), and is killed on its own unless the
\* census listed the number in a group that is killed as a whole.
Survives(c, found, inGroup) ==
    [c EXCEPT !.obs = found, !.todo = IF ctl.owned /\ inGroup THEN @ ELSE @ \cup {found}]

\* A known number that answers with another identity is a hard stop; a new
\* one is known from now on, whoever it is.
ProbeCurrent ==
    /\ MacAt("m_probe")
    /\ \E p \in ctl.listed :
          \/ /\ Listing(proc[p].pid) = {}
             /\ ctl' = [ctl EXCEPT !.listed = @ \ {p}]
          \/ \E found \in Procs :
                /\ Answers(proc[p].pid, found)
                /\ \A k \in ctl.known : proc[k].pid = proc[p].pid => k = found
                /\ ctl' = Survives([ctl EXCEPT !.listed = @ \ {p}, !.known = @ \cup {found},
                                               !.taken = @ \cup ({found} \ {p})],
                                   found, proc[p].group = ctl.pid)
    /\ Look

ProbeKnown ==
    /\ MacAt("m_probe") /\ ctl.listed = {}
    /\ \E k \in ctl.rest :
          \/ /\ Listing(proc[k].pid) = {}
             /\ ctl' = [ctl EXCEPT !.rest = @ \ {k}]
          \/ /\ Answers(proc[k].pid, k)
             /\ ctl' = Survives([ctl EXCEPT !.rest = @ \ {k}], k, FALSE)
    /\ Look

\* Without a survivor the group is looked at once more; otherwise the kills begin.
ProbesEnd ==
    /\ MacAt("m_probe") /\ ctl.listed = {} /\ ctl.rest = {}
    /\ ctl' = Goto(IF ctl.obs = Nobody THEN "m_census"
                   ELSE IF ctl.owned THEN "m_rootid" ELSE "m_each")
    /\ Look

\* A broad signal needs a group of descendants only, and the root's proof.
ProveRoot ==
    /\ MacAt("m_rootid")
    /\ Root # Nobody /\ Live(Root) /\ Root \in ctl.known
    /\ ctl' = Goto("m_group")
    /\ Proved
    /\ UNCHANGED harmed /\ UNCHANGED LinuxVars

KillOwnedGroup ==
    /\ MacAt("m_group")
    /\ Signal(InGroup(ctl.pid))
    /\ ctl' = Goto("m_each")
    /\ UNCHANGED born /\ UNCHANGED LinuxVars

\* The rest one by one, each right after its own proof; who is gone is passed over.
ProveOne ==
    /\ MacAt("m_each")
    /\ \E p \in ctl.todo :
          \/ /\ Listing(proc[p].pid) = {}
             /\ ctl' = [ctl EXCEPT !.todo = @ \ {p}]
             /\ UNCHANGED born
          \/ /\ Holder(proc[p].pid) = p /\ Live(p)
             /\ ctl' = [ctl EXCEPT !.obs = p, !.at = "m_kill"]
             /\ Proved
    /\ UNCHANGED harmed /\ UNCHANGED LinuxVars

KillOne ==
    LET number == proc[ctl.obs].pid
    IN  /\ MacAt("m_kill")
        /\ Signal(Listing(number))
        /\ ctl' = [ctl EXCEPT !.todo = @ \ {ctl.obs}, !.obs = Nobody, !.at = "m_each"]
        /\ UNCHANGED born /\ UNCHANGED LinuxVars

PassEnds ==
    /\ MacAt("m_each") /\ ctl.todo = {}
    /\ ctl' = [ctl EXCEPT !.at = "m_pass", !.owned = FALSE]
    /\ Look

\* The root's disappearance is not enough: a full census must find the group
\* empty.
GroupEmpty ==
    /\ MacAt("m_census")
    /\ ctl' = IF OwnedGroup # {} THEN Goto("m_pass")
              ELSE IF ctl.op = "loss" THEN [Goto("wait") EXCEPT !.known = {}]
              ELSE Cleaned(ctl)
    /\ Look

MacNext ==
    \/ TerminateBegins \/ EstablishOwnership \/ ProbeMember \/ OwnershipProven
    \/ Pass \/ ProbeCurrent \/ ProbeKnown \/ ProbesEnd \/ ProveRoot \/ KillOwnedGroup
    \/ ProveOne \/ KillOne \/ PassEnds \/ GroupEmpty
=============================================================================

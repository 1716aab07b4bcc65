---------------------------- MODULE LeaseCleanup ----------------------------
(***************************************************************************)
(* "lease_cli cleanup" and "lease_cli begin-testing", and the exact-id     *)
(* deletion and namespace reaping that the cleanup command shares with the *)
(* unwinding of an acquisition.  A cleanup takes one of three branches:    *)
(* "active" (lease.json is issued or testing), "reverify" (absence was     *)
(* recorded before), "recover" (only the journal survived).                *)
(***************************************************************************)
EXTENDS LeaseAcquire

\* _cleanup_journal: both roles must have a record, and no record may name
\* another service than lease.json does.
JournalUsable == \A r \in Role : journal[r].state # "none"
JournalMatches == JournalUsable /\ \A r \in Role : journal[r].id \in {NoId, lease.ids[r]}

Verified(rec) == rec.state = "absent" /\ rec.result \in {"verified", "verified-namespace"}

\* The branch cleanup takes, or "refused" when the records conflict.
Branch ==
    IF lease.state = "none"
    THEN IF ~JournalUsable THEN "refused"
         ELSE IF \A r \in Role : Verified(journal[r]) THEN "reverify" ELSE "recover"
    ELSE IF ~JournalMatches THEN "refused"
    ELSE IF lease.state = "absent"
    THEN IF \A r \in Role : \/ journal[r].state = "deleting"
                            \/ journal[r].state = "absent" /\ journal[r].result = "verified"
         THEN "reverify" ELSE "refused"
    ELSE IF \A r \in Role : journal[r].state \in {"issued", "testing", "deleting", "absent"}
         THEN "active" ELSE "refused"

\* last_records, with the ids of lease.json where the branch takes those.
Snapshot == [r \in Role |-> IF Branch = "active" THEN [journal[r] EXCEPT !.id = lease.ids[r]]
                                                 ELSE journal[r]]

----------------------------------------------------------------------------
\* The loops of the three branches; snap is the view they iterate over.
Known(snap) == {snap[r].id : r \in Role} \ {NoId}
Unknown(snap) == {r \in Role : snap[r].id = NoId}

\* Roles that get a "deleting" record before any provider call.
NeedsIntent(mode, snap) ==
    {r \in Role : \/ mode = "recover" /\ snap[r].state # "deleting"
                  \/ mode = "active" /\ snap[r].state \notin {"deleting", "absent"}}

\* Mutant: a role already marked "deleting" is taken for deleted.
NeedsDeleteOnce(mode, snap) ==
    {r \in Role : snap[r].id # NoId /\ snap[r].state # "deleting"}

\* Roles whose exact id is deleted (or, in reverify, first looked up).
NeedsDelete(mode, snap) ==
    {r \in Role : /\ snap[r].id # NoId
                  /\ mode = "active" => ~(snap[r].state = "absent" /\ snap[r].result = "verified")}

\* Mutant: the reap is never entitled to a service without an id.
ProvingNone(c, snap) ==
    IF c.failed /\ c.mode # "reverify" THEN [c EXCEPT !.at = "failed"]
    ELSE Reap(c, Known(snap), 0, "command")

\* Mutant: the reap may delete one service per role, known or not.
ProvingAll(c, snap) ==
    IF c.failed /\ c.mode # "reverify" THEN [c EXCEPT !.at = "failed"]
    ELSE Reap(c, {}, 2, "command")

\* After the exact ids: recover and active stop if one failed, reverify
\* still proves the namespace; as many unidentified services may be deleted
\* as the journal has roles without an id.
Proving(c, snap) ==
    IF c.failed /\ c.mode # "reverify" THEN [c EXCEPT !.at = "failed"]
    ELSE Reap(c, Known(snap), Cardinality(Unknown(snap)), "command")

Deleting(c, roles, snap) ==
    Loop(c, IF c.mode = "reverify" THEN "probe" ELSE "delete", roles, Proving(c, snap))

Intending(c, roles, snap) ==
    Loop(c, "intent", roles, Deleting(c, NeedsDelete(c.mode, snap), snap))

Settling(c, roles) ==
    Loop(c, "settle", roles, [c EXCEPT !.at = IF c.failed THEN "failed" ELSE "ok"])

\* One more exact id is done.
NextDelete(c) == Deleting(c, c.todo, view)

\* Where an exact-id failure leads: RenderLease gives up on this lease, the
\* cleanup command journals it and goes on.
DeleteFailed(c) ==
    IF c.mode = "acquire" THEN LeaseOver(FALSE) ELSE [c EXCEPT !.at = "unverified"]

\* reap_tagged and assert_tagged_absent returned, or raised.
Proved(c) ==
    CASE c.level \in {"lease", "bundle"} -> [c EXCEPT !.at = "settled"]
      [] c.level = "proof" -> RoundOver(c)
      [] c.level = "command" /\ c.mode = "active" -> [c EXCEPT !.at = "file"]
      [] OTHER -> Settling(c, UnknownRoles)
Unproved(c) ==
    CASE c.level \in {"lease", "bundle"} -> [c EXCEPT !.at = "unproven"]
      [] c.level = "proof" -> RoundOver(c)
      [] OTHER -> [c EXCEPT !.at = "failed"]

NextCandidate(c) == [c EXCEPT !.at = IF c.cands = {} THEN "relist" ELSE "reap"]

----------------------------------------------------------------------------
\* RenderAPI.delete_service: 204 and 404 both count as deleted; a DELETE
\* whose answers are lost raises although it may have taken effect.
Delete ==
    /\ At("delete")
    /\ LET c == Spent(cmd)
           id == view[cmd.role].id
       IN  \/ DeleteService(id) /\ cmd' = [c EXCEPT !.at = "verify"] /\ NoFault
           \/ DeleteService(id) /\ cmd' = DeleteFailed(c) /\ Fault
           \/ UNCHANGED account /\ cmd' = DeleteFailed(c) /\ Fault
    /\ UNCHANGED <<disk, view, exit>>

\* RenderAPI.exists after the deletion: anything but a 404 is a failure.
Verify ==
    /\ At("verify")
    /\ LET c == Spent(cmd)
       IN  \/ /\ cmd' = IF view[cmd.role].id \in live THEN DeleteFailed(c)
                        ELSE [c EXCEPT !.at = "closed"]
              /\ NoFault
           \/ cmd' = DeleteFailed(c) /\ Fault
    /\ UNCHANGED <<account, disk, view, exit>>

\* Mutant: the candidate limit is not enforced.
ListUnlimited ==
    /\ At("list")
    /\ LET c == Spent(cmd)
       IN  \/ /\ ListServices /\ NoFault
              /\ cmd' = NextCandidate([c EXCEPT !.cands = Tagged(cmd.active)])
           \/ UNCHANGED account /\ cmd' = Unproved(c) /\ Fault
    /\ UNCHANGED <<disk, view, exit>>

\* reap_tagged's first list: too many candidates are refused before any is
\* deleted.  (Own services are never younger than the age bound 0.)
List ==
    /\ At("list")
    /\ LET c == Spent(cmd)
           cands == Tagged(cmd.active)
       IN  \/ /\ ListServices /\ NoFault
              /\ cmd' = IF Cardinality(cands) > cmd.bound THEN Unproved(c)
                        ELSE NextCandidate([c EXCEPT !.cands = cands])
           \/ UNCHANGED account /\ cmd' = Unproved(c) /\ Fault
    /\ UNCHANGED <<disk, view, exit>>

\* RenderReaper.reap: delete one candidate, then look it up.  A candidate
\* whose creation time lies ahead of this clock is skipped as too young.
ReapDelete ==
    /\ At("reap")
    /\ \E id \in cmd.cands :
        LET c == [Spent(cmd) EXCEPT !.cands = @ \ {id}, !.deleted = @ \cup {id}, !.target = id]
        IN  \/ DeleteService(id) /\ cmd' = [c EXCEPT !.at = "reapverify"] /\ NoFault
            \/ DeleteService(id) /\ cmd' = Unproved(c) /\ Fault
            \/ UNCHANGED account /\ cmd' = Unproved(c) /\ Fault
            \/ UNCHANGED account /\ cmd' = NextCandidate([cmd EXCEPT !.cands = @ \ {id}]) /\ Fault
    /\ UNCHANGED <<disk, view, exit>>

ReapVerify ==
    /\ At("reapverify")
    /\ LET c == [Spent(cmd) EXCEPT !.target = NoId]
       IN  \/ cmd' = (IF cmd.target \in live THEN Unproved(c) ELSE NextCandidate(c)) /\ NoFault
           \/ cmd' = Unproved(c) /\ Fault
    /\ UNCHANGED <<account, disk, view, exit>>

\* reap_tagged lists again even when it deleted nothing.
Relist ==
    /\ At("relist")
    /\ LET c == Spent(cmd)
       IN  \/ /\ ListServices /\ NoFault
              /\ cmd' = IF cmd.deleted \cap live # {} THEN Unproved(c)
                        ELSE [c EXCEPT !.at = "assert"]
           \/ UNCHANGED account /\ cmd' = Unproved(c) /\ Fault
    /\ UNCHANGED <<disk, view, exit>>

\* Mutant: the final proof still excludes the known ids.
AssertOthersAbsent ==
    /\ At("assert")
    /\ LET c == Spent(cmd)
       IN  \/ /\ ListServices /\ NoFault
              /\ cmd' = IF Tagged(cmd.active) # {} THEN Unproved(c) ELSE Proved(c)
           \/ UNCHANGED account /\ cmd' = Unproved(c) /\ Fault
    /\ UNCHANGED <<disk, view, exit>>

\* assert_tagged_absent: a lease's own reap still excludes the other lease;
\* every final proof excludes nothing.
AssertAbsent ==
    /\ At("assert")
    /\ LET c == Spent(cmd)
           excluded == IF cmd.level \in {"lease", "bundle"} THEN cmd.active ELSE {}
       IN  \/ /\ ListServices /\ NoFault
              /\ cmd' = IF Tagged(excluded) # {} THEN Unproved(c) ELSE Proved(c)
           \/ UNCHANGED account /\ cmd' = Unproved(c) /\ Fault
    /\ UNCHANGED <<disk, view, exit>>

ProviderStep == Delete \/ Verify \/ List \/ ReapDelete \/ ReapVerify \/ Relist \/ AssertAbsent

----------------------------------------------------------------------------
\* Journal writes of the cleanup command; its view stays the snapshot.

\* An append that raises here leaves the command at once.
Intent ==
    /\ At("intent")
    /\ AppendRecord(cmd.role, Rec("deleting", view[cmd.role].id, "none"),
              Intending(cmd, cmd.todo, view), To("failed"))
    /\ UNCHANGED <<account, lease, view, exit>>

\* _reverify_recorded_absence: is the recorded service really gone?
Probe ==
    /\ At("probe")
    /\ LET c == Spent(cmd)
           rec == view[cmd.role]
       IN  \/ /\ NoFault
              /\ cmd' = IF rec.id \in live THEN [c EXCEPT !.at = "redelete"]
                        ELSE IF rec.state = "absent" /\ rec.result = "verified" THEN NextDelete(c)
                        ELSE [c EXCEPT !.at = "closed"]
           \/ cmd' = [c EXCEPT !.at = "unverified"] /\ Fault
    /\ UNCHANGED <<account, disk, view, exit>>

Redelete ==
    /\ At("redelete")
    /\ AppendRecord(cmd.role, Rec("deleting", view[cmd.role].id, "none"),
              To("delete"), To("unverified"))
    /\ UNCHANGED <<account, lease, view, exit>>

Closed ==
    /\ At("closed") /\ cmd.mode \in CleanupMode
    /\ AppendRecord(cmd.role, Rec("absent", view[cmd.role].id, "verified"),
              NextDelete(cmd), To("unverified"))
    /\ UNCHANGED <<account, lease, view, exit>>

Unverified ==
    /\ At("unverified")
    /\ LET c == [cmd EXCEPT !.failed = TRUE]
       IN  AppendRecord(cmd.role, Rec("deleting", view[cmd.role].id, "delete-unverified"), NextDelete(c),
                  IF cmd.mode = "reverify" THEN NextDelete(c) ELSE To("failed"))
    /\ UNCHANGED <<account, lease, view, exit>>

Settle ==
    /\ At("settle")
    /\ AppendRecord(cmd.role, Rec("absent", NoId, "verified-namespace"),
              Settling(cmd, cmd.todo), To("failed"))
    /\ UNCHANGED <<account, lease, view, exit>>

\* The active branch ends by recording the verified absence in lease.json.
RecordAbsence ==
    /\ At("file")
    /\ WriteLease([lease EXCEPT !.state = "absent"], To("ok"), To("failed"))
    /\ UNCHANGED <<account, journal, view, exit>>

----------------------------------------------------------------------------
\* begin-testing: both roles, then lease.json.
Testing ==
    /\ At("testing")
    /\ AppendRecord(cmd.role, Rec("testing", lease.ids[cmd.role], "none"),
              Loop(cmd, "testing", cmd.todo, To("mark")), To("failed"))
    /\ UNCHANGED <<account, lease, view, exit>>

MarkTesting ==
    /\ At("mark")
    /\ WriteLease([lease EXCEPT !.state = "testing"], To("ok"), To("failed"))
    /\ UNCHANGED <<account, journal, view, exit>>

CommandStep ==
    \/ Intent \/ Probe \/ Redelete \/ Closed \/ Unverified \/ Settle \/ RecordAbsence
    \/ Testing \/ MarkTesting
=============================================================================

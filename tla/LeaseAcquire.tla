---------------------------- MODULE LeaseAcquire ----------------------------
(***************************************************************************)
(* "lease_cli acquire": two RenderLease objects over one journal, acquired *)
(* in order by a RenderLeaseBundle, with the unwinding of lease.py when    *)
(* any step raises: first the lease's own cleanup, then the bundle's       *)
(* cleanup of both leases in reverse order and a final namespace proof.    *)
(***************************************************************************)
EXTENDS LeaseState

\* RenderLeaseBundle.cleanup starts with reversed(self.leases).
UnwindBundle(c, rounds) ==
    [c EXCEPT !.at = "closing", !.role = "sink", !.level = "bundle",
              !.rounds = rounds, !.failed = FALSE]
\* RenderLease.acquire's "except BaseException".
UnwindLease(c) == [c EXCEPT !.at = "closing", !.level = "lease", !.rounds = 1]

\* Mutant: a finished round adds one instead of using one up.
RoundAgain(c) == IF c.rounds > 1 THEN UnwindBundle(c, c.rounds + 1)
                 ELSE [c EXCEPT !.at = "failed"]

\* A bundle.cleanup returned or raised; mark_issued's handler and acquire's
\* handler each call it, so one more round may be due.
RoundOver(c) == IF c.rounds > 1 THEN UnwindBundle(c, c.rounds - 1)
                ELSE [c EXCEPT !.at = "failed"]

\* One lease's cleanup is over; ok says whether it was verified.
LeaseOver(ok) ==
    LET failed == cmd.failed \/ ~ok
    IN  CASE cmd.level = "lease" -> UnwindBundle(cmd, cmd.rounds)
          [] cmd.level = "bundle" /\ cmd.role = "sink" ->
                [cmd EXCEPT !.at = "closing", !.role = "outline", !.failed = failed]
          [] OTHER -> IF failed THEN RoundOver(cmd) ELSE Reap(cmd, {}, 0, "proof")

\* Mutant: the bundle forgets to pass the other lease's id.
NoOtherIds == {}

\* The ids of the other lease, which this lease's own reap must not touch.
OtherIds == {view[r].id : r \in Role \ {cmd.role}} \ {NoId}

----------------------------------------------------------------------------
\* Mutant: the sink's lease object is only built when the sink is acquired.
ConstructOutlineOnly ==
    /\ At("construct")
    /\ AppendRecord(cmd.role, Rec("absent", NoId, "none"), To("creating"), To("failed"))
    /\ view' = [r \in Role |-> Rec("absent", NoId, "none")]
    /\ UNCHANGED <<account, lease, exit>>

\* RenderLease.__init__ appends an absent record; a failure here happens
\* before any handler is installed.
Construct ==
    /\ At("construct")
    /\ AppendRecord(cmd.role, Rec("absent", NoId, "none"),
              IF cmd.role = "outline" THEN [cmd EXCEPT !.role = "sink"]
                                      ELSE [cmd EXCEPT !.at = "creating", !.role = "outline"],
              To("failed"))
    /\ view' = [view EXCEPT ![cmd.role] = Rec("absent", NoId, "none")]
    /\ UNCHANGED <<account, lease, exit>>

\* RenderLease.acquire up to the POST: the journal says "creating" before
\* the provider hears of the service.
Creating ==
    /\ At("creating")
    /\ Transition(cmd.role, "creating", "none", To("post"), UnwindBundle(cmd, 1))
    /\ UNCHANGED <<account, lease, exit>>

\* RenderLeaseBundle.acquire's ensure_remaining between the two leases.
BundleDeadline ==
    /\ At("creating") /\ cmd.role = "sink"
    /\ cmd' = UnwindBundle(cmd, 1)
    /\ UNCHANGED <<account, disk, view, exit, faults>>

\* create_service: POST is sent once and never retried.
Post ==
    /\ At("post")
    /\ PostService(cmd.role)
    /\ Goto("await")
    /\ UNCHANGED <<disk, view, exit, faults>>

CreateAnswered ==
    /\ At("await")
    /\ cmd.role \notin pending /\ created[cmd.role] # NoId
    /\ view' = [view EXCEPT ![cmd.role].id = created[cmd.role]]
    /\ Goto("record")
    /\ UNCHANGED <<account, disk, exit, faults>>

CreateRefused ==
    /\ At("await")
    /\ cmd.role \notin pending /\ created[cmd.role] = NoId
    /\ cmd' = UnwindLease(cmd)
    /\ UNCHANGED <<account, disk, view, exit, faults>>

\* The answer never arrives: the service may exist, or still come to exist.
CreateAnswerLost ==
    /\ At("await")
    /\ \/ cmd.role \in pending /\ LateCreates
       \/ cmd.role \notin pending /\ created[cmd.role] # NoId
    /\ Fault
    /\ cmd' = UnwindLease(cmd)
    /\ UNCHANGED <<account, disk, view, exit>>

RecordHandle ==
    /\ At("record")
    /\ AppendRecord(cmd.role, Rec(view[cmd.role].state, view[cmd.role].id, "none"),
              To("ready"), UnwindLease(cmd))
    /\ UNCHANGED <<account, lease, view, exit>>

\* The remaining deadline and _wait_until_ready: readiness is reached, or
\* the wait raises (suspended, failed deploy, timeout, API error).
WaitUntilReady ==
    /\ At("ready")
    /\ cmd' \in {To("healthy"), UnwindLease(cmd)}
    /\ UNCHANGED <<account, disk, view, exit, faults>>

Healthy ==
    /\ At("healthy")
    /\ Transition(cmd.role, "healthy", "none",
                  IF cmd.role = "outline" THEN [cmd EXCEPT !.at = "creating", !.role = "sink"]
                                          ELSE To("handoff"),
                  UnwindLease(cmd))
    /\ UNCHANGED <<account, lease, exit>>

\* The profile and upload URL are written; either write may raise.
HandOff ==
    /\ At("handoff")
    /\ \/ cmd' = [cmd EXCEPT !.at = "issue", !.role = "outline"] /\ NoFault
       \/ cmd' = UnwindBundle(cmd, 1) /\ DiskFault
    /\ UNCHANGED <<account, disk, view, exit>>

\* RenderLeaseBundle.mark_issued: outline first; a failure for the sink is
\* cleaned up here and once more by the command's handler.
MarkIssued ==
    /\ At("issue")
    /\ IF cmd.role = "outline"
       THEN Transition("outline", "issued", "none", [cmd EXCEPT !.role = "sink"],
                       UnwindBundle(cmd, 1))
       ELSE Transition("sink", "issued", "none", To("install"), UnwindBundle(cmd, 2))
    /\ UNCHANGED <<account, lease, exit>>

InstallLease ==
    /\ At("install")
    /\ WriteLease([state |-> "issued", ids |-> [r \in Role |-> view[r].id]],
                  To("ok"), UnwindBundle(cmd, 1))
    /\ UNCHANGED <<account, journal, view, exit>>

----------------------------------------------------------------------------
\* RenderLease._cleanup_after_failure and RenderLease.cleanup.

AlreadyAbsent ==
    /\ At("closing") /\ cmd.level = "bundle" /\ view[cmd.role].state = "absent"
    /\ cmd' = LeaseOver(TRUE)
    /\ UNCHANGED <<account, disk, view, exit, faults>>

\* Where the cleanup of this lease goes once "deleting" is journalled: to its
\* exact id, or to the namespace when the create answer was lost.
CloseService ==
    IF view[cmd.role].id = NoId THEN Reap(cmd, OtherIds, 1, cmd.level)
    ELSE To("delete")

Closing ==
    /\ At("closing")
    /\ view[cmd.role].state # "absent"
    /\ IF view[cmd.role].state = "deleting"
       THEN cmd' = CloseService /\ UNCHANGED <<journal, view, faults>>
       ELSE Transition(cmd.role, "deleting", "none", CloseService, LeaseOver(FALSE))
    /\ UNCHANGED <<account, lease, exit>>

LeaseClosed ==
    /\ At("closed") /\ cmd.mode = "acquire"
    /\ Transition(cmd.role, "absent", "verified", LeaseOver(TRUE), LeaseOver(FALSE))
    /\ UNCHANGED <<account, lease, exit>>

\* The namespace of a lease without an id was proved absent, or was not.
LeaseSettled ==
    /\ At("settled")
    /\ Transition(cmd.role, "absent", "verified-namespace", LeaseOver(TRUE), LeaseOver(FALSE))
    /\ UNCHANGED <<account, lease, exit>>

LeaseUnproven ==
    /\ At("unproven")
    /\ AppendRecord(cmd.role, Rec(view[cmd.role].state, NoId, "unverified-no-service-id"),
              LeaseOver(FALSE), LeaseOver(FALSE))
    /\ UNCHANGED <<account, lease, view, exit>>

AcquireStep ==
    \/ Construct \/ Creating \/ BundleDeadline \/ Post
    \/ CreateAnswered \/ CreateRefused \/ CreateAnswerLost \/ RecordHandle
    \/ WaitUntilReady \/ Healthy \/ HandOff \/ MarkIssued \/ InstallLease
    \/ AlreadyAbsent \/ Closing \/ LeaseClosed \/ LeaseSettled \/ LeaseUnproven
=============================================================================

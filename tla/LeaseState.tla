----------------------------- MODULE LeaseState -----------------------------
(***************************************************************************)
(* What one lease keeps: on disk the journal (written ahead of every       *)
(* provider effect) and lease.json; in memory the command that is running, *)
(* its view of each role's lease and the place it has reached.  A command  *)
(* is one lease_cli invocation; it can be killed between any two steps and *)
(* then only the disk and the account remain.                              *)
(***************************************************************************)
EXTENDS RenderAccount

CONSTANTS
    MaxFaults,  \* bound: kills, lost answers, API and disk errors
    DiskFaults  \* may a journal append or a lease.json write raise?

ASSUME FaultsAssumption == MaxFaults \in Nat /\ DiskFaults \in BOOLEAN

VARIABLES
    journal,   \* role -> its last journal record, or NoRecord
    lease,     \* lease.json: its state and the service ids it names
    view,      \* role -> the command's RenderLease object or last_records entry
    cmd,       \* the running command and where it is
    exit,      \* how the last command ended
    faults     \* faults that have happened

disk == <<journal, lease>>
local == <<view, cmd, exit>>
vars == <<account, disk, local, faults>>

LeaseStates == {"absent", "creating", "healthy", "issued", "testing", "deleting"}
CleanupResult == {"none", "verified", "verified-namespace",
                  "unverified-no-service-id", "delete-unverified"}

Record == [state : LeaseStates \cup {"none"}, id : Id, result : CleanupResult]
NoRecord == [state |-> "none", id |-> NoId, result |-> "none"]
Rec(state, id, result) == [state |-> state, id |-> id, result |-> result]

LeaseFile == [state : {"none", "issued", "testing", "absent"}, ids : [Role -> Id]]
NoLease == [state |-> "none", ids |-> [r \in Role |-> NoId]]

\* _ALLOWED_TRANSITIONS
AllowedTransitions ==
    [absent   |-> {"creating"},
     creating |-> {"healthy", "deleting"},
     healthy  |-> {"issued", "deleting"},
     issued   |-> {"testing", "deleting"},
     testing  |-> {"deleting"},
     deleting |-> {"absent"}]

----------------------------------------------------------------------------
(***************************************************************************)
(* The running command.  mode: which command (and, for cleanup, which of   *)
(* its branches); at: the next statement with an effect; role: the role it *)
(* is about; level: whether RenderLease, RenderLeaseBundle or the command  *)
(* itself called the code at "at"; rounds: bundle.cleanup calls still due; *)
(* failed: the "failures" list is not empty; todo: roles the current loop  *)
(* has left; active, bound, cands, deleted, target: the reap in progress;  *)
(* calls: cleanup-API operations so far.                                   *)
(***************************************************************************)
CleanupMode == {"recover", "reverify", "active"}
Mode == {"idle", "acquire", "begin"} \cup CleanupMode
Place == {"idle", "ok", "failed",
          "construct", "creating", "post", "await", "record", "ready", "healthy",
          "handoff", "issue", "install",
          "testing", "mark",
          "closing", "delete", "verify", "closed", "unproven", "settled",
          "list", "reap", "reapverify", "relist", "assert",
          "intent", "probe", "redelete", "unverified", "settle", "file"}
Level == {"command", "lease", "bundle", "proof"}
Exits == {"none", "ok", "failed", "killed", "refused", "absent", "no-journal"}

Idle == [mode |-> "idle", at |-> "idle", role |-> "outline", level |-> "command",
         rounds |-> 0, failed |-> FALSE, todo |-> {}, active |-> {}, bound |-> 0,
         cands |-> {}, deleted |-> {}, target |-> NoId, calls |-> 0]

Cmd == [mode : Mode, at : Place, role : Role, level : Level, rounds : 0..2,
        failed : BOOLEAN, todo : SUBSET Role, active : SUBSET ServiceId,
        bound : 0..2, cands : SUBSET ServiceId, deleted : SUBSET ServiceId,
        target : Id, calls : Nat]

LeaseTypeOK ==
    /\ journal \in [Role -> Record]
    /\ lease \in LeaseFile
    /\ view \in [Role -> Record]
    /\ cmd \in Cmd
    /\ exit \in Exits
    /\ faults \in 0..MaxFaults

----------------------------------------------------------------------------
\* Faults and control.

Fault == faults < MaxFaults /\ faults' = faults + 1
NoFault == UNCHANGED faults
DiskFault == DiskFaults /\ Fault

At(place) == cmd.at = place
To(place) == [cmd EXCEPT !.at = place]
Goto(place) == cmd' = To(place)

\* One cleanup-API operation was spent: the cleanup command has a budget.
Spent(c) == IF c.mode \in CleanupMode THEN [c EXCEPT !.calls = @ + 1] ELSE c

\* "for role in roles: ..." -- the loop at place, or what follows it.
Loop(c, place, roles, after) ==
    IF roles = {} THEN after
    ELSE [c EXCEPT !.at = place, !.role = First(roles), !.todo = roles \ {First(roles)}]

\* reap_tagged followed by assert_tagged_absent, called at level.
Reap(c, active, bound, level) ==
    [c EXCEPT !.at = "list", !.level = level, !.active = active, !.bound = bound,
              !.cands = {}, !.deleted = {}, !.target = NoId]

UnknownRoles == {r \in Role : view[r].id = NoId}

----------------------------------------------------------------------------
\* RenderLeaseJournal.append: the whole journal is replaced atomically, so a
\* crash leaves the old or the new one.
Journal(r, rec) == journal' = [journal EXCEPT ![r] = rec]

\* Mutant: an append that raises is swallowed and the command goes on.
AppendSwallowed(r, rec, ok, ko) ==
    \/ Journal(r, rec) /\ cmd' = ok /\ NoFault
    \/ UNCHANGED journal /\ cmd' = ok /\ DiskFault

\* Append rec for r and go on to ok; or the append raises -- before the
\* os.replace, or in the chmod after it -- and ko follows.
AppendRecord(r, rec, ok, ko) ==
    \/ Journal(r, rec) /\ cmd' = ok /\ NoFault
    \/ Journal(r, rec) /\ cmd' = ko /\ DiskFault
    \/ UNCHANGED journal /\ cmd' = ko /\ DiskFault

\* RenderLease._transition: memory moves first, the journal follows.
Transition(r, state, result, ok, ko) ==
    /\ state \in AllowedTransitions[view[r].state]
    /\ view' = [view EXCEPT ![r] = Rec(state, @.id, "none")]
    /\ AppendRecord(r, Rec(state, view[r].id, result), ok, ko)

\* _owner_output: os.replace installs the file, then the directory fsync may
\* still raise, so a failed write can leave the new lease.json behind.
WriteLease(value, ok, ko) ==
    \/ lease' = value /\ cmd' = ok /\ NoFault
    \/ lease' = value /\ cmd' = ko /\ DiskFault
    \/ UNCHANGED lease /\ cmd' = ko /\ DiskFault
=============================================================================

---------------------------- MODULE ServerLease ----------------------------
(***************************************************************************)
(* One run of the server-lease workflow against the Render account: the    *)
(* acquire, begin-testing and cleanup commands run one after the other,    *)
(* each may be killed by its deadline wrapper or the runner, and the       *)
(* cleanup step runs whatever happened before it.                          *)
(***************************************************************************)
EXTENDS LeaseCleanup

CONSTANT MaxCleanups  \* bound: how often cleanup is run over the same files

ASSUME CleanupsAssumption == MaxCleanups \in Nat \ {0}

VARIABLES
    step,      \* the next workflow step that may start a command
    cleanups   \* cleanup commands started

allVars == <<vars, step, cleanups>>

NoView == [r \in Role |-> NoRecord]

TypeOK ==
    /\ AccountTypeOK
    /\ LeaseTypeOK
    /\ step \in {"acquire", "begin", "cleanup"}
    /\ cleanups \in 0..MaxCleanups

Init ==
    /\ AccountInit
    /\ journal = [r \in Role |-> NoRecord]
    /\ lease = NoLease
    /\ view = NoView
    /\ cmd = Idle
    /\ exit = "none"
    /\ faults = 0
    /\ step = "acquire"
    /\ cleanups = 0

----------------------------------------------------------------------------
StartAcquire ==
    /\ At("idle") /\ step = "acquire"
    /\ step' = "begin"
    /\ cmd' = [Idle EXCEPT !.mode = "acquire", !.at = "construct"]
    /\ exit' = "none"
    /\ UNCHANGED <<account, disk, view, faults, cleanups>>

\* begin-testing runs only after a successful acquire, on a lease and a
\* journal that both say "issued".
StartBegin ==
    /\ At("idle") /\ step = "begin" /\ exit = "ok"
    /\ lease.state = "issued" /\ JournalMatches
    /\ \A r \in Role : journal[r].state = "issued"
    /\ step' = "cleanup"
    /\ cmd' = Loop([Idle EXCEPT !.mode = "begin"], "testing", Role, Idle)
    /\ exit' = "none"
    /\ UNCHANGED <<account, disk, view, faults, cleanups>>

\* The always() step: without a journal it claims that no create was sent.
StartCleanup ==
    /\ At("idle") /\ cleanups < MaxCleanups
    /\ step' = "cleanup"
    /\ cleanups' = cleanups + 1
    /\ IF \A r \in Role : journal[r].state = "none"
       THEN exit' = "no-journal" /\ UNCHANGED <<cmd, view>>
       ELSE IF Branch = "refused"
       THEN exit' = "refused" /\ UNCHANGED <<cmd, view>>
       ELSE /\ exit' = "none"
            /\ view' = Snapshot
            /\ LET c == [Idle EXCEPT !.mode = Branch]
               IN  cmd' = Intending(c, NeedsIntent(Branch, Snapshot), Snapshot)
    /\ UNCHANGED <<account, disk, faults>>

\* The command's exit status; a successful cleanup reports "absent".
Return ==
    /\ cmd.at \in {"ok", "failed"}
    /\ exit' = IF cmd.at = "ok" /\ cmd.mode \in CleanupMode THEN "absent" ELSE cmd.at
    /\ cmd' = Idle
    /\ view' = NoView
    /\ UNCHANGED <<account, disk, faults, step, cleanups>>

\* The deadline wrapper kills the process; its memory is lost, a create in
\* flight is not.
Kill ==
    /\ ~At("idle")
    /\ LateCreates \/ pending = {}
    /\ Fault
    /\ exit' = "killed"
    /\ cmd' = Idle
    /\ view' = NoView
    /\ UNCHANGED <<account, disk, step, cleanups>>

CommandNext ==
    /\ AcquireStep \/ ProviderStep \/ CommandStep
    /\ UNCHANGED <<step, cleanups>>

Provider ==
    /\ ProviderNext
    /\ UNCHANGED <<disk, view, cmd, exit, faults, step, cleanups>>

\* The workflow is over: nothing runs and no cleanup is left.
Finished ==
    /\ At("idle") /\ pending = {} /\ cleanups = MaxCleanups
    /\ UNCHANGED allVars

Next == StartAcquire \/ StartBegin \/ StartCleanup \/ CommandNext \/ Return \/ Kill
        \/ Provider \/ Finished

Spec == Init /\ [][Next]_allVars

----------------------------------------------------------------------------
\* Safety.

\* Everything a crash may leave behind can be found from the disk: every
\* live service of this run either is named by its role's record, or its
\* role has a record without an id, which entitles a cleanup to reap one
\* unidentified service; and a create can only be outstanding for a role
\* whose record is already there (write-ahead, lease.py).
Recoverable ==
    \A r \in Role :
        /\ r \in pending => journal[r].state # "none"
        /\ created[r] # NoId => /\ journal[r].state # "none"
                                /\ journal[r].id \in {NoId, created[r]}

\* A cleanup that reports "absent" has left nothing of the namespace except
\* what the provider produced after the command's last look at it.
VerifiedAbsence == exit = "absent" => Tagged({}) \subseteq unseen

\* The two ways to finish without touching the provider are harmless: "no
\* journal exists" and a journal that lacks a role both mean that no create
\* was ever sent.
RefusalIsHarmless ==
    exit \in {"no-journal", "refused"} => Owned = {} /\ pending = {}

\* Services of other runs survive whatever this lease does.
ForeignUntouched == Foreign \subseteq live

\* A reap selects at most as many services as there are roles whose id the
\* journal does not know; an ambiguous namespace is refused untouched.
ReapWithinJournal ==
    Cardinality(cmd.cands \cup cmd.deleted)
        <= Cardinality({r \in Role : journal[r].id = NoId})

\* The refusal never hits the run's own services: when a cleanup lists the
\* namespace, its own unidentified services fit the bound.
OwnServicesNeverRefused ==
    At("list") /\ cmd.mode \in CleanupMode
        => Cardinality(Tagged(cmd.active) \ Stale) <= cmd.bound

\* A cleanup spends at most a budget of operations of the cleanup API client.
CallsWithin(budget) == cmd.calls <= budget

\* The bound the arithmetic of the code gives: three operations for each of
\* two known roles and three lists.
NineCalls == CallsWithin(9)

----------------------------------------------------------------------------
(***************************************************************************)
(* The inductive invariant behind Recoverable, VerifiedAbsence and         *)
(* ForeignUntouched.  It relates three accounts of the same service: the   *)
(* provider's (created, pending), the disk's (journal, lease.json) and the *)
(* running command's (view), at the place the command has reached.         *)
(***************************************************************************)
Untouched(r) == created[r] = NoId /\ r \notin pending

CreatePlaces == {"post", "await", "record", "ready", "healthy"}
AcquirePlaces == CreatePlaces \cup {"construct", "creating", "handoff", "issue", "install",
                                   "closing", "settled", "unproven"}
ReapPlaces == {"list", "reap", "reapverify", "relist", "assert"}
CleanupPlaces == {"intent", "probe", "redelete", "unverified", "settle", "file"}

\* No two accounts name different services, and none is ahead of the journal.
Ledger ==
    \A r \in Role :
        /\ r \in pending => created[r] = NoId
        /\ ~Untouched(r) => journal[r].state # "none"
        /\ {journal[r].id, view[r].id, lease.ids[r]} \subseteq {NoId, created[r]}
        /\ created[r] \notin Foreign

\* Which command may be where.
Control ==
    /\ At("idle") <=> cmd.mode = "idle"
    /\ ~At("idle") => exit = "none"
    /\ step = "acquire" => At("idle")
    /\ cmd.at \in ReapPlaces \cup {"delete", "verify", "closed"}
            => cmd.mode \in CleanupMode \cup {"acquire"}
    /\ cmd.at \in {"settled", "unproven"} => cmd.level \in {"lease", "bundle"}
    /\ cmd.at \in AcquirePlaces => cmd.mode = "acquire"
    /\ cmd.at \in {"testing", "mark"} => cmd.mode = "begin"
    /\ cmd.at \in CleanupPlaces => cmd.mode \in CleanupMode
    /\ cmd.mode \in CleanupMode => cmd.level = "command"
    /\ cmd.mode = "acquire" /\ cmd.at \in ReapPlaces \cup {"closing", "delete", "verify"}
            => cmd.level # "command"

\* One POST per role, only for a declared role.
OneCreate ==
    /\ step = "acquire" \/ At("construct") => \A r \in Role : Untouched(r)
    /\ cmd.at \in {"creating", "post"} => Untouched(cmd.role)
    /\ cmd.at \in CreatePlaces \cup {"creating"} /\ cmd.role = "outline" => Untouched("sink")
    /\ cmd.at \in CreatePlaces => /\ journal[cmd.role].state # "none"
                                  /\ view[cmd.role].state = "creating"
    /\ cmd.at \in ReapPlaces \cup {"settled", "unproven"} /\ cmd.level \in {"lease", "bundle"}
            => view[cmd.role].state = "deleting"

\* After the final proof of a cleanup only unseen services can be tagged.
ProofHolds ==
    cmd.mode \in CleanupMode /\ cmd.at \in {"settle", "file", "ok"} => Tagged({}) \subseteq unseen

Selection == Foreign \subseteq live /\ cmd.cands \cap Foreign = {}

IInv == Ledger /\ Control /\ OneCreate /\ ProofHolds /\ VerifiedAbsence /\ Selection

----------------------------------------------------------------------------
(***************************************************************************)
(* The lease implements LeasePromise when journal appends succeed and the  *)
(* provider neither accepts an abandoned create nor shows a deleted        *)
(* service again.  A role's phase is what its last journal record says.    *)
(***************************************************************************)
Phase(rec) ==
    CASE rec.state \in {"creating", "healthy", "issued", "testing"} -> "held"
      [] rec.state = "deleting" -> "closing"
      [] Verified(rec) -> "closed"
      [] OTHER -> "unused"

Promise == INSTANCE LeasePromise WITH
    phase <- [r \in Role |-> Phase(journal[r])],
    up <- {r \in Role : created[r] \in live},
    spent <- {r \in Role : created[r] # NoId},
    claimed <- (exit = "absent")

\* The journal, the account and the reported result of the code only ever
\* move the way LeasePromise allows.
ImplementsPromise == Promise!Spec

(***************************************************************************)
(* What the one cleanup of the workflow achieves when nothing disturbs it: *)
(* it meets no fault, it is not killed, and the account does not change    *)
(* under it.  Whatever happened before it is unrestricted.                 *)
(***************************************************************************)
Undisturbed == cmd.mode \in CleanupMode => UNCHANGED faults /\ ~Provider

\* A command that runs goes on and returns, the provider decides on every
\* create, and the always() step starts; with MaxCleanups = 1 it is the only one.
CleanupSpec ==
    /\ Init /\ [][Next /\ Undisturbed]_allVars
    /\ WF_allVars(CommandNext)
    /\ WF_allVars(Return)
    /\ WF_allVars(StartCleanup)
    /\ \A r \in Role : WF_allVars(Provider /\ (AcceptCreate(r) \/ RejectCreate(r)))

\* The one case that an undisturbed cleanup does not repair: the fsync after
\* the replacement of lease.json failed, so that it says "issued" although
\* the acquisition was unwound to a verified absence, and the provider then
\* shows a deleted service again.  Cleanup takes the absence as recorded and
\* fails at the final proof.
BelievedAbsent ==
    lease.state = "issued" /\ resurfaced > 0 /\ \A r \in Role : Verified(journal[r])

\* One undisturbed cleanup after a run that was killed or failed anywhere
\* (lost answers, failed appends, services shown again): for good, no create
\* is outstanding and no service of the run is live except what the provider
\* produced after the last look at the account.
EventuallyGone ==
    <>[](pending = {} /\ (Owned \cap live \subseteq unseen \/ BelievedAbsent))
=============================================================================

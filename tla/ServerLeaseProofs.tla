------------------------- MODULE ServerLeaseProofs -------------------------
(***************************************************************************)
(* Type correctness of ServerLease and its invariant IInv, for every set   *)
(* of services, every bound and every mixture of kills, lost answers and   *)
(* disk errors: Recoverable, VerifiedAbsence and ForeignUntouched hold of  *)
(* every account.                                                          *)
(***************************************************************************)
EXTENDS ServerLease, FiniteSetTheorems, TLAPS

(* At most two roles, so the reap bound of any view is 0, 1 or 2. *)
LEMMA RoleCount == ASSUME NEW S \in SUBSET Role PROVE Cardinality(S) \in 0..2
<1>1. IsFiniteSet({"outline"}) /\ Cardinality({"outline"}) = 1
  BY FS_Singleton
<1>2. Role = {"outline"} \cup {"sink"}
  BY DEF Role
<1>3. IsFiniteSet(Role) /\ Cardinality(Role) = 2
  BY <1>1, <1>2, FS_AddElement
<1>4. IsFiniteSet(S) /\ Cardinality(S) <= 2
  BY <1>3, FS_Subset
<1>5. Cardinality(S) \in Nat
  BY <1>4, FS_CardinalityType
<1> QED BY <1>4, <1>5

(* The loop operators stay inside Cmd. *)
LEMMA LoopType ==
  ASSUME NEW c \in Cmd, NEW p \in Place, NEW S \in SUBSET Role, NEW a \in Cmd
  PROVE  Loop(c, p, S, a) \in Cmd
BY DEF Loop, Cmd, First, Role

\* Moving a command to a place keeps it a command.
LEMMA ToType == ASSUME cmd \in Cmd, NEW p \in Place PROVE To(p) \in Cmd
BY DEF To, Cmd

\* A reap of the namespace starts with well-typed candidates and bound.
LEMMA ReapType ==
  ASSUME NEW c \in Cmd, NEW A \in SUBSET ServiceId, NEW n \in 0..2, NEW l \in Level
  PROVE  Reap(c, A, n, l) \in Cmd
BY DEF Reap, Cmd, Id, Place

\* Unwinding a lease or the bundle, and the end of a cleanup round, stay inside Cmd.
LEMMA UnwindType ==
  ASSUME NEW c \in Cmd
  PROVE  /\ \A n \in 0..2 : UnwindBundle(c, n) \in Cmd
         /\ UnwindLease(c) \in Cmd
         /\ RoundOver(c) \in Cmd
<1>1. \A n \in 0..2 : UnwindBundle(c, n) \in Cmd
  BY DEF UnwindBundle, Cmd, Place, Role, Level
<1>2. UnwindLease(c) \in Cmd
  <2>1. "closing" \in Place /\ "lease" \in Level /\ 1 \in 0..2
    BY DEF Place, Level
  <2> QED BY <2>1 DEF UnwindLease, Cmd
<1>3. c.rounds \in 0..2
  BY DEF Cmd
<1>4. [c EXCEPT !.at = "failed"] \in Cmd
  BY DEF Cmd, Place
<1>5. RoundOver(c) \in Cmd
  BY <1>1, <1>3, <1>4 DEF RoundOver
<1> QED BY <1>1, <1>2, <1>5

\* Counting an API operation keeps a command a command.
LEMMA SpentType == ASSUME NEW c \in Cmd PROVE Spent(c) \in Cmd
BY DEF Spent, Cmd

\* The end of one lease's part of an unwinding is well typed.
LEMMA LeaseOverType ==
  ASSUME cmd \in Cmd, NEW ok \in BOOLEAN PROVE LeaseOver(ok) \in Cmd
<1>0. cmd.rounds \in 0..2 /\ cmd.failed \in BOOLEAN
  BY DEF Cmd
<1>1. UnwindBundle(cmd, cmd.rounds) \in Cmd /\ RoundOver(cmd) \in Cmd
  BY <1>0, UnwindType
<1>2. Reap(cmd, {}, 0, "proof") \in Cmd
  BY ReapType DEF Level
<1>3. [cmd EXCEPT !.at = "closing", !.role = "outline", !.failed = cmd.failed \/ ~ok] \in Cmd
  BY <1>0 DEF Cmd, Place, Role
<1> QED BY <1>1, <1>2, <1>3 DEF LeaseOver

(* So do those of the cleanup branches. *)
LEMMA SnapIds ==
  ASSUME NEW snap \in [Role -> Record]
  PROVE  Known(snap) \in SUBSET ServiceId /\ Unknown(snap) \in SUBSET Role
BY DEF Known, Unknown, Record, Id

\* A command may be at any place.
LEMMA AtType == ASSUME NEW c \in Cmd, NEW p \in Place PROVE [c EXCEPT !.at = p] \in Cmd
BY DEF Cmd

\* The deletion loop of a cleanup is well typed.
LEMMA DeletingType ==
  ASSUME NEW c \in Cmd, NEW S \in SUBSET Role, NEW snap \in [Role -> Record]
  PROVE  Deleting(c, S, snap) \in Cmd
<1>1. Reap(c, Known(snap), Cardinality(Unknown(snap)), "command") \in Cmd
  BY SnapIds, RoleCount, ReapType DEF Level
<1>2. [c EXCEPT !.at = "failed"] \in Cmd
  BY AtType DEF Place
<1>3. Proving(c, snap) \in Cmd
  BY <1>1, <1>2 DEF Proving
<1>4. (IF c.mode = "reverify" THEN "probe" ELSE "delete") \in Place
  BY DEF Place
<1> QED BY <1>3, <1>4, LoopType DEF Deleting

\* So is the loop that records the intent to delete.
LEMMA IntendingType ==
  ASSUME NEW c \in Cmd, NEW S \in SUBSET Role, NEW snap \in [Role -> Record]
  PROVE  Intending(c, S, snap) \in Cmd
<1>1. NeedsDelete(c.mode, snap) \in SUBSET Role
  BY DEF NeedsDelete
<1>2. Deleting(c, NeedsDelete(c.mode, snap), snap) \in Cmd
  BY <1>1, DeletingType
<1>3. "intent" \in Place
  BY DEF Place
<1> QED BY <1>2, <1>3, LoopType DEF Intending

\* So is the loop that records the results.
LEMMA SettlingType ==
  ASSUME NEW c \in Cmd, NEW S \in SUBSET Role PROVE Settling(c, S) \in Cmd
<1>1. [c EXCEPT !.at = IF c.failed THEN "failed" ELSE "ok"] \in Cmd
  BY AtType DEF Place
<1>2. "settle" \in Place
  BY DEF Place
<1> QED BY <1>1, <1>2, LoopType DEF Settling

\* The command is well typed when the final proof has ended.
LEMMA ProvedType ==
  ASSUME NEW c \in Cmd, view \in [Role -> Record]
  PROVE  Proved(c) \in Cmd /\ Unproved(c) \in Cmd /\ NextCandidate(c) \in Cmd
<1>1. UnknownRoles \in SUBSET Role
  BY DEF UnknownRoles
<1>2. \A p \in {"settled", "file", "unproven", "failed", "relist", "reap"} :
        [c EXCEPT !.at = p] \in Cmd
  BY AtType DEF Place
<1>3. Proved(c) \in Cmd
  BY <1>1, <1>2, UnwindType, SettlingType DEF Proved
<1>4. Unproved(c) \in Cmd
  BY <1>2, UnwindType DEF Unproved
<1>5. NextCandidate(c) \in Cmd
  BY <1>2 DEF NextCandidate
<1> QED BY <1>3, <1>4, <1>5

\* And when a deletion could not be done.
LEMMA DeleteFailedType ==
  ASSUME cmd \in Cmd, NEW c \in Cmd PROVE DeleteFailed(c) \in Cmd
<1>1. LeaseOver(FALSE) \in Cmd
  BY LeaseOverType
<1>2. [c EXCEPT !.at = "unverified"] \in Cmd
  BY AtType DEF Place
<1> QED BY <1>1, <1>2 DEF DeleteFailed

\* The journal is read as one record per role.
LEMMA SnapshotType ==
  ASSUME LeaseTypeOK PROVE Snapshot \in [Role -> Record]
BY DEF Snapshot, LeaseTypeOK, LeaseFile, Record

----------------------------------------------------------------------------
(* The effects commands are made of. *)
LEMMA FaultType ==
  ASSUME faults \in 0..MaxFaults, Fault \/ NoFault \/ DiskFault
  PROVE  faults' \in 0..MaxFaults
BY FaultsAssumption DEF Fault, NoFault, DiskFault

\* An append keeps journal, memory and command well typed, whether or not it succeeds.
LEMMA AppendType ==
  ASSUME LeaseTypeOK, NEW r \in Role, NEW rec \in Record, NEW ok \in Cmd, NEW ko \in Cmd,
         AppendRecord(r, rec, ok, ko)
  PROVE  journal' \in [Role -> Record] /\ cmd' \in Cmd /\ faults' \in 0..MaxFaults
BY FaultType DEF AppendRecord, Journal, LeaseTypeOK

\* So does a transition, which changes memory first.
LEMMA TransitionType ==
  ASSUME LeaseTypeOK, NEW r \in Role, NEW state \in LeaseStates, NEW result \in CleanupResult,
         NEW ok \in Cmd, NEW ko \in Cmd, Transition(r, state, result, ok, ko)
  PROVE  /\ journal' \in [Role -> Record] /\ cmd' \in Cmd /\ faults' \in 0..MaxFaults
         /\ view' \in [Role -> Record]
<1>1. view[r].id \in Id
  BY DEF LeaseTypeOK, Record
<1>2. Rec(state, view[r].id, result) \in Record
  BY <1>1 DEF Rec, Record
<1>3. Rec(state, view[r].id, "none") \in Record
  BY <1>1 DEF Rec, Record, CleanupResult
<1>4. view' \in [Role -> Record]
  BY <1>3 DEF Transition, LeaseTypeOK
<1> QED BY <1>2, <1>4, AppendType DEF Transition

\* Writing lease.json keeps it a lease file.
LEMMA WriteLeaseType ==
  ASSUME LeaseTypeOK, NEW value \in LeaseFile, NEW ok \in Cmd, NEW ko \in Cmd,
         WriteLease(value, ok, ko)
  PROVE  lease' \in LeaseFile /\ cmd' \in Cmd /\ faults' \in 0..MaxFaults
BY FaultType DEF WriteLease, LeaseTypeOK

(* What every command step needs to know about the running command. *)
LEMMA CmdFields ==
  ASSUME cmd \in Cmd
  PROVE  /\ cmd.role \in Role /\ cmd.todo \in SUBSET Role
         /\ cmd.cands \in SUBSET ServiceId /\ cmd.deleted \in SUBSET ServiceId
         /\ cmd.mode \in Mode /\ cmd.level \in Level /\ cmd.rounds \in 0..2
         /\ cmd.failed \in BOOLEAN
BY DEF Cmd

----------------------------------------------------------------------------
(* Every step of "acquire" and of the unwinding. *)
LEMMA AcquireType ==
  ASSUME AccountTypeOK, LeaseTypeOK, AcquireStep PROVE AccountTypeOK' /\ LeaseTypeOK'
<1> USE DEF LeaseTypeOK
<1>. DEFINE r == cmd.role
<1>0. r \in Role /\ cmd.todo \in SUBSET Role /\ cmd.rounds \in 0..2 /\ view[r] \in Record
  BY CmdFields
<1>a. view[r].id \in Id /\ view[r].state \in LeaseStates \cup {"none"}
  BY <1>0 DEF Record
<1>b. \A p \in Place : To(p) \in Cmd /\ [cmd EXCEPT !.at = p] \in Cmd
  BY ToType, AtType
<1>c. \A p \in Place, q \in Role : [cmd EXCEPT !.at = p, !.role = q] \in Cmd
  BY DEF Cmd
<1>d. \A q \in Role : [cmd EXCEPT !.role = q] \in Cmd
  BY DEF Cmd
<1>e. UnwindBundle(cmd, 1) \in Cmd /\ UnwindBundle(cmd, 2) \in Cmd /\ UnwindLease(cmd) \in Cmd
  BY UnwindType
<1>f. LeaseOver(TRUE) \in Cmd /\ LeaseOver(FALSE) \in Cmd
  BY LeaseOverType
<1>g. {"construct", "creating", "post", "await", "record", "ready", "healthy", "handoff",
       "issue", "install", "closing", "delete", "failed", "ok"} \subseteq Place
  BY DEF Place
<1>h. {"creating", "healthy", "issued", "deleting", "absent"} \subseteq LeaseStates
  BY DEF LeaseStates
<1>i. {"none", "verified", "verified-namespace", "unverified-no-service-id"} \subseteq CleanupResult
  BY DEF CleanupResult
<1>j. "outline" \in Role /\ "sink" \in Role
  BY DEF Role
<1>k. AccountTypeOK' \/ cmd.at = "post"
  BY DEF AcquireStep, Construct, Creating, BundleDeadline, Post, CreateAnswered, CreateRefused,
         CreateAnswerLost, RecordHandle, WaitUntilReady, Healthy, HandOff, MarkIssued,
         InstallLease, AlreadyAbsent, Closing, LeaseClosed, LeaseSettled, LeaseUnproven,
         At, account, AccountTypeOK, Owned
<1>1. CASE Construct
  <2>1. Rec("absent", NoId, "none") \in Record
    BY <1>h, <1>i DEF Rec, Record, Id
  <2>2. view' \in [Role -> Record] /\ lease' = lease /\ exit' = exit
    BY <1>1, <1>0, <2>1 DEF Construct
  <2>3. journal' \in [Role -> Record] /\ cmd' \in Cmd /\ faults' \in 0..MaxFaults
    BY <1>1, <1>0, <1>b, <1>c, <1>d, <1>g, <1>j, <2>1, AppendType DEF Construct
  <2> QED BY <1>1, <1>k, <2>2, <2>3 DEF Construct, At
<1>2. CASE Creating
  BY <1>2, <1>k, <1>0, <1>b, <1>e, <1>g, <1>h, <1>i, TransitionType DEF Creating, At
<1>3. CASE BundleDeadline
  BY <1>3, <1>k, <1>e DEF BundleDeadline, At, disk
<1>4. CASE Post
  BY <1>4, <1>0, <1>b, <1>g DEF Post, PostService, Goto, disk, AccountTypeOK
<1>5. CASE CreateAnswered
  <2>1. [view[r] EXCEPT !.id = created[r]] \in Record
    BY <1>0 DEF Record, AccountTypeOK
  <2> QED BY <1>5, <1>k, <1>0, <1>b, <1>g, <2>1 DEF CreateAnswered, At, disk, Goto
<1>6. CASE CreateRefused
  BY <1>6, <1>k, <1>e DEF CreateRefused, At, disk
<1>7. CASE CreateAnswerLost
  BY <1>7, <1>k, <1>e, FaultType DEF CreateAnswerLost, At, disk
<1>8. CASE RecordHandle
  <2>1. Rec(view[r].state, view[r].id, "none") \in Record
    BY <1>a, <1>i DEF Rec, Record
  <2> QED BY <1>8, <1>k, <1>0, <1>b, <1>e, <1>g, <2>1, AppendType DEF RecordHandle, At
<1>9. CASE WaitUntilReady
  BY <1>9, <1>k, <1>b, <1>e, <1>g DEF WaitUntilReady, At, disk
<1>10. CASE Healthy
  BY <1>10, <1>k, <1>0, <1>b, <1>c, <1>e, <1>g, <1>h, <1>i, <1>j, TransitionType DEF Healthy, At
<1>11. CASE HandOff
  <2>0. [cmd EXCEPT !.at = "issue", !.role = "outline"] \in Cmd
    BY <1>c, <1>j DEF Place
  <2>1. cmd' \in Cmd
    BY <1>11, <1>e, <2>0 DEF HandOff
  <2>2. faults' \in 0..MaxFaults
    BY <1>11, FaultType DEF HandOff
  <2> QED BY <1>11, <1>k, <2>1, <2>2 DEF HandOff, At, disk
<1>12. CASE MarkIssued
  BY <1>12, <1>k, <1>0, <1>b, <1>d, <1>e, <1>g, <1>h, <1>i, <1>j, TransitionType DEF MarkIssued, At
<1>13. CASE InstallLease
  <2>1. [state |-> "issued", ids |-> [q \in Role |-> view[q].id]] \in LeaseFile
    BY DEF LeaseFile, Record
  <2> QED BY <1>13, <1>k, <1>b, <1>e, <1>g, <2>1, WriteLeaseType DEF InstallLease, At
<1>14. CASE AlreadyAbsent
  BY <1>14, <1>k, <1>f DEF AlreadyAbsent, At, disk
<1>15. CASE Closing
  <2>1. OtherIds \in SUBSET ServiceId
    BY DEF OtherIds, Record, Id
  <2>2. CloseService \in Cmd
    <3>0. cmd \in Cmd /\ cmd.level \in Level /\ 1 \in 0..2
      BY CmdFields
    <3>1. Reap(cmd, OtherIds, 1, cmd.level) \in Cmd
      BY <2>1, <3>0, ReapType
    <3>2. To("delete") \in Cmd
      BY <1>b, <1>g
    <3> QED BY <3>1, <3>2 DEF CloseService
  <2> QED BY <1>15, <1>k, <1>0, <1>f, <1>h, <1>i, <2>2, TransitionType DEF Closing, At
<1>16. CASE LeaseClosed
  BY <1>16, <1>k, <1>0, <1>f, <1>h, <1>i, TransitionType DEF LeaseClosed, At
<1>17. CASE LeaseSettled
  BY <1>17, <1>k, <1>0, <1>f, <1>h, <1>i, TransitionType DEF LeaseSettled, At
<1>18. CASE LeaseUnproven
  <2>1. Rec(view[r].state, NoId, "unverified-no-service-id") \in Record
    BY <1>a, <1>i DEF Rec, Record, Id
  <2> QED BY <1>18, <1>k, <1>0, <1>f, <2>1, AppendType DEF LeaseUnproven, At
<1> QED
  BY <1>1, <1>2, <1>3, <1>4, <1>5, <1>6, <1>7, <1>8, <1>9, <1>10, <1>11, <1>12, <1>13, <1>14,
     <1>15, <1>16, <1>17, <1>18 DEF AcquireStep

----------------------------------------------------------------------------
(* Every provider call of a deletion or a reap. *)
LEMMA AccountStepType ==
  ASSUME AccountTypeOK,
         ListServices \/ (\E id : DeleteService(id)) \/ UNCHANGED account
  PROVE  AccountTypeOK'
BY DEF AccountTypeOK, ListServices, DeleteService, account

\* The provider's own steps keep the types.
LEMMA ProviderStepType ==
  ASSUME AccountTypeOK, LeaseTypeOK, ProviderStep PROVE AccountTypeOK' /\ LeaseTypeOK'
<1> USE DEF LeaseTypeOK
<1>0. Spent(cmd) \in Cmd
  BY SpentType
<1>a. AccountTypeOK'
  BY AccountStepType DEF ProviderStep, Delete, Verify, List, ReapDelete, ReapVerify, Relist,
     AssertAbsent
<1>b. UNCHANGED <<disk, view, exit>>
  BY DEF ProviderStep, Delete, Verify, List, ReapDelete, ReapVerify, Relist, AssertAbsent
<1>c. faults' \in 0..MaxFaults
  BY FaultType DEF ProviderStep, Delete, Verify, List, ReapDelete, ReapVerify, Relist,
     AssertAbsent
<1>d. \A c \in Cmd : /\ Proved(c) \in Cmd /\ Unproved(c) \in Cmd
                     /\ NextCandidate(c) \in Cmd /\ DeleteFailed(c) \in Cmd
  BY ProvedType, DeleteFailedType
<1>e. \A c \in Cmd : /\ [c EXCEPT !.at = "verify"] \in Cmd /\ [c EXCEPT !.at = "closed"] \in Cmd
                     /\ [c EXCEPT !.at = "reapverify"] \in Cmd
                     /\ [c EXCEPT !.at = "assert"] \in Cmd
  BY AtType DEF Place
<1>1. CASE Delete
  BY <1>1, <1>0, <1>a, <1>b, <1>c, <1>d, <1>e DEF Delete, disk
<1>2. CASE Verify
  BY <1>2, <1>0, <1>a, <1>b, <1>c, <1>d, <1>e DEF Verify, disk
<1>3. CASE List
  <2>1. Tagged(cmd.active) \in SUBSET ServiceId
    BY DEF Tagged, AccountTypeOK
  <2>2. [Spent(cmd) EXCEPT !.cands = Tagged(cmd.active)] \in Cmd
    BY <1>0, <2>1 DEF Cmd
  <2> QED BY <1>3, <1>0, <1>a, <1>b, <1>c, <1>d, <2>2 DEF List, disk
<1>4. CASE ReapDelete
  <2>1. PICK id \in cmd.cands :
          LET c == [Spent(cmd) EXCEPT !.cands = @ \ {id}, !.deleted = @ \cup {id}, !.target = id]
          IN  \/ cmd' = [c EXCEPT !.at = "reapverify"]
              \/ cmd' = Unproved(c)
              \/ cmd' = NextCandidate([cmd EXCEPT !.cands = @ \ {id}])
    BY <1>4 DEF ReapDelete
  <2>2. id \in ServiceId
    BY CmdFields
  <2>3. \A c \in Cmd : [c EXCEPT !.cands = @ \ {id}, !.deleted = @ \cup {id}, !.target = id] \in Cmd
    BY <2>2 DEF Cmd, Id
  <2>4. [cmd EXCEPT !.cands = @ \ {id}] \in Cmd
    BY DEF Cmd
  <2>5. cmd' \in Cmd
    BY <2>1, <2>3, <2>4, <1>0, <1>d, <1>e
  <2> QED BY <2>5, <1>a, <1>b, <1>c DEF disk
<1>5. CASE ReapVerify
  <2>1. [Spent(cmd) EXCEPT !.target = NoId] \in Cmd
    BY <1>0 DEF Cmd, Id
  <2> QED BY <1>5, <2>1, <1>a, <1>b, <1>c, <1>d DEF ReapVerify, disk
<1>6. CASE Relist
  BY <1>6, <1>0, <1>a, <1>b, <1>c, <1>d, <1>e DEF Relist, disk
<1>7. CASE AssertAbsent
  BY <1>7, <1>0, <1>a, <1>b, <1>c, <1>d DEF AssertAbsent, disk
<1> QED BY <1>1, <1>2, <1>3, <1>4, <1>5, <1>6, <1>7 DEF ProviderStep

(* Every journal write of "cleanup" and "begin-testing". *)
LEMMA CommandStepType ==
  ASSUME AccountTypeOK, LeaseTypeOK, CommandStep PROVE AccountTypeOK' /\ LeaseTypeOK'
<1> USE DEF LeaseTypeOK
<1> DEFINE r == cmd.role
<1>0. r \in Role /\ cmd.todo \in SUBSET Role /\ view[r] \in Record /\ lease.ids[r] \in Id
  BY CmdFields DEF LeaseFile
<1>a. view[r].id \in Id
  BY <1>0 DEF Record
<1>b. \A s \in LeaseStates, id \in Id, res \in CleanupResult : Rec(s, id, res) \in Record
  BY DEF Rec, Record
<1>c. {"deleting", "absent", "testing"} \subseteq LeaseStates /\ NoId \in Id
      /\ {"none", "verified", "verified-namespace", "delete-unverified"} \subseteq CleanupResult
  BY DEF LeaseStates, CleanupResult, Id
<1>d. \A p \in {"failed", "unverified", "delete", "ok", "mark"} : To(p) \in Cmd
  BY ToType DEF Place
<1>e. \A c \in Cmd : /\ [c EXCEPT !.at = "redelete"] \in Cmd /\ [c EXCEPT !.at = "closed"] \in Cmd
                     /\ [c EXCEPT !.at = "unverified"] \in Cmd
  BY AtType DEF Place
<1>f. \A c \in Cmd : NextDelete(c) \in Cmd
  <2> SUFFICES ASSUME NEW c \in Cmd PROVE NextDelete(c) \in Cmd
    OBVIOUS
  <2>1. c.todo \in SUBSET Role
    BY DEF Cmd
  <2> QED BY <2>1, DeletingType DEF NextDelete
<1>g. AccountTypeOK' /\ UNCHANGED <<view, exit>>
  BY AccountStepType DEF CommandStep, Intent, Probe, Redelete, Closed, Unverified, Settle,
     RecordAbsence, Testing, MarkTesting
<1>1. CASE Intent
  <2>1. Intending(cmd, cmd.todo, view) \in Cmd
    BY <1>0, IntendingType
  <2>2. Rec("deleting", view[r].id, "none") \in Record
    BY <1>a, <1>b, <1>c
  <2> QED BY <1>1, <1>0, <1>d, <1>g, <2>1, <2>2, AppendType DEF Intent
<1>2. CASE Probe
  <2>1. cmd' \in Cmd
    BY <1>2, <1>e, <1>f, SpentType DEF Probe
  <2>2. faults' \in 0..MaxFaults
    BY <1>2, FaultType DEF Probe
  <2> QED BY <1>2, <1>g, <2>1, <2>2 DEF Probe, disk
<1>3. CASE Redelete
  <2>1. Rec("deleting", view[r].id, "none") \in Record
    BY <1>a, <1>b, <1>c
  <2> QED BY <1>3, <1>0, <1>d, <1>g, <2>1, AppendType DEF Redelete
<1>4. CASE Closed
  <2>1. Rec("absent", view[r].id, "verified") \in Record
    BY <1>a, <1>b, <1>c
  <2> QED BY <1>4, <1>0, <1>d, <1>f, <1>g, <2>1, AppendType DEF Closed
<1>5. CASE Unverified
  <2>1. Rec("deleting", view[r].id, "delete-unverified") \in Record
    BY <1>a, <1>b, <1>c
  <2>2. [cmd EXCEPT !.failed = TRUE] \in Cmd
    BY DEF Cmd
  <2> QED BY <1>5, <1>0, <1>d, <1>f, <1>g, <2>1, <2>2, AppendType DEF Unverified
<1>6. CASE Settle
  <2>1. Rec("absent", NoId, "verified-namespace") \in Record
    BY <1>b, <1>c
  <2>2. Settling(cmd, cmd.todo) \in Cmd
    BY <1>0, SettlingType
  <2> QED BY <1>6, <1>0, <1>d, <1>g, <2>1, <2>2, AppendType DEF Settle
<1>7. CASE RecordAbsence
  <2>1. [lease EXCEPT !.state = "absent"] \in LeaseFile
    BY DEF LeaseFile
  <2> QED BY <1>7, <1>d, <1>g, <2>1, WriteLeaseType DEF RecordAbsence
<1>8. CASE Testing
  <2>1. Rec("testing", lease.ids[r], "none") \in Record
    BY <1>0, <1>b, <1>c
  <2>2. Loop(cmd, "testing", cmd.todo, To("mark")) \in Cmd
    BY <1>0, <1>d, LoopType DEF Place
  <2> QED BY <1>8, <1>0, <1>d, <1>g, <2>1, <2>2, AppendType DEF Testing
<1>9. CASE MarkTesting
  <2>1. [lease EXCEPT !.state = "testing"] \in LeaseFile
    BY DEF LeaseFile
  <2> QED BY <1>9, <1>d, <1>g, <2>1, WriteLeaseType DEF MarkTesting
<1> QED
  BY <1>1, <1>2, <1>3, <1>4, <1>5, <1>6, <1>7, <1>8, <1>9 DEF CommandStep

----------------------------------------------------------------------------
LEMMA IdleType == Idle \in Cmd /\ NoView \in [Role -> Record] /\ NoLease \in LeaseFile
<1>1. NoRecord \in Record
  BY DEF NoRecord, Record, Id, CleanupResult
<1>2. NoView \in [Role -> Record]
  BY <1>1 DEF NoView
<1>3. NoLease \in LeaseFile
  BY DEF NoLease, LeaseFile, Id
<1>4. Idle \in Cmd
  BY DEF Idle, Cmd, Mode, Place, Role, Level, Id
<1> QED BY <1>2, <1>3, <1>4

\* The initial states are well typed.
LEMMA InitType == Init => TypeOK
<1>1. AccountInit => AccountTypeOK
  BY AccountAssumption DEF AccountInit, AccountTypeOK, Id
<1>2. NoRecord \in Record
  BY IdleType DEF NoView, Role
<1> QED
  BY <1>1, <1>2, IdleType, FaultsAssumption, CleanupsAssumption
  DEF Init, TypeOK, LeaseTypeOK, Exits

\* And every step keeps them so.
LEMMA NextType == TypeOK /\ [Next]_allVars => TypeOK'
<1> SUFFICES ASSUME TypeOK, [Next]_allVars PROVE TypeOK'
  OBVIOUS
<1> USE DEF TypeOK
<1>1. CASE StartAcquire
  <2>1. [Idle EXCEPT !.mode = "acquire", !.at = "construct"] \in Cmd
    BY IdleType DEF Cmd, Mode, Place
  <2> QED BY <1>1, <2>1, AccountStepType DEF StartAcquire, LeaseTypeOK, Exits, disk
<1>2. CASE StartBegin
  <2>1. [Idle EXCEPT !.mode = "begin"] \in Cmd
    BY IdleType DEF Cmd, Mode
  <2>2. Loop([Idle EXCEPT !.mode = "begin"], "testing", Role, Idle) \in Cmd
    BY <2>1, IdleType, LoopType DEF Place
  <2> QED BY <1>2, <2>2, AccountStepType DEF StartBegin, LeaseTypeOK, Exits, disk
<1>3. CASE StartCleanup
  <2>1. cleanups' \in 0..MaxCleanups
    BY <1>3, CleanupsAssumption DEF StartCleanup
  <2>2. Branch \in Mode \cup {"refused"}
    BY DEF Branch, Mode, CleanupMode
  <2>3. ASSUME Branch # "refused"
        PROVE  Intending([Idle EXCEPT !.mode = Branch], NeedsIntent(Branch, Snapshot), Snapshot)
                 \in Cmd
    <3>1. [Idle EXCEPT !.mode = Branch] \in Cmd
      BY <2>2, <2>3, IdleType DEF Cmd
    <3>2. NeedsIntent(Branch, Snapshot) \in SUBSET Role
      BY DEF NeedsIntent
    <3> QED BY <3>1, <3>2, SnapshotType, IntendingType
  <2>4. cmd' \in Cmd /\ view' \in [Role -> Record] /\ exit' \in Exits
    BY <1>3, <2>3, SnapshotType DEF StartCleanup, LeaseTypeOK, Exits
  <2> QED BY <1>3, <2>1, <2>4, AccountStepType DEF StartCleanup, LeaseTypeOK, disk
<1>4. CASE CommandNext
  BY <1>4, AcquireType, ProviderStepType, CommandStepType DEF CommandNext
<1>5. CASE Return
  BY <1>5, IdleType, AccountStepType DEF Return, LeaseTypeOK, Exits, disk
<1>6. CASE Kill
  BY <1>6, IdleType, AccountStepType, FaultType DEF Kill, LeaseTypeOK, Exits, disk
<1>7. CASE Provider
  <2>1. AccountTypeOK'
    BY <1>7, AccountAssumption
    DEF Provider, ProviderNext, AcceptCreate, RejectCreate, Resurface, AccountTypeOK, Fresh,
        Owned, Id
  <2> QED BY <1>7, <2>1 DEF Provider, LeaseTypeOK, disk
<1>8. CASE UNCHANGED allVars
  BY <1>8 DEF allVars, vars, account, disk, local, AccountTypeOK, LeaseTypeOK
<1> QED
  BY <1>1, <1>2, <1>3, <1>4, <1>5, <1>6, <1>7, <1>8 DEF Next, Finished

(* Every value a command reads or writes, on disk, in memory or at the     *)
(* provider, has the type lease.py, lease_cli.py and render.py give it.    *)
THEOREM TypeCorrect == Spec => []TypeOK
BY InitType, NextType, PTL DEF Spec

-----------------------------------------------------------------------------
(***************************************************************************)
(* Where the control operators lead.  Back: the unwinding of an            *)
(* acquisition; Forth: the loops of a cleanup.  Neither adds candidates to *)
(* a reap nor changes which command runs.                                  *)
(***************************************************************************)
Same(c, d) == d.mode = c.mode /\ d.cands \subseteq c.cands

Back(c, d) ==
    /\ Same(c, d)
    /\ \/ d.at = "failed"
       \/ d.at = "closing" /\ d.level \in {"lease", "bundle"}
       \/ d.at = "list" /\ d.level = "proof"

Forth(c, d) ==
    /\ Same(c, d)
    /\ d.level = c.level \/ d.level = "command"
    /\ d.at \in {"failed", "intent", "probe", "delete", "list"}

\* Unwinding leads back: to a reap, to the next lease or to the end.
LEMMA UnwindLeads ==
  ASSUME NEW c \in Cmd
  PROVE  /\ \A n \in 0..2 : Back(c, UnwindBundle(c, n))
         /\ Back(c, UnwindLease(c))
         /\ Back(c, RoundOver(c))
<1>1. \A n \in 0..2 : Back(c, UnwindBundle(c, n))
  BY DEF Back, Same, UnwindBundle, Cmd
<1>2. Back(c, UnwindLease(c))
  BY DEF Back, Same, UnwindLease, Cmd
<1>3. Back(c, [c EXCEPT !.at = "failed"])
  BY DEF Back, Same, Cmd
<1>4. c.rounds \in 0..2
  BY DEF Cmd
<1>5. Back(c, RoundOver(c))
  BY <1>1, <1>3, <1>4 DEF RoundOver
<1> QED BY <1>1, <1>2, <1>5

\* So does the end of one lease of the bundle.
LEMMA LeaseOverLeads ==
  ASSUME cmd \in Cmd, NEW ok \in BOOLEAN PROVE Back(cmd, LeaseOver(ok))
<1>1. Back(cmd, UnwindBundle(cmd, cmd.rounds)) /\ Back(cmd, RoundOver(cmd))
  BY UnwindLeads, CmdFields
<1>2. Back(cmd, Reap(cmd, {}, 0, "proof"))
  BY DEF Back, Same, Reap, Cmd
<1>3. cmd.level = "bundle" =>
        Back(cmd, [cmd EXCEPT !.at = "closing", !.role = "outline", !.failed = cmd.failed \/ ~ok])
  BY DEF Back, Same, Cmd
<1> QED BY <1>1, <1>2, <1>3 DEF LeaseOver

\* The deletion loop of a cleanup leads forth.
LEMMA DeletingLeads ==
  ASSUME NEW c \in Cmd, NEW S, NEW snap PROVE Forth(c, Deleting(c, S, snap))
<1>1. Forth(c, Proving(c, snap))
  BY DEF Forth, Same, Proving, Reap, Cmd
<1>2. \A p \in {"probe", "delete", "intent"} :
        Forth(c, [c EXCEPT !.at = p, !.role = First(S), !.todo = S \ {First(S)}])
  BY DEF Forth, Same, Cmd
<1> QED BY <1>1, <1>2 DEF Deleting, Loop

\* So does the loop that records the intent.
LEMMA IntendingLeads ==
  ASSUME NEW c \in Cmd, NEW S, NEW snap PROVE Forth(c, Intending(c, S, snap))
<1>1. Forth(c, Deleting(c, NeedsDelete(c.mode, snap), snap))
  BY DeletingLeads
<1>2. Forth(c, [c EXCEPT !.at = "intent", !.role = First(S), !.todo = S \ {First(S)}])
  BY DEF Forth, Same, Cmd
<1> QED BY <1>1, <1>2 DEF Intending, Loop

\* So does the loop that records the results.
LEMMA SettlingLeads ==
  ASSUME NEW c \in Cmd, NEW S
  PROVE  /\ Same(c, Settling(c, S)) /\ Settling(c, S).level = c.level
         /\ Settling(c, S).at \in {"settle", "failed", "ok"}
BY DEF Same, Settling, Loop, Cmd

\* Counting an API operation changes nothing else of a command.
LEMMA SpentLeads ==
  ASSUME NEW c \in Cmd
  PROVE  /\ Spent(c) \in Cmd /\ Spent(c).at = c.at /\ Spent(c).mode = c.mode
         /\ Spent(c).cands = c.cands /\ Spent(c).level = c.level /\ Spent(c).role = c.role
         /\ Spent(c).deleted = c.deleted /\ Spent(c).active = c.active
         /\ Spent(c).bound = c.bound /\ Spent(c).target = c.target
BY SpentType DEF Spent, Cmd

----------------------------------------------------------------------------
(* An acquire step stays in the acquire command, adds no candidate to a    *)
(* reap, and reaches "closing", "delete" and "list" only from a handler.   *)
AfterAcquire == (AcquirePlaces \ {"construct", "settled", "unproven"}) \cup {"delete", "list", "failed", "ok"}

AcquireGoes(d) ==
    /\ Same(cmd, d)
    /\ d.at \in AfterAcquire \/ (cmd.at = "construct" /\ d.at = "construct")
    /\ d.at \in {"closing", "delete", "list"} => d.level # "command"

\* The places of an acquisition, spelled out.
LEMMA AfterAcquirePlaces ==
  {"creating", "post", "await", "record", "ready", "healthy", "handoff", "issue", "install",
   "closing", "delete", "list", "failed", "ok"} = AfterAcquire
BY DEF AfterAcquire, AcquirePlaces, CreatePlaces

\* Where a step of the acquisition leads.
LEMMA AcquireLeads ==
  ASSUME TypeOK, Control, AcquireStep
  PROVE  cmd.mode = "acquire" /\ AcquireGoes(cmd') /\ live' = live /\ exit' = exit
<1> USE DEF TypeOK, LeaseTypeOK
<1>0. cmd \in Cmd
  OBVIOUS
<1>a. cmd.mode = "acquire"
  BY DEF AcquireStep, Construct, Creating, BundleDeadline, Post, CreateAnswered, CreateRefused,
         CreateAnswerLost, RecordHandle, WaitUntilReady, Healthy, HandOff, MarkIssued,
         InstallLease, AlreadyAbsent, Closing, LeaseClosed, LeaseSettled, LeaseUnproven,
         At, Control, AcquirePlaces, CreatePlaces
<1>b. live' = live /\ exit' = exit
  BY DEF AcquireStep, Construct, Creating, BundleDeadline, Post, CreateAnswered, CreateRefused,
         CreateAnswerLost, RecordHandle, WaitUntilReady, Healthy, HandOff, MarkIssued,
         InstallLease, AlreadyAbsent, Closing, LeaseClosed, LeaseSettled, LeaseUnproven,
         account, PostService
<1>c. \A d : Back(cmd, d) => AcquireGoes(d)
  BY AfterAcquirePlaces DEF Back, AcquireGoes
<1>d. \A n \in {1, 2} : AcquireGoes(UnwindBundle(cmd, n))
  BY <1>0, <1>c, UnwindLeads
<1>e. AcquireGoes(UnwindLease(cmd)) /\ AcquireGoes(LeaseOver(TRUE)) /\ AcquireGoes(LeaseOver(FALSE))
  BY <1>0, <1>c, UnwindLeads, LeaseOverLeads
<1>f. \A p \in {"post", "await", "record", "ready", "healthy", "handoff", "install", "ok", "failed"} :
        AcquireGoes([cmd EXCEPT !.at = p])
  <2> SUFFICES ASSUME NEW p \in {"post", "await", "record", "ready", "healthy", "handoff",
                                 "install", "ok", "failed"}
               PROVE  AcquireGoes([cmd EXCEPT !.at = p])
    OBVIOUS
  <2>1. p \in AfterAcquire /\ p \notin {"closing", "delete", "list"}
    BY AfterAcquirePlaces
  <2>2. [cmd EXCEPT !.at = p].at = p /\ Same(cmd, [cmd EXCEPT !.at = p])
    BY <1>0 DEF Same, Cmd
  <2> QED BY <2>1, <2>2 DEF AcquireGoes
<1>g. \A p \in {"creating", "issue"}, q \in Role : AcquireGoes([cmd EXCEPT !.at = p, !.role = q])
  <2> SUFFICES ASSUME NEW p \in {"creating", "issue"}, NEW q \in Role
               PROVE  AcquireGoes([cmd EXCEPT !.at = p, !.role = q])
    OBVIOUS
  <2>1. p \in AfterAcquire /\ p \notin {"closing", "delete", "list"}
    BY AfterAcquirePlaces
  <2>2. /\ [cmd EXCEPT !.at = p, !.role = q].at = p
        /\ Same(cmd, [cmd EXCEPT !.at = p, !.role = q])
    BY <1>0 DEF Same, Cmd
  <2> QED BY <2>1, <2>2 DEF AcquireGoes
<1>h. cmd.at \in {"construct", "issue"} => AcquireGoes([cmd EXCEPT !.role = "sink"])
  <2>1. /\ [cmd EXCEPT !.role = "sink"].at = cmd.at
        /\ Same(cmd, [cmd EXCEPT !.role = "sink"])
    BY <1>0 DEF Same, Cmd
  <2> QED BY <2>1, AfterAcquirePlaces DEF AcquireGoes
<1>i. ASSUME cmd.at = "closing" PROVE AcquireGoes(CloseService)
  <2>1. cmd.level # "command"
    BY <1>a, <1>i DEF Control
  <2>2. "list" \in AfterAcquire /\ "delete" \in AfterAcquire
    BY AfterAcquirePlaces
  <2>3. AcquireGoes(Reap(cmd, OtherIds, 1, cmd.level))
    BY <2>1, <2>2, <1>0 DEF AcquireGoes, Same, Reap, Cmd
  <2>4. AcquireGoes(To("delete"))
    BY <2>1, <2>2, <1>0 DEF AcquireGoes, Same, To, Cmd
  <2> QED BY <2>3, <2>4 DEF CloseService
<1>j. "outline" \in Role /\ "sink" \in Role
  BY DEF Role
<1>k. AcquireGoes(cmd')
  <2>1. CASE Construct
    BY <2>1, <1>f, <1>g, <1>h, <1>j DEF Construct, AppendRecord, At, To
  <2>2. CASE Creating
    BY <2>2, <1>d, <1>f DEF Creating, Transition, AppendRecord, To
  <2>3. CASE BundleDeadline
    BY <2>3, <1>d DEF BundleDeadline
  <2>4. CASE Post \/ CreateAnswered
    BY <2>4, <1>f DEF Post, CreateAnswered, Goto, To
  <2>5. CASE CreateRefused \/ CreateAnswerLost
    BY <2>5, <1>e DEF CreateRefused, CreateAnswerLost
  <2>6. CASE RecordHandle \/ WaitUntilReady
    BY <2>6, <1>e, <1>f DEF RecordHandle, WaitUntilReady, AppendRecord, To
  <2>7. CASE Healthy
    BY <2>7, <1>e, <1>f, <1>g, <1>j DEF Healthy, Transition, AppendRecord, To
  <2>8. CASE HandOff
    BY <2>8, <1>d, <1>g, <1>j DEF HandOff
  <2>9. CASE MarkIssued
    BY <2>9, <1>d, <1>f, <1>h DEF MarkIssued, Transition, AppendRecord, To, At
  <2>10. CASE InstallLease
    BY <2>10, <1>d, <1>f DEF InstallLease, WriteLease, To
  <2>11. CASE Closing
    BY <2>11, <1>e, <1>i DEF Closing, Transition, AppendRecord, At
  <2>12. CASE AlreadyAbsent \/ LeaseClosed \/ LeaseSettled \/ LeaseUnproven
    BY <2>12, <1>e DEF AlreadyAbsent, LeaseClosed, LeaseSettled, LeaseUnproven, Transition, AppendRecord
  <2> QED
    BY <2>1, <2>2, <2>3, <2>4, <2>5, <2>6, <2>7, <2>8, <2>9, <2>10, <2>11, <2>12 DEF AcquireStep
<1> QED BY <1>a, <1>b, <1>k

\* A step of the acquisition preserves the control invariant.
LEMMA AcquireControl ==
  ASSUME TypeOK, IInv, AcquireStep, UNCHANGED <<step, cleanups>>
  PROVE  Control' /\ ProofHolds' /\ VerifiedAbsence' /\ Selection'
<1>1. cmd.mode = "acquire" /\ AcquireGoes(cmd') /\ live' = live /\ exit' = exit
  BY AcquireLeads DEF IInv
<1>2. cmd'.mode = "acquire" /\ cmd'.cands \subseteq cmd.cands
  BY <1>1 DEF AcquireGoes, Same
<1>3. cmd.at # "idle" /\ exit = "none" /\ step # "acquire"
  BY <1>1 DEF IInv, Control, At
<1>4. cmd'.at \in AfterAcquire \cup {"construct"}
  BY <1>1 DEF AcquireGoes
<1>5. cmd'.at # "idle" /\ cmd'.at \notin {"testing", "mark", "verify"} \cup CleanupPlaces
  BY <1>4, AfterAcquirePlaces DEF CleanupPlaces
<1>6. (cmd'.at \in ReapPlaces => cmd'.at = "list") /\ cmd'.at \notin {"settled", "unproven"}
  BY <1>4, AfterAcquirePlaces DEF ReapPlaces
<1>7. cmd'.at \in {"closing", "delete", "list"} => cmd'.level # "command"
  BY <1>1 DEF AcquireGoes
<1>8. "acquire" \notin CleanupMode /\ "acquire" # "idle"
  BY DEF CleanupMode
<1>9. Control'
  BY <1>1, <1>2, <1>3, <1>5, <1>6, <1>7, <1>8 DEF Control, At
<1>10. ProofHolds'
  BY <1>2, <1>8 DEF ProofHolds
<1>11. VerifiedAbsence'
  BY <1>1, <1>3 DEF VerifiedAbsence
<1>12. Selection'
  BY <1>1, <1>2 DEF IInv, Selection
<1> QED BY <1>9, <1>10, <1>11, <1>12

(* An append or a write keeps the ledger when it names the role's service. *)
LEMMA AppendLedger ==
  ASSUME TypeOK, Ledger, NEW r \in Role, NEW rec, NEW ok, NEW ko, AppendRecord(r, rec, ok, ko),
         rec.state # "none", rec.id \in {NoId, created[r]}, UNCHANGED <<account, lease>>,
         \A q \in Role : view'[q].id \in {NoId, created[q]}
  PROVE  Ledger'
<1>1. \A q \in Role : journal'[q] = journal[q] \/ (q = r /\ journal'[q] = rec)
  BY DEF AppendRecord, Journal, TypeOK, LeaseTypeOK
<1> QED BY <1>1 DEF Ledger, Untouched, account

\* A transition that succeeds or fails leaves the ledger of ids sound.
LEMMA TransitionLedger ==
  ASSUME TypeOK, Ledger, NEW r \in Role, NEW s \in LeaseStates, NEW res, NEW ok, NEW ko,
         Transition(r, s, res, ok, ko), UNCHANGED <<account, lease>>
  PROVE  Ledger' /\ \A q \in Role : view'[q].id = view[q].id
<1>0. view \in [Role -> Record] /\ view' = [view EXCEPT ![r] = Rec(s, view[r].id, "none")]
  BY DEF Transition, TypeOK, LeaseTypeOK
<1>1. \A q \in Role : view'[q].id = view[q].id
  BY <1>0 DEF Rec
<1>2. \A q \in Role : view[q].id \in {NoId, created[q]}
  BY DEF Ledger
<1>3. s # "none"
  BY DEF LeaseStates
<1>4. Rec(s, view[r].id, res).state # "none" /\ Rec(s, view[r].id, res).id \in {NoId, created[r]}
  BY <1>2, <1>3 DEF Rec
<1> QED BY <1>1, <1>2, <1>4, AppendLedger DEF Transition

\* A step of the acquisition preserves the ledger.
LEMMA AcquireLedger ==
  ASSUME TypeOK, IInv, AcquireStep PROVE Ledger'
<1> USE DEF IInv
<1> DEFINE r == cmd.role
<1>0. r \in Role /\ cmd \in Cmd
  BY CmdFields DEF TypeOK, LeaseTypeOK
<1>a. {"creating", "healthy", "issued", "deleting", "absent"} \subseteq LeaseStates
  BY DEF LeaseStates
<1>b. \A q \in Role : view[q].id \in {NoId, created[q]}
  BY DEF Ledger
<1>c. "outline" \in Role /\ "sink" \in Role
  BY DEF Role
<1>1. CASE Construct
  <2>1. \A q \in Role : view'[q].id \in {NoId, created[q]}
    BY <1>1, <1>b DEF Construct, TypeOK, LeaseTypeOK, Rec
  <2> QED BY <1>1, <1>0, <2>1, AppendLedger DEF Construct, Rec
<1>2. CASE Creating \/ Healthy \/ MarkIssued \/ LeaseClosed \/ LeaseSettled
  BY <1>2, <1>0, <1>a, <1>c, TransitionLedger
  DEF Creating, Healthy, MarkIssued, LeaseClosed, LeaseSettled
<1>3. CASE Post
  <2>1. created[r] = NoId /\ journal[r].state # "none"
    BY <1>3, <1>0 DEF Post, At, OneCreate, Untouched, CreatePlaces
  <2> QED BY <1>3, <2>1 DEF Post, PostService, disk, Ledger, Untouched
<1>4. CASE CreateAnswered
  BY <1>4, <1>0, <1>b DEF CreateAnswered, account, disk, Ledger, Untouched, TypeOK, LeaseTypeOK, Record
<1>5. CASE BundleDeadline \/ CreateRefused \/ CreateAnswerLost \/ WaitUntilReady \/ HandOff
           \/ AlreadyAbsent
  BY <1>5 DEF BundleDeadline, CreateRefused, CreateAnswerLost, WaitUntilReady, HandOff,
     AlreadyAbsent, account, disk, Ledger, Untouched
<1>6. CASE RecordHandle
  <2>1. view[r].state = "creating"
    BY <1>6, <1>0 DEF RecordHandle, At, OneCreate, CreatePlaces
  <2> QED BY <1>6, <1>0, <1>b, <2>1, AppendLedger DEF RecordHandle, Rec
<1>7. CASE InstallLease
  <2>1. lease' = lease \/ lease'.ids = [q \in Role |-> view[q].id]
    BY <1>7 DEF InstallLease, WriteLease
  <2>2. \A q \in Role : lease'.ids[q] \in {NoId, created[q]}
    BY <2>1, <1>b DEF Ledger
  <2> QED BY <1>7, <2>2 DEF InstallLease, account, Ledger, Untouched
<1>8. CASE Closing
  <2>1. CASE view[r].state = "deleting"
    BY <1>8, <2>1 DEF Closing, account, Ledger, Untouched
  <2> QED BY <1>8, <2>1, <1>0, <1>a, TransitionLedger DEF Closing
<1>9. CASE LeaseUnproven
  <2>1. view[r].state # "none"
    <3>1. cmd.at = "unproven" /\ cmd.level \in {"lease", "bundle"}
      BY <1>9 DEF LeaseUnproven, At, Control
    <3> QED BY <3>1 DEF OneCreate
  <2>2. PICK rec : /\ rec = Rec(view[r].state, NoId, "unverified-no-service-id")
                   /\ AppendRecord(r, rec, LeaseOver(FALSE), LeaseOver(FALSE))
    BY <1>9 DEF LeaseUnproven
  <2>3. rec.state # "none" /\ rec.id = NoId
    BY <2>1, <2>2 DEF Rec
  <2> QED BY <1>9, <1>0, <1>b, <2>2, <2>3, AppendLedger DEF LeaseUnproven
<1> QED
  BY <1>1, <1>2, <1>3, <1>4, <1>5, <1>6, <1>7, <1>8, <1>9 DEF AcquireStep

(* A place no conjunct of OneCreate speaks about. *)
Quiet(d) ==
    /\ d.at \notin CreatePlaces \cup {"creating", "construct"}
    /\ d.at \in ReapPlaces \cup {"settled", "unproven"} => d.level \notin {"lease", "bundle"}

\* A command that neither creates nor unwinds satisfies OneCreate.
LEMMA QuietOneCreate ==
  ASSUME Quiet(cmd'), step' # "acquire" PROVE OneCreate'
BY DEF Quiet, OneCreate, At, CreatePlaces

\* Unwinding ends at such a place or at the bundle's final proof.
LEMMA BackQuiet == ASSUME NEW c, NEW d, Back(c, d) PROVE Quiet(d)
BY DEF Back, Quiet, CreatePlaces, ReapPlaces

\* A step of the acquisition preserves OneCreate.
LEMMA AcquireOneCreate ==
  ASSUME TypeOK, IInv, AcquireStep, UNCHANGED <<step, cleanups>> PROVE OneCreate'
<1> USE DEF IInv
<1> DEFINE r == cmd.role
<1>0. r \in Role /\ cmd \in Cmd /\ "outline" \in Role /\ "sink" \in Role
  BY CmdFields DEF TypeOK, LeaseTypeOK, Role
<1>a. \A n \in {1, 2} : Quiet(UnwindBundle(cmd, n))
  BY <1>0, UnwindLeads, BackQuiet
<1>b. Quiet(UnwindLease(cmd)) /\ Quiet(LeaseOver(TRUE)) /\ Quiet(LeaseOver(FALSE))
  BY <1>0, UnwindLeads, LeaseOverLeads, BackQuiet
<1>c. \A p \in {"failed", "handoff", "install", "ok", "delete"} : Quiet(To(p))
  BY <1>0 DEF Quiet, To, Cmd, CreatePlaces, ReapPlaces
<1>d. step' # "acquire"
  BY AcquireLeads DEF Control, At
<1>e. \A p \in Place : To(p).at = p /\ To(p).role = cmd.role /\ To(p).level = cmd.level
  BY <1>0 DEF To, Cmd
<1>q. Quiet(cmd') => OneCreate'
  BY <1>d, QuietOneCreate
<1>1. CASE Construct
  <2>1. \A q \in Role : Untouched(q)
    BY <1>1 DEF Construct, OneCreate, At
  <2>2. \A q \in Role : Untouched(q)'
    BY <1>1, <2>1 DEF Construct, account, Untouched
  <2>3. cmd'.at \in {"construct", "creating", "failed"}
    BY <1>1, <1>0 DEF Construct, AppendRecord, To, At, Cmd
  <2>4. cmd'.role \in Role
    BY <1>1, <1>0 DEF Construct, AppendRecord, To, At, Cmd
  <2> QED BY <1>d, <2>2, <2>3, <2>4, <1>0 DEF OneCreate, CreatePlaces, ReapPlaces, At
<1>2. CASE Creating
  <2>1. CASE Quiet(cmd')
    BY <1>q, <2>1
  <2>2. CASE cmd' = To("post") /\ Journal(r, Rec("creating", view[r].id, "none"))
    <3>0. Untouched(r) /\ (r = "outline" => Untouched("sink"))
      BY <1>2 DEF Creating, OneCreate, At
    <3>1. /\ created'[r] = NoId /\ r \notin pending'
          /\ r = "outline" => Untouched("sink")'
      BY <1>2, <3>0 DEF Creating, account, Untouched
    <3>2. journal'[r].state = "creating" /\ view'[r].state = "creating"
      BY <1>2, <2>2, <1>0 DEF Creating, Transition, Journal, Rec, TypeOK, LeaseTypeOK
    <3>3. cmd'.at = "post" /\ cmd'.role = r
      BY <2>2, <1>e DEF Place
    <3> QED BY <1>d, <3>1, <3>2, <3>3 DEF OneCreate, At, ReapPlaces, CreatePlaces, Untouched
  <2> QED BY <1>2, <1>a, <2>1, <2>2 DEF Creating, Transition, AppendRecord
<1>3. CASE BundleDeadline
  BY <1>3, <1>a, <1>q DEF BundleDeadline
<1>4. CASE Post
  <2>1. /\ r = "outline" => Untouched("sink")'
        /\ journal'[r].state # "none" /\ view'[r].state = "creating"
    BY <1>4, <1>0 DEF Post, At, OneCreate, CreatePlaces, PostService, Untouched, disk
  <2>2. cmd'.at = "await" /\ cmd'.role = r
    BY <1>4, <1>e DEF Post, Goto, Place
  <2> QED BY <1>d, <2>1, <2>2 DEF OneCreate, At, ReapPlaces, CreatePlaces
<1>5. CASE CreateAnswered
  <2>1. /\ r = "outline" => Untouched("sink")'
        /\ journal'[r].state # "none" /\ view[r].state = "creating"
    BY <1>5 DEF CreateAnswered, At, OneCreate, CreatePlaces, Untouched, account, disk
  <2>2. view'[r].state = view[r].state
    BY <1>5, <1>0 DEF CreateAnswered, TypeOK, LeaseTypeOK, Record
  <2>3. cmd'.at = "record" /\ cmd'.role = r
    BY <1>5, <1>e DEF CreateAnswered, Goto, Place
  <2> QED BY <1>d, <2>1, <2>2, <2>3 DEF OneCreate, At, ReapPlaces, CreatePlaces
<1>6. CASE CreateRefused \/ CreateAnswerLost
  BY <1>6, <1>b, <1>q DEF CreateRefused, CreateAnswerLost
<1>7. CASE RecordHandle \/ WaitUntilReady
  <2>1. CASE Quiet(cmd')
    BY <1>q, <2>1
  <2>2. CASE cmd'.at \in {"ready", "healthy"} /\ cmd'.role = r
    <3>1. view' = view /\ account' = account
      BY <1>7 DEF RecordHandle, WaitUntilReady
    <3>2. view[r].state = "creating" /\ (r = "outline" => Untouched("sink")')
      BY <1>7, <3>1 DEF RecordHandle, WaitUntilReady, At, OneCreate, CreatePlaces, Untouched, account
    <3>3. journal[r].state # "none"
      BY <1>7 DEF RecordHandle, WaitUntilReady, At, OneCreate, CreatePlaces
    <3>4. journal'[r].state # "none"
      BY <1>7, <1>0, <3>2, <3>3
      DEF RecordHandle, WaitUntilReady, AppendRecord, Journal, Rec, TypeOK, LeaseTypeOK, disk
    <3> QED BY <1>d, <2>2, <3>1, <3>2, <3>4 DEF OneCreate, At, ReapPlaces, CreatePlaces
  <2>3. cmd' = UnwindLease(cmd) \/ cmd' = To("ready") \/ cmd' = To("healthy")
    BY <1>7 DEF RecordHandle, WaitUntilReady, AppendRecord
  <2> QED BY <1>b, <1>e, <2>1, <2>2, <2>3 DEF Place
<1>8. CASE Healthy
  <2>1. CASE Quiet(cmd')
    BY <1>q, <2>1
  <2>2. CASE r = "outline" /\ cmd' = [cmd EXCEPT !.at = "creating", !.role = "sink"]
    <3>1. Untouched("sink")'
      BY <1>8, <2>2 DEF Healthy, At, OneCreate, CreatePlaces, Untouched, account
    <3>2. cmd'.at = "creating" /\ cmd'.role = "sink"
      BY <2>2, <1>0 DEF Cmd
    <3> QED BY <1>d, <3>1, <3>2 DEF OneCreate, At, ReapPlaces, CreatePlaces
  <2> QED BY <1>8, <1>b, <1>c, <2>1, <2>2 DEF Healthy, Transition, AppendRecord
<1>9. CASE HandOff
  <2>1. Quiet([cmd EXCEPT !.at = "issue", !.role = "outline"])
    BY <1>0 DEF Quiet, Cmd, CreatePlaces, ReapPlaces
  <2> QED BY <1>9, <1>a, <1>q, <2>1 DEF HandOff
<1>10. CASE MarkIssued
  <2>1. cmd.at = "issue" => Quiet([cmd EXCEPT !.role = "sink"])
    BY <1>0 DEF Quiet, Cmd, CreatePlaces, ReapPlaces
  <2> QED BY <1>10, <1>a, <1>c, <1>q, <2>1 DEF MarkIssued, Transition, AppendRecord, At
<1>11. CASE InstallLease
  BY <1>11, <1>a, <1>c, <1>q DEF InstallLease, WriteLease
<1>12. CASE AlreadyAbsent \/ LeaseClosed \/ LeaseSettled \/ LeaseUnproven
  BY <1>12, <1>b, <1>q DEF AlreadyAbsent, LeaseClosed, LeaseSettled, LeaseUnproven, Transition,
     AppendRecord
<1>13. CASE Closing
  <2>1. CASE Quiet(cmd')
    BY <1>q, <2>1
  <2>2. CASE cmd' = Reap(cmd, OtherIds, 1, cmd.level) /\ view'[r].state = "deleting"
    <3>1. cmd'.at = "list" /\ cmd'.role = r
      BY <2>2, <1>0 DEF Reap, Cmd
    <3> QED BY <1>d, <2>2, <3>1 DEF OneCreate, At, ReapPlaces, CreatePlaces
  <2>3. view'[r].state = "deleting"
    <3>1. CASE view[r].state = "deleting"
      BY <1>13, <3>1 DEF Closing
    <3>2. CASE view' = [view EXCEPT ![r] = Rec("deleting", view[r].id, "none")]
      BY <3>2, <1>0 DEF Rec, TypeOK, LeaseTypeOK
    <3> QED BY <1>13, <3>1, <3>2 DEF Closing, Transition
  <2>4. cmd' = LeaseOver(FALSE) \/ cmd' = CloseService
    BY <1>13 DEF Closing, Transition, AppendRecord
  <2> QED BY <1>b, <1>c, <2>1, <2>2, <2>3, <2>4 DEF CloseService
<1> QED
  BY <1>1, <1>2, <1>3, <1>4, <1>5, <1>6, <1>7, <1>8, <1>9, <1>10, <1>11, <1>12, <1>13
  DEF AcquireStep

----------------------------------------------------------------------------
(* Where a provider call leads, for the unwinding of an acquisition and    *)
(* for a cleanup: a reap stays at its role and level until it is decided.  *)
Reaping(d) == d.at \in ReapPlaces \cup {"settled", "unproven"}

InAcquire(d) ==
    /\ d.at \in {"closing", "verify", "closed", "failed"} \/ Reaping(d)
    /\ d.at \in {"closing", "verify"} => d.level # "command"
    /\ Reaping(d) => \/ d.level = "proof" /\ d.at \in ReapPlaces
                     \/ d.level \in {"lease", "bundle"} /\ cmd.at \in ReapPlaces
                        /\ d.level = cmd.level /\ d.role = cmd.role

InCleanup(d) ==
    /\ d.level = "command"
    /\ \/ d.at \in ReapPlaces \cup {"verify", "closed", "unverified", "failed"}
       \/ cmd.at = "assert" /\ d.at \in {"settle", "file", "ok"}

Decided(d) ==
    /\ d.mode = cmd.mode /\ d.cands \cap Foreign = {}
    /\ d.mode = "acquire" => InAcquire(d)
    /\ d.mode \in CleanupMode => InCleanup(d)

\* Unwinding stays inside the acquisition.
LEMMA BackInAcquire == ASSUME NEW d, Back(cmd, d) PROVE InAcquire(d)
BY DEF Back, InAcquire, Reaping, ReapPlaces

(* c is the running command up to what a reap may change before it decides. *)
Follows(c) ==
    /\ c \in Cmd /\ c.mode = cmd.mode /\ c.level = cmd.level /\ c.role = cmd.role
    /\ c.cands \cap Foreign = {}

\* Where a step of an exact-id deletion leads.
LEMMA ExactLeads ==
  ASSUME cmd \in Cmd, Control, Selection, cmd.at \in {"delete", "verify"}
  PROVE  \A c : Follows(c) => /\ Decided(DeleteFailed(c))
                              /\ \A p \in {"verify", "closed"} : Decided([c EXCEPT !.at = p])
<1> SUFFICES ASSUME NEW c, Follows(c)
             PROVE  /\ Decided(DeleteFailed(c))
                    /\ \A p \in {"verify", "closed"} : Decided([c EXCEPT !.at = p])
  OBVIOUS
<1>0. /\ cmd.mode \in CleanupMode \cup {"acquire"}
      /\ cmd.mode = "acquire" => cmd.level # "command"
      /\ cmd.mode \in CleanupMode => cmd.level = "command"
  BY DEF Control
<1>a. "acquire" \notin CleanupMode
  BY DEF CleanupMode
<1>1. ASSUME NEW p \in {"verify", "closed"} PROVE Decided([c EXCEPT !.at = p])
  <2>1. /\ [c EXCEPT !.at = p].at = p /\ [c EXCEPT !.at = p].mode = cmd.mode
        /\ [c EXCEPT !.at = p].level = cmd.level /\ [c EXCEPT !.at = p].cands = c.cands
    BY DEF Follows, Cmd
  <2> QED BY <1>0, <2>1 DEF Decided, InAcquire, InCleanup, Reaping, ReapPlaces, Follows
<1>2. CASE cmd.mode = "acquire"
  <2>1. Back(cmd, LeaseOver(FALSE))
    BY LeaseOverLeads
  <2>2. LeaseOver(FALSE).mode = "acquire" /\ LeaseOver(FALSE).cands \cap Foreign = {}
    BY <1>2, <2>1 DEF Back, Same, Selection
  <2> QED BY <1>1, <1>2, <1>a, <2>1, <2>2, BackInAcquire DEF Decided, DeleteFailed, Follows
<1>3. CASE cmd.mode \in CleanupMode
  <2>1. /\ [c EXCEPT !.at = "unverified"].at = "unverified"
        /\ [c EXCEPT !.at = "unverified"].mode = cmd.mode
        /\ [c EXCEPT !.at = "unverified"].level = "command"
        /\ [c EXCEPT !.at = "unverified"].cands = c.cands
    BY <1>0, <1>3 DEF Follows, Cmd
  <2>2. Decided([c EXCEPT !.at = "unverified"])
    BY <1>3, <1>a, <2>1 DEF Decided, InCleanup, Follows
  <2> QED BY <1>1, <1>3, <1>a, <2>2 DEF DeleteFailed, Follows
<1> QED BY <1>0, <1>2, <1>3

\* Where a step of a reap leads.
LEMMA ReapLeads ==
  ASSUME TypeOK, Control, cmd.at \in ReapPlaces
  PROVE  \A c : Follows(c) => /\ Decided(Unproved(c)) /\ Decided(NextCandidate(c))
                              /\ cmd.at = "assert" => Decided(Proved(c))
                              /\ \A p \in {"reapverify", "assert"} : Decided([c EXCEPT !.at = p])
<1> SUFFICES ASSUME NEW c, Follows(c)
             PROVE  /\ Decided(Unproved(c)) /\ Decided(NextCandidate(c))
                    /\ cmd.at = "assert" => Decided(Proved(c))
                    /\ \A p \in {"reapverify", "assert"} : Decided([c EXCEPT !.at = p])
  OBVIOUS
<1>0. /\ cmd.mode \in CleanupMode \cup {"acquire"}
      /\ cmd.mode = "acquire" => cmd.level # "command"
      /\ cmd.mode \in CleanupMode => cmd.level = "command"
      /\ cmd.level \in Level
  BY CmdFields DEF Control, TypeOK, LeaseTypeOK
<1>a. "acquire" \notin CleanupMode
  BY DEF CleanupMode
<1>b. \A p : /\ [c EXCEPT !.at = p].at = p /\ [c EXCEPT !.at = p].mode = cmd.mode
             /\ [c EXCEPT !.at = p].level = cmd.level /\ [c EXCEPT !.at = p].role = cmd.role
             /\ [c EXCEPT !.at = p].cands = c.cands
  BY DEF Follows, Cmd
<1>c. c.cands \cap Foreign = {} /\ c.level = cmd.level
  BY DEF Follows
<1>1. \A p \in ReapPlaces : Decided([c EXCEPT !.at = p])
  BY <1>0, <1>b, <1>c DEF Decided, InAcquire, InCleanup, Reaping, ReapPlaces, Level
<1>2. cmd.level \in {"lease", "bundle"} =>
        \A p \in {"settled", "unproven"} : Decided([c EXCEPT !.at = p])
  BY <1>0, <1>b, <1>c DEF Decided, InAcquire, Reaping, ReapPlaces
<1>3. cmd.level = "proof" => Decided(RoundOver(c))
  <2> SUFFICES ASSUME cmd.level = "proof" PROVE Decided(RoundOver(c))
    OBVIOUS
  <2>1. Back(c, RoundOver(c))
    BY UnwindLeads DEF Follows
  <2>2. cmd.mode = "acquire"
    BY <1>0
  <2> QED BY <1>a, <1>c, <2>1, <2>2
      DEF Decided, InAcquire, Reaping, ReapPlaces, Back, Same, Follows
<1>4. cmd.mode \in CleanupMode =>
        /\ Decided([c EXCEPT !.at = "failed"])
        /\ cmd.at = "assert" => Decided([c EXCEPT !.at = "file"]) /\ Decided(Settling(c, UnknownRoles))
  <2> SUFFICES ASSUME cmd.mode \in CleanupMode
               PROVE  /\ Decided([c EXCEPT !.at = "failed"])
                      /\ cmd.at = "assert" => /\ Decided([c EXCEPT !.at = "file"])
                                              /\ Decided(Settling(c, UnknownRoles))
    OBVIOUS
  <2>1. cmd.mode # "acquire" /\ cmd.level = "command"
    BY <1>0, <1>a
  <2>2. Decided([c EXCEPT !.at = "failed"])
    BY <1>b, <1>c, <2>1 DEF Decided, InCleanup
  <2>3. cmd.at = "assert" => Decided([c EXCEPT !.at = "file"])
    BY <1>b, <1>c, <2>1 DEF Decided, InCleanup
  <2>4. cmd.at = "assert" => Decided(Settling(c, UnknownRoles))
    BY <1>c, <2>1, SettlingLeads DEF Decided, InCleanup, Same, Follows
  <2> QED BY <2>2, <2>3, <2>4
<1>5. cmd.level = "command" <=> cmd.mode \in CleanupMode
  BY <1>0
<1>6. Decided(Unproved(c))
  BY <1>0, <1>c, <1>2, <1>3, <1>4, <1>5 DEF Unproved, Level
<1>7. Decided(NextCandidate(c))
  BY <1>1 DEF NextCandidate, ReapPlaces
<1>8. cmd.at = "assert" => Decided(Proved(c))
  <2>1. CASE cmd.level \in {"lease", "bundle"}
    BY <1>c, <1>2, <2>1 DEF Proved
  <2>2. CASE cmd.level = "proof"
    BY <1>c, <1>3, <2>2 DEF Proved
  <2>3. CASE cmd.level = "command"
    <3>1. Proved(c) = [c EXCEPT !.at = "file"] \/ Proved(c) = Settling(c, UnknownRoles)
      BY <1>c, <2>3 DEF Proved
    <3> QED BY <1>4, <1>5, <2>3, <3>1
  <2> QED BY <1>0, <2>1, <2>2, <2>3 DEF Level
<1> QED BY <1>1, <1>6, <1>7, <1>8 DEF ReapPlaces

(* DELETE never names a foreign service, and the account otherwise only    *)
(* changes by the provider's own doing.                                    *)
LEMMA ProviderDecided ==
  ASSUME TypeOK, IInv, ProviderStep
  PROVE  /\ Decided(cmd') /\ (Foreign \subseteq live)' /\ exit' = "none"
         /\ cmd.mode \in CleanupMode \cup {"acquire"}
         /\ UNCHANGED <<pending, created, disk, view>>
         /\ cmd'.mode \in CleanupMode /\ cmd'.at \in {"settle", "file", "ok"} => Tagged({}) = {} /\ live' = live
<1> USE DEF IInv
<1>0. cmd \in Cmd /\ cmd.role \in Role
  BY CmdFields DEF TypeOK, LeaseTypeOK
<1>a. Follows(cmd) /\ Follows(Spent(cmd))
  BY <1>0, SpentLeads DEF Follows, Selection
<1>b. cmd.at \in ReapPlaces \cup {"delete", "verify"}
  BY DEF ProviderStep, Delete, Verify, List, ReapDelete, ReapVerify, Relist, AssertAbsent, At,
     ReapPlaces
<1>c. cmd.mode \in CleanupMode \cup {"acquire"} /\ exit = "none"
  BY <1>b DEF Control, At, ReapPlaces
<1>d. UNCHANGED <<pending, created, disk, view>> /\ exit' = "none"
  BY <1>c DEF ProviderStep, Delete, Verify, List, ReapDelete, ReapVerify, Relist, AssertAbsent,
     DeleteService, ListServices, account
<1>e. view[cmd.role].id \notin Foreign
  BY <1>0, AccountAssumption DEF Ledger
<1>f. cmd.at \in {"delete", "verify"} => \A c \in {cmd, Spent(cmd)} :
        /\ Decided(DeleteFailed(c))
        /\ Decided([c EXCEPT !.at = "verify"]) /\ Decided([c EXCEPT !.at = "closed"])
  BY <1>0, <1>a, ExactLeads
<1>h. cmd.at \in ReapPlaces => \A c : Follows(c) =>
        /\ Decided(Unproved(c)) /\ Decided(NextCandidate(c))
        /\ Decided([c EXCEPT !.at = "reapverify"]) /\ Decided([c EXCEPT !.at = "assert"])
        /\ cmd.at = "assert" => Decided(Proved(c))
  <2> SUFFICES ASSUME cmd.at \in ReapPlaces, NEW c, Follows(c)
               PROVE  /\ Decided(Unproved(c)) /\ Decided(NextCandidate(c))
                      /\ Decided([c EXCEPT !.at = "reapverify"])
                      /\ Decided([c EXCEPT !.at = "assert"])
                      /\ cmd.at = "assert" => Decided(Proved(c))
    OBVIOUS
  <2>1. \A b : Follows(b) => /\ Decided(Unproved(b)) /\ Decided(NextCandidate(b))
                             /\ cmd.at = "assert" => Decided(Proved(b))
                             /\ \A p \in {"reapverify", "assert"} : Decided([b EXCEPT !.at = p])
    BY ReapLeads
  <2>2. \A p \in {"reapverify", "assert"} : Decided([c EXCEPT !.at = p])
    BY <2>1
  <2>3. Decided([c EXCEPT !.at = "reapverify"]) /\ Decided([c EXCEPT !.at = "assert"])
    BY <2>2
  <2> QED BY <2>1, <2>3
<1>i. cmd.at \in ReapPlaces =>
        /\ Decided(Unproved(Spent(cmd)))
        /\ Decided([Spent(cmd) EXCEPT !.at = "assert"])
        /\ cmd.at = "assert" => Decided(Proved(Spent(cmd)))
  BY <1>a, <1>h
<1>g. \A d : Decided(d) /\ cmd.at # "assert" =>
               ~(d.mode \in CleanupMode /\ d.at \in {"settle", "file", "ok"})
  BY DEF Decided, InCleanup, ReapPlaces
<1>1. CASE Delete
  <2>1. Decided(cmd')
    BY <1>1, <1>f DEF Delete, At
  <2>2. (Foreign \subseteq live)'
    BY <1>1, <1>e DEF Delete, DeleteService, Selection, account
  <2> QED BY <1>1, <1>c, <1>d, <1>g, <2>1, <2>2 DEF Delete, At
<1>2. CASE Verify
  <2>1. Decided(cmd')
    BY <1>2, <1>f DEF Verify, At
  <2> QED BY <1>2, <1>c, <1>d, <1>g, <2>1 DEF Verify, At, Selection, account
<1>3. CASE List
  <2>1. Follows([Spent(cmd) EXCEPT !.cands = Tagged(cmd.active)])
    BY <1>a, SpentLeads, <1>0 DEF Follows, Cmd, Tagged, TypeOK, AccountTypeOK
  <2>2. Decided(cmd')
    BY <1>3, <1>h, <1>i, <2>1 DEF List, At, ReapPlaces
  <2> QED BY <1>3, <1>c, <1>d, <1>g, <2>2 DEF List, At, Selection, account, ListServices
<1>4. CASE ReapDelete
  <2>1. PICK id \in cmd.cands :
          LET c == [Spent(cmd) EXCEPT !.cands = @ \ {id}, !.deleted = @ \cup {id}, !.target = id]
          IN  /\ DeleteService(id) \/ UNCHANGED account
              /\ \/ cmd' = [c EXCEPT !.at = "reapverify"]
                 \/ cmd' = Unproved(c)
                 \/ cmd' = NextCandidate([cmd EXCEPT !.cands = @ \ {id}])
    BY <1>4 DEF ReapDelete
  <2>2. id \in ServiceId /\ id \notin Foreign
    BY <1>0, CmdFields DEF Selection
  <2>3. Follows([Spent(cmd) EXCEPT !.cands = @ \ {id}, !.deleted = @ \cup {id}, !.target = id])
    BY <1>a, <2>2 DEF Follows, Cmd, Id
  <2>4. Follows([cmd EXCEPT !.cands = @ \ {id}])
    BY <1>a, <2>2 DEF Follows, Cmd
  <2>5. Decided(cmd')
    BY <1>4, <2>1, <2>3, <2>4, <1>h DEF ReapDelete, At, ReapPlaces
  <2>6. (Foreign \subseteq live)'
    BY <2>1, <2>2 DEF DeleteService, Selection, account
  <2> QED BY <1>4, <1>c, <1>d, <1>g, <2>5, <2>6 DEF ReapDelete, At
<1>5. CASE ReapVerify
  <2>1. Follows([Spent(cmd) EXCEPT !.target = NoId])
    BY <1>a DEF Follows, Cmd, Id
  <2>2. Decided(cmd')
    BY <1>5, <2>1, <1>h DEF ReapVerify, At, ReapPlaces
  <2> QED BY <1>5, <1>c, <1>d, <1>g, <2>2 DEF ReapVerify, At, Selection, account
<1>6. CASE Relist
  <2>1. Decided(cmd')
    BY <1>6, <1>i DEF Relist, At, ReapPlaces
  <2> QED BY <1>6, <1>c, <1>d, <1>g, <2>1 DEF Relist, At, Selection, account, ListServices
<1>7. CASE AssertAbsent
  <2>1. Decided(cmd') /\ live' = live
    <3>1. Decided(cmd')
      BY <1>7, <1>i DEF AssertAbsent, At, ReapPlaces
    <3> QED BY <1>7, <3>1 DEF AssertAbsent, ListServices, account
  <2>2. ASSUME cmd'.mode \in CleanupMode, cmd'.at \in {"settle", "file", "ok"} PROVE Tagged({}) = {}
    <3>1. cmd.mode \in CleanupMode /\ cmd.level = "command"
      BY <2>1, <2>2 DEF Decided, Control
    <3>2. Unproved(Spent(cmd)).at = "failed"
      BY <1>0, <3>1, SpentLeads DEF Unproved, Cmd
    <3> QED BY <1>7, <2>2, <3>1, <3>2 DEF AssertAbsent
  <2> QED BY <1>c, <1>d, <2>1, <2>2 DEF Selection
<1> QED BY <1>1, <1>2, <1>3, <1>4, <1>5, <1>6, <1>7 DEF ProviderStep

\* The provider's own steps preserve the invariant.
LEMMA ProviderStepInv ==
  ASSUME TypeOK, IInv, ProviderStep, UNCHANGED <<step, cleanups>> PROVE IInv'
<1> DEFINE d == cmd'
<1>1. /\ Decided(d) /\ (Foreign \subseteq live)' /\ exit' = "none"
      /\ cmd.mode \in CleanupMode \cup {"acquire"}
      /\ UNCHANGED <<pending, created, disk, view>>
      /\ d.mode \in CleanupMode /\ d.at \in {"settle", "file", "ok"} => Tagged({}) = {} /\ live' = live
  BY ProviderDecided
<1>2. /\ d.mode = cmd.mode /\ d.mode \in CleanupMode \cup {"acquire"} /\ d.cands \cap Foreign = {}
      /\ d.mode = "acquire" => InAcquire(d)
      /\ d.mode \in CleanupMode => InCleanup(d)
  BY <1>1 DEF Decided
<1>3. "acquire" \notin CleanupMode /\ "idle" \notin CleanupMode /\ "begin" \notin CleanupMode
  BY DEF CleanupMode
<1>4. cmd.at # "idle" /\ step # "acquire"
  BY <1>1, <1>3 DEF IInv, Control, At
<1>5. Ledger'
  BY <1>1 DEF IInv, Ledger, Untouched, disk
<1>6. Control'
  <2>1. CASE d.mode = "acquire"
    <3>1. d.at \notin {"idle", "testing", "mark", "delete"} \cup CleanupPlaces
      BY <1>2, <2>1 DEF InAcquire, Reaping, ReapPlaces, CleanupPlaces
    <3>2. d.at \in ReapPlaces \cup {"closing", "verify"} => d.level # "command"
      BY <1>2, <2>1 DEF InAcquire, Reaping, ReapPlaces
    <3>3. d.at \in {"settled", "unproven"} => d.level \in {"lease", "bundle"}
      BY <1>2, <2>1 DEF InAcquire, Reaping, ReapPlaces
    <3> QED BY <1>1, <1>2, <1>3, <1>4, <2>1, <3>1, <3>2, <3>3 DEF Control, At
  <2>2. CASE d.mode \in CleanupMode
    <3>1. d.at \notin {"idle", "testing", "mark"} \cup AcquirePlaces /\ d.level = "command"
      BY <1>2, <2>2 DEF InCleanup, ReapPlaces, AcquirePlaces, CreatePlaces
    <3> QED BY <1>1, <1>2, <1>3, <1>4, <2>2, <3>1 DEF Control, At, AcquirePlaces
  <2> QED BY <1>2, <2>1, <2>2
<1>7. OneCreate'
  <2>1. d.at \notin CreatePlaces \cup {"creating", "construct"}
    BY <1>2 DEF InAcquire, InCleanup, Reaping, ReapPlaces, CreatePlaces
  <2>2. d.at \in ReapPlaces \cup {"settled", "unproven"} /\ d.level \in {"lease", "bundle"}
          => view'[d.role].state = "deleting"
    <3> SUFFICES ASSUME d.at \in ReapPlaces \cup {"settled", "unproven"}, d.level \in {"lease", "bundle"}
                 PROVE  view'[d.role].state = "deleting"
      OBVIOUS
    <3>1. cmd.at \in ReapPlaces /\ d.level = cmd.level /\ d.role = cmd.role
      BY <1>2, <2>1 DEF InAcquire, InCleanup, Reaping
    <3> QED BY <1>1, <3>1 DEF IInv, OneCreate
  <2> QED BY <1>4, <2>1, <2>2 DEF OneCreate, At, CreatePlaces
<1>8. ProofHolds'
  BY <1>1 DEF ProofHolds, Tagged
<1>9. VerifiedAbsence'
  BY <1>1 DEF VerifiedAbsence
<1>10. Selection'
  BY <1>1, <1>2 DEF Selection
<1> QED BY <1>5, <1>6, <1>7, <1>8, <1>9, <1>10 DEF IInv

----------------------------------------------------------------------------
(* Where a step of "cleanup" or "begin-testing" leads: its own command; a  *)
(* cleanup settles, installs or succeeds only after the namespace proof.   *)
CommandGoes(d) ==
    /\ Same(cmd, d)
    /\ \/ cmd.mode \in CleanupMode /\ d.level = "command"
          /\ \/ d.at \in {"failed", "intent", "probe", "delete", "list", "redelete", "closed",
                          "unverified"}
             \/ cmd.at \in {"settle", "file"} /\ d.at \in {"settle", "ok"}
       \/ cmd.mode = "begin" /\ d.at \in {"testing", "mark", "ok", "failed"}

\* Where a step of any command leads.
LEMMA CommandLeads ==
  ASSUME TypeOK, Control, CommandStep
  PROVE  CommandGoes(cmd') /\ UNCHANGED <<account, view, exit>> /\ exit = "none"
<1> USE DEF At
<1>0. cmd \in Cmd
  BY DEF TypeOK, LeaseTypeOK
<1>a. cmd.at \in CleanupPlaces \cup {"closed", "testing", "mark"}
  BY DEF CommandStep, Intent, Probe, Redelete, Closed, Unverified, Settle, RecordAbsence, Testing,
     MarkTesting, CleanupPlaces
<1>b. UNCHANGED <<account, view, exit>> /\ exit = "none"
  BY <1>a DEF CommandStep, Intent, Probe, Redelete, Closed, Unverified, Settle, RecordAbsence,
     Testing, MarkTesting, CleanupPlaces, Control
<1>c. cmd.at \in CleanupPlaces => cmd.mode \in CleanupMode
  BY DEF Control
<1>d. cmd.mode \in CleanupMode => cmd.level = "command"
  BY DEF Control
<1>e. \A c \in Cmd : c.mode = cmd.mode /\ c.level = cmd.level /\ c.cands = cmd.cands
                     /\ cmd.mode \in CleanupMode
          => /\ \A p \in {"failed", "redelete", "closed", "unverified", "delete"} :
                   CommandGoes([c EXCEPT !.at = p])
             /\ CommandGoes(NextDelete(c))
  <2> SUFFICES ASSUME NEW c \in Cmd, c.mode = cmd.mode, c.level = cmd.level, c.cands = cmd.cands,
                      cmd.mode \in CleanupMode
               PROVE  /\ \A p \in {"failed", "redelete", "closed", "unverified", "delete"} :
                            CommandGoes([c EXCEPT !.at = p])
                      /\ CommandGoes(NextDelete(c))
    OBVIOUS
  <2>1. \A p \in {"failed", "redelete", "closed", "unverified", "delete"} :
          CommandGoes([c EXCEPT !.at = p])
    BY <1>d DEF CommandGoes, Same, Cmd
  <2>2. Forth(c, NextDelete(c))
    BY DeletingLeads DEF NextDelete
  <2>3. CommandGoes(NextDelete(c))
    BY <1>d, <2>2 DEF CommandGoes, Forth, Same
  <2> QED BY <2>1, <2>3
<1>1. CASE Intent
  <2>1. cmd.mode \in CleanupMode /\ cmd.level = "command"
    BY <1>1, <1>c, <1>d DEF Intent, CleanupPlaces
  <2>2. Forth(cmd, Intending(cmd, cmd.todo, view))
    BY <1>0, IntendingLeads
  <2>3. CommandGoes(Intending(cmd, cmd.todo, view))
    BY <2>1, <2>2 DEF CommandGoes, Forth
  <2> QED BY <1>0, <1>1, <1>b, <1>e, <2>1, <2>3 DEF Intent, AppendRecord, To
<1>2. CASE Probe
  <2>1. cmd.mode \in CleanupMode
    BY <1>2, <1>c DEF Probe, CleanupPlaces
  <2>2. /\ Spent(cmd) \in Cmd /\ Spent(cmd).mode = cmd.mode /\ Spent(cmd).level = cmd.level
        /\ Spent(cmd).cands = cmd.cands
    BY <1>0, SpentLeads
  <2> QED BY <1>2, <1>b, <1>e, <2>1, <2>2 DEF Probe
<1>3. CASE Redelete
  <2>1. cmd.mode \in CleanupMode
    BY <1>3, <1>c DEF Redelete, CleanupPlaces
  <2> QED BY <1>0, <1>3, <1>b, <1>e, <2>1 DEF Redelete, AppendRecord, To
<1>4. CASE Closed
  BY <1>0, <1>4, <1>b, <1>e DEF Closed, AppendRecord, To
<1>5. CASE Unverified
  <2>1. cmd.mode \in CleanupMode
    BY <1>5, <1>c DEF Unverified, CleanupPlaces
  <2>2. /\ [cmd EXCEPT !.failed = TRUE] \in Cmd /\ [cmd EXCEPT !.failed = TRUE].mode = cmd.mode
        /\ [cmd EXCEPT !.failed = TRUE].level = cmd.level
        /\ [cmd EXCEPT !.failed = TRUE].cands = cmd.cands
    BY <1>0 DEF Cmd
  <2> QED BY <1>0, <1>5, <1>b, <1>e, <2>1, <2>2 DEF Unverified, AppendRecord, To
<1>6. CASE Settle
  <2>1. cmd.mode \in CleanupMode /\ cmd.level = "command" /\ cmd.at = "settle"
    BY <1>6, <1>c, <1>d DEF Settle, CleanupPlaces
  <2>2. CommandGoes(Settling(cmd, cmd.todo))
    BY <1>0, <2>1, SettlingLeads DEF CommandGoes
  <2> QED BY <1>0, <1>6, <1>b, <1>e, <2>1, <2>2 DEF Settle, AppendRecord, To
<1>7. CASE RecordAbsence
  <2>1. cmd.mode \in CleanupMode /\ cmd.level = "command" /\ cmd.at = "file"
    BY <1>7, <1>c, <1>d DEF RecordAbsence, CleanupPlaces
  <2>2. CommandGoes(To("ok")) /\ CommandGoes(To("failed"))
    BY <1>0, <2>1 DEF CommandGoes, Same, To, Cmd
  <2> QED BY <1>7, <1>b, <2>2 DEF RecordAbsence, WriteLease
<1>8. CASE Testing \/ MarkTesting
  <2>1. cmd.mode = "begin"
    BY <1>8 DEF Testing, MarkTesting, Control
  <2>2. \A p \in {"testing", "mark", "ok", "failed"} : CommandGoes(To(p))
    BY <1>0, <2>1 DEF CommandGoes, Same, To, Cmd
  <2>3. CommandGoes(Loop(cmd, "testing", cmd.todo, To("mark")))
    <3>1. CommandGoes([cmd EXCEPT !.at = "testing", !.role = First(cmd.todo),
                                  !.todo = cmd.todo \ {First(cmd.todo)}])
      BY <1>0, <2>1 DEF CommandGoes, Same, Cmd
    <3> QED BY <2>2, <3>1 DEF Loop
  <2> QED BY <1>8, <1>b, <2>2, <2>3 DEF Testing, MarkTesting, AppendRecord, WriteLease
<1> QED BY <1>1, <1>2, <1>3, <1>4, <1>5, <1>6, <1>7, <1>8 DEF CommandStep

\* A step of a command preserves the invariant.
LEMMA CommandStepInv ==
  ASSUME TypeOK, IInv, CommandStep, UNCHANGED <<step, cleanups>> PROVE IInv'
<1> DEFINE d == cmd'
           r == cmd.role
<1>1. CommandGoes(d) /\ UNCHANGED <<account, view, exit>> /\ exit = "none"
  BY CommandLeads DEF IInv
<1>2. d.mode = cmd.mode /\ d.cands \subseteq cmd.cands /\ cmd.mode \in CleanupMode \cup {"begin"}
  BY <1>1 DEF CommandGoes, Same
<1>3. {"acquire", "idle", "begin"} \cap CleanupMode = {}
  BY DEF CleanupMode
<1>4. step # "acquire"
  BY <1>2, <1>3 DEF IInv, Control, At
<1>5. Control'
  <2>1. CASE cmd.mode \in CleanupMode
    <3>1. /\ d.level = "command"
          /\ d.at \notin {"idle", "testing", "mark", "settled", "unproven"} \cup AcquirePlaces
      BY <1>1, <1>3, <2>1 DEF CommandGoes, AcquirePlaces, CreatePlaces
    <3> QED BY <1>1, <1>2, <1>3, <1>4, <2>1, <3>1 DEF Control, At
  <2>2. CASE cmd.mode = "begin"
    <3>1. d.at \in {"testing", "mark", "ok", "failed"}
      BY <1>1, <1>3, <2>2 DEF CommandGoes
    <3>2. d.at \notin {"idle", "settled", "unproven"} \cup AcquirePlaces \cup CleanupPlaces
                       \cup ReapPlaces \cup {"delete", "verify", "closed"}
      BY <3>1 DEF AcquirePlaces, CreatePlaces, CleanupPlaces, ReapPlaces
    <3> QED BY <1>1, <1>2, <1>3, <1>4, <2>2, <3>2 DEF Control, At
  <2> QED BY <1>2, <2>1, <2>2
<1>6. OneCreate'
  <2>1. Quiet(d)
    BY <1>1, <1>3 DEF CommandGoes, Quiet, CreatePlaces, ReapPlaces
  <2> QED BY <1>4, <2>1, QuietOneCreate
<1>7. ProofHolds'
  <2>1. live' = live /\ unseen' = unseen
    BY <1>1 DEF account
  <2>2. d.mode \in CleanupMode /\ d.at \in {"settle", "file", "ok"} =>
          cmd.mode \in CleanupMode /\ cmd.at \in {"settle", "file"}
    BY <1>1, <1>2, <1>3 DEF CommandGoes
  <2> QED BY <2>1, <2>2 DEF IInv, ProofHolds, Tagged
<1>8. VerifiedAbsence'
  BY <1>1 DEF VerifiedAbsence
<1>9. Selection'
  BY <1>1, <1>2 DEF IInv, Selection, account
<1>10. Ledger'
  <2>0. r \in Role /\ Ledger
    BY CmdFields DEF IInv, TypeOK, LeaseTypeOK
  <2>1. \A q \in Role : view'[q].id \in {NoId, created[q]}
    BY <1>1 DEF IInv, Ledger
  <2>2. \A q \in Role : lease.ids[q] \in {NoId, created[q]}
    BY DEF IInv, Ledger
  <2>3. CASE \E s \in LeaseStates, id \in {NoId, created[r]} : \E res, ok, ko :
               AppendRecord(r, Rec(s, id, res), ok, ko) /\ lease' = lease
    <3>1. PICK s \in LeaseStates, id \in {NoId, created[r]} : \E res, ok, ko :
            AppendRecord(r, Rec(s, id, res), ok, ko) /\ lease' = lease
      BY <2>3
    <3>2. PICK rec, ok, ko :
            rec.state = s /\ rec.id = id /\ AppendRecord(r, rec, ok, ko) /\ lease' = lease
      BY <3>1 DEF Rec
    <3>3. rec.state # "none"
      BY <3>2 DEF LeaseStates
    <3> QED BY <1>1, <2>0, <2>1, <3>2, <3>3, AppendLedger
  <2>4. CASE journal' = journal /\ lease'.ids = lease.ids
    BY <1>1, <2>4 DEF IInv, Ledger, Untouched, account
  <2>5. view[r].id \in {NoId, created[r]}
    BY <1>1, <2>0, <2>1
  <2>6. {"deleting", "absent", "testing"} \subseteq LeaseStates
    BY DEF LeaseStates
  <2>7. CASE Intent \/ Redelete \/ Closed \/ Unverified
    BY <2>7, <2>3, <2>5, <2>6 DEF Intent, Redelete, Closed, Unverified
  <2>8. CASE Settle
    BY <2>8, <2>3, <2>6 DEF Settle
  <2>9. CASE Testing
    BY <2>9, <2>0, <2>2, <2>3, <2>6 DEF Testing
  <2>10. CASE Probe
    BY <2>10, <2>4 DEF Probe, disk
  <2>11. CASE RecordAbsence \/ MarkTesting
    BY <2>11, <2>4 DEF RecordAbsence, MarkTesting, WriteLease, TypeOK, LeaseTypeOK, LeaseFile
  <2> QED BY <2>7, <2>8, <2>9, <2>10, <2>11 DEF CommandStep
<1> QED BY <1>5, <1>6, <1>7, <1>8, <1>9, <1>10 DEF IInv

----------------------------------------------------------------------------
LEMMA InitInv == Init => IInv
<1> SUFFICES ASSUME Init PROVE IInv
  OBVIOUS
<1>1. /\ cmd.mode = "idle" /\ cmd.at = "idle" /\ cmd.role = "outline" /\ cmd.level = "command"
      /\ cmd.cands = {}
  BY DEF Init, Idle
<1>2. \A r \in Role : /\ created[r] = NoId /\ r \notin pending
                      /\ journal[r].id = NoId /\ view[r].id = NoId /\ lease.ids[r] = NoId
  BY DEF Init, AccountInit, NoRecord, NoView, NoLease
<1>3. Ledger
  BY <1>2, AccountAssumption DEF Ledger, Untouched
<1>4. Control
  BY <1>1 DEF Control, At, AcquirePlaces, CreatePlaces, CleanupPlaces, ReapPlaces, CleanupMode, Init
<1>5. OneCreate
  BY <1>1, <1>2 DEF OneCreate, At, CreatePlaces, ReapPlaces, Untouched
<1>6. ProofHolds /\ VerifiedAbsence
  BY <1>1 DEF ProofHolds, VerifiedAbsence, Init
<1>7. Selection
  BY <1>1 DEF Selection, Init, AccountInit
<1> QED BY <1>3, <1>4, <1>5, <1>6, <1>7 DEF IInv

(* Every step that starts, ends or kills a command leaves it either idle   *)
(* or at the first place of the command.                                   *)
LEMMA IdleInv ==
  ASSUME IInv, cmd' = Idle, UNCHANGED <<account, disk>>, view' = NoView, step' # "acquire",
         exit' = "absent" => cmd.mode \in CleanupMode /\ cmd.at = "ok"
  PROVE  IInv'
<1>1. /\ cmd'.mode = "idle" /\ cmd'.at = "idle" /\ cmd'.role = "outline" /\ cmd'.level = "command"
      /\ cmd'.cands = {}
  BY DEF Idle
<1>2. Ledger'
  BY DEF IInv, Ledger, Untouched, NoView, NoRecord, account, disk
<1>3. Control'
  BY <1>1 DEF Control, At, AcquirePlaces, CreatePlaces, CleanupPlaces, ReapPlaces, CleanupMode
<1>4. OneCreate'
  BY <1>1 DEF OneCreate, At, CreatePlaces, ReapPlaces
<1>5. ProofHolds'
  BY <1>1 DEF ProofHolds
<1>6. VerifiedAbsence'
  BY DEF IInv, ProofHolds, VerifiedAbsence, Tagged, account
<1>7. Selection'
  BY <1>1 DEF IInv, Selection, account
<1> QED BY <1>2, <1>3, <1>4, <1>5, <1>6, <1>7 DEF IInv

\* Starting a command preserves the invariant.
LEMMA StartInv ==
  ASSUME TypeOK, IInv, StartAcquire \/ StartBegin \/ StartCleanup PROVE IInv'
<1>1. CASE StartAcquire
  <2>1. /\ cmd'.mode = "acquire" /\ cmd'.at = "construct" /\ cmd'.cands = {}
        /\ UNCHANGED <<account, disk, view>> /\ step' = "begin" /\ exit' = "none"
    BY <1>1 DEF StartAcquire, Idle
  <2>2. \A r \in Role : Untouched(r)
    BY <1>1 DEF IInv, OneCreate, StartAcquire
  <2>3. Ledger'
    BY <2>1 DEF IInv, Ledger, Untouched, account, disk
  <2>4. Control'
    BY <2>1 DEF Control, At, AcquirePlaces, CreatePlaces, CleanupPlaces, ReapPlaces, CleanupMode
  <2>5. OneCreate'
    BY <2>1, <2>2 DEF OneCreate, At, CreatePlaces, ReapPlaces, Untouched, account
  <2>6. ProofHolds' /\ VerifiedAbsence' /\ Selection'
    BY <2>1 DEF ProofHolds, VerifiedAbsence, CleanupMode, IInv, Selection, account
  <2> QED BY <2>3, <2>4, <2>5, <2>6 DEF IInv
<1>2. CASE StartBegin
  <2>1. cmd' = [[Idle EXCEPT !.mode = "begin"] EXCEPT !.at = "testing", !.role = First(Role),
                                                      !.todo = Role \ {First(Role)}]
    BY <1>2 DEF StartBegin, Loop, Role
  <2>2. /\ cmd'.mode = "begin" /\ cmd'.at = "testing" /\ cmd'.cands = {}
        /\ UNCHANGED <<account, disk, view>> /\ step' = "cleanup" /\ exit' = "none"
    BY <1>2, <2>1 DEF StartBegin, Idle
  <2>3. Ledger'
    BY <2>2 DEF IInv, Ledger, Untouched, account, disk
  <2>4. Control'
    BY <2>2 DEF Control, At, AcquirePlaces, CreatePlaces, CleanupPlaces, ReapPlaces, CleanupMode
  <2>5. OneCreate'
    BY <2>2 DEF OneCreate, At, CreatePlaces, ReapPlaces
  <2>6. ProofHolds' /\ VerifiedAbsence' /\ Selection'
    BY <2>2 DEF ProofHolds, VerifiedAbsence, CleanupMode, IInv, Selection, account
  <2> QED BY <2>3, <2>4, <2>5, <2>6 DEF IInv
<1>3. CASE StartCleanup
  <2>1. UNCHANGED <<account, disk, faults>> /\ step' = "cleanup"
        /\ exit' \in {"no-journal", "refused", "none"} /\ cmd.at = "idle" /\ cmd.mode = "idle"
    BY <1>3 DEF StartCleanup, At, IInv, Control
  <2>2. Selection /\ Ledger
    BY DEF IInv
  <2>3. CASE UNCHANGED <<cmd, view>>
    <3>1. Ledger'
      BY <2>1, <2>3 DEF IInv, Ledger, Untouched, account, disk
    <3>2. Control'
      BY <2>1, <2>3 DEF IInv, Control, At
    <3>3. OneCreate'
      BY <2>1, <2>3 DEF IInv, OneCreate, At, CreatePlaces, ReapPlaces
    <3>4. ProofHolds' /\ VerifiedAbsence' /\ Selection'
      BY <2>1, <2>2, <2>3 DEF ProofHolds, VerifiedAbsence, CleanupMode, Selection, account
    <3> QED BY <3>1, <3>2, <3>3, <3>4 DEF IInv
  <2>4. CASE /\ Branch # "refused" /\ exit' = "none" /\ view' = Snapshot
             /\ cmd' = Intending([Idle EXCEPT !.mode = Branch], NeedsIntent(Branch, Snapshot), Snapshot)
    <3>1. Branch \in CleanupMode
      BY <2>4 DEF Branch, CleanupMode
    <3>2. [Idle EXCEPT !.mode = Branch] \in Cmd
      BY <3>1, IdleType DEF Cmd, Mode
    <3>3. Forth([Idle EXCEPT !.mode = Branch], cmd')
      BY <2>4, <3>2, IntendingLeads
    <3>4. /\ [Idle EXCEPT !.mode = Branch].mode = Branch
          /\ [Idle EXCEPT !.mode = Branch].level = "command"
          /\ [Idle EXCEPT !.mode = Branch].cands = {}
      BY DEF Idle
    <3>5. /\ cmd'.mode \in CleanupMode /\ cmd'.level = "command" /\ cmd'.cands = {}
          /\ cmd'.at \in {"failed", "intent", "probe", "delete", "list"}
      BY <3>1, <3>3, <3>4 DEF Forth, Same
    <3>6. \A r \in Role : view'[r].id \in {NoId, created[r]}
      BY <2>2, <2>4 DEF Snapshot, Ledger, TypeOK, LeaseTypeOK, Record
    <3>7. Ledger'
      BY <2>1, <2>2, <3>6 DEF Ledger, Untouched, account, disk
    <3>8. Control'
      BY <2>1, <2>4, <3>5
      DEF Control, At, AcquirePlaces, CreatePlaces, CleanupPlaces, ReapPlaces, CleanupMode
    <3>9. OneCreate'
      BY <2>1, <3>5 DEF OneCreate, At, CreatePlaces, ReapPlaces
    <3>10. ProofHolds' /\ VerifiedAbsence' /\ Selection'
      BY <2>1, <2>2, <2>4, <3>5 DEF ProofHolds, VerifiedAbsence, Selection, account
    <3> QED BY <3>7, <3>8, <3>9, <3>10 DEF IInv
  <2> QED BY <1>3, <2>3, <2>4 DEF StartCleanup
<1> QED BY <1>1, <1>2, <1>3

(* The provider moves on its own: nothing becomes foreign, and whatever    *)
(* appears is unseen.                                                      *)
LEMMA ProviderInv == ASSUME TypeOK, IInv, Provider PROVE IInv'
<1> USE DEF IInv
<1>1. UNCHANGED <<disk, view, cmd, exit, step>>
  BY DEF Provider
<1>2. /\ live \subseteq live' /\ unseen \subseteq unseen' /\ live' \ live \subseteq unseen'
      /\ pending' \subseteq pending
  BY DEF Provider, ProviderNext, AcceptCreate, RejectCreate, Resurface
<1>3. \A r \in Role : created'[r] = created[r] \/
        (r \in pending /\ created[r] = NoId /\ created'[r] \notin Foreign /\ r \notin pending')
  BY DEF Provider, ProviderNext, AcceptCreate, RejectCreate, Resurface, Fresh, Ledger, TypeOK,
     AccountTypeOK
<1>4. \A r \in Role : Untouched(r) => Untouched(r)'
  BY <1>2, <1>3 DEF Untouched
<1>5. Ledger'
  BY <1>1, <1>2, <1>3 DEF Ledger, Untouched, disk
<1>6. Control'
  BY <1>1 DEF Control, At
<1>7. OneCreate'
  <2>1. (step = "acquire" \/ At("construct") => \A r \in Role : Untouched(r))'
    BY <1>1, <1>4 DEF OneCreate, At
  <2>2. cmd.role \in Role /\ "sink" \in Role
    BY CmdFields DEF TypeOK, LeaseTypeOK, Role
  <2>3. (cmd.at \in {"creating", "post"} => Untouched(cmd.role))'
    BY <1>1, <1>2, <1>3, <2>2 DEF OneCreate, Untouched
  <2>4. (cmd.at \in CreatePlaces \cup {"creating"} /\ cmd.role = "outline" => Untouched("sink"))'
    BY <1>1, <1>4, <2>2 DEF OneCreate
  <2> QED BY <1>1, <2>1, <2>3, <2>4 DEF OneCreate, disk
<1>8. Tagged({}) \subseteq unseen => (Tagged({}) \subseteq unseen)'
  BY <1>2 DEF Tagged
<1>9. ProofHolds' /\ VerifiedAbsence' /\ Selection'
  BY <1>1, <1>2, <1>8 DEF ProofHolds, VerifiedAbsence, Selection
<1> QED BY <1>5, <1>6, <1>7, <1>9

\* Every step preserves the invariant.
LEMMA NextInv == TypeOK /\ IInv /\ [Next]_allVars => IInv'
<1> SUFFICES ASSUME TypeOK, IInv, [Next]_allVars PROVE IInv'
  OBVIOUS
<1>1. CASE StartAcquire \/ StartBegin \/ StartCleanup
  BY <1>1, StartInv
<1>2. CASE CommandNext
  <2>1. CASE AcquireStep
    BY <1>2, <2>1, AcquireControl, AcquireLedger, AcquireOneCreate DEF CommandNext, IInv
  <2> QED BY <1>2, <2>1, ProviderStepInv, CommandStepInv DEF CommandNext
<1>3. CASE Return
  <2>1. cmd.at # "idle"
    BY <1>3 DEF Return
  <2>2. step # "acquire"
    BY <2>1 DEF IInv, Control, At
  <2> QED BY <1>3, <2>2, IdleInv DEF Return
<1>4. CASE Kill
  <2>1. step # "acquire"
    BY <1>4 DEF Kill, IInv, Control
  <2> QED BY <1>4, <2>1, IdleInv DEF Kill
<1>5. CASE Provider
  BY <1>5, ProviderInv
<1>6. CASE UNCHANGED allVars
  BY <1>6 DEF allVars, vars, account, disk, local, IInv, Ledger, Control, OneCreate, ProofHolds,
     VerifiedAbsence, Selection, Untouched, At, Tagged
<1> QED BY <1>1, <1>2, <1>3, <1>4, <1>5, <1>6 DEF Next, Finished

----------------------------------------------------------------------------
(* The ledgers of the provider, of the disk and of the running command     *)
(* never contradict each other, at whatever place a command is killed.     *)
THEOREM Invariance == Spec => []IInv
<1>1. TypeOK /\ IInv /\ [Next]_allVars => IInv'
  BY NextInv
<1> QED BY InitInv, <1>1, TypeCorrect, PTL DEF Spec

(* Write-ahead journalling (RenderLease.acquire, lease.py): every service  *)
(* of the run, and every create that may still produce one, is on record.  *)
THEOREM EverythingRecoverable == Spec => []Recoverable
<1>1. IInv => Recoverable
  BY AccountAssumption DEF IInv, Ledger, Recoverable, Untouched
<1> QED BY Invariance, <1>1, PTL

(* A cleanup that reports "absent" (lease_cli.cleanup) left nothing in the *)
(* namespace that it could have seen.                                      *)
THEOREM AbsenceIsVerified == Spec => []VerifiedAbsence
<1>1. IInv => VerifiedAbsence
  BY DEF IInv
<1> QED BY Invariance, <1>1, PTL

(* No DELETE that lease.py, lease_cli.py or render.py sends ever names a   *)
(* service of another run.                                                 *)
THEOREM ForeignServicesUntouched == Spec => []ForeignUntouched
<1>1. IInv => ForeignUntouched
  BY DEF IInv, Selection, ForeignUntouched
<1> QED BY Invariance, <1>1, PTL
=============================================================================

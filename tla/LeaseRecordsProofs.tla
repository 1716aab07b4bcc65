------------------------- MODULE LeaseRecordsProofs -------------------------
(***************************************************************************)
(* What a lease cleanup may rely on, for every account and every bound:    *)
(* a refusal is harmless because nothing was created, the reap deletes no  *)
(* more services than the journal has roles without an id, the run's own   *)
(* services always fit that number, and nine API operations are enough.    *)
(* All of it rests on what journal.json, lease.json and the command's view *)
(* say of each other at every place a command can be stopped.  The second  *)
(* half proves that the lease implements LeasePromise.                     *)
(***************************************************************************)
EXTENDS ServerLeaseProofs

-----------------------------------------------------------------------------
\* Nothing has been selected yet where a command only writes or creates.
Plain == CreatePlaces \cup {"idle", "construct", "creating", "handoff", "issue", "install",
                            "testing", "mark"}

\* Both leases declare themselves before the first create is sent.
Declared ==
    /\ (\E r \in Role : journal[r].state = "none") => \A r \in Role : Untouched(r)
    /\ cmd.at \in CreatePlaces \cup {"creating"} => JournalUsable
    /\ At("construct") /\ cmd.role = "sink" => journal["outline"].state # "none"

\* Whose id the running command knows.
Named ==
    /\ cmd.at \in {"record", "ready", "healthy"} => view[cmd.role].id # NoId
    /\ cmd.at \in CreatePlaces \cup {"creating"} /\ cmd.role = "sink" => view["outline"].id # NoId
    /\ cmd.at \in {"handoff", "issue", "install"} => \A r \in Role : view[r].id # NoId
    /\ cmd.at \in ReapPlaces \cup {"settled", "unproven"} /\ cmd.level \in {"lease", "bundle"}
            => view[cmd.role].id = NoId
    /\ At("settle") => \A r \in cmd.todo \cup {cmd.role} : view[r].id = NoId
    /\ cmd.mode \notin {"idle", "begin"} =>
            \A r \in Role : view[r].id = NoId => journal[r].id = NoId

\* What a reap has selected, and what it is entitled to.
Selecting ==
    /\ IsFiniteSet(cmd.cands \cup cmd.deleted)
    /\ Cardinality(cmd.cands \cup cmd.deleted) <= Cardinality(UnknownRoles)
    /\ cmd.at \in Plain \cup {"list"} \/ cmd.mode = "begin" => cmd.cands = {} /\ cmd.deleted = {}
    /\ At("list") => cmd.bound <= Cardinality(UnknownRoles)
    /\ cmd.at \in ReapPlaces /\ cmd.mode \in CleanupMode =>
            cmd.active = Known(view) /\ cmd.bound = Cardinality(UnknownRoles)

\* Nothing in the namespace comes from anywhere else.
Accounted == live \subseteq Foreign \cup Stale \cup Owned

\* lease.json names both services, and the journal is never behind it.
Issued ==
    /\ (At("issue") /\ cmd.role = "sink") \/ At("install")
            => journal["outline"].state = "issued" /\ journal["outline"].id # NoId
    /\ At("install") => journal["sink"].state = "issued" /\ journal["sink"].id # NoId
    /\ lease.state # "none" => \A r \in Role :
            /\ lease.ids[r] # NoId /\ journal[r].id # NoId
            /\ journal[r].state \in {"issued", "testing", "deleting", "absent"}
            /\ journal[r].state = "absent" => journal[r].result = "verified"
            /\ cmd.mode \notin {"idle", "begin"} => view[r].id # NoId
    /\ lease.state = "absent" => \A r \in Role : journal[r].state \in {"deleting", "absent"}

\* Which lease.json a command can find.
Found ==
    /\ step = "acquire" => lease.state = "none"
    /\ cmd.at \in AcquirePlaces \ {"closing", "settled", "unproven"} => lease.state = "none"
    /\ cmd.mode = "recover" => lease.state = "none"
    /\ cmd.mode = "begin" => lease.state \in {"issued", "testing"}
    /\ cmd.mode = "acquire" => lease.state \in {"none", "issued"}
    /\ cmd.mode = "active" => lease.state # "none"
    /\ At("file") => cmd.mode = "active"
    /\ cmd.mode = "active" /\ ~At("failed") =>
            \A r \in Role : \/ journal[r].state \in {"deleting", "absent"}
                            \/ At("intent") /\ r \in cmd.todo \cup {cmd.role}

\* Operations that a final proof can still take, and those of the exact ids.
Rest == 3 + 2 * Cardinality(UnknownRoles)
Ahead(n) == cmd.calls + 3 * Cardinality(cmd.todo) + n + Rest <= 9

Counted ==
    /\ cmd.mode \notin CleanupMode \/ At("intent") => cmd.calls = 0
    /\ cmd.mode \in CleanupMode =>
        /\ cmd.calls <= 9
        /\ At("probe") => Ahead(3)
        /\ At("redelete") => Ahead(2)
        /\ At("delete") => Ahead(2)
        /\ At("verify") => Ahead(1)
        /\ cmd.at \in {"closed", "unverified"} => Ahead(0)
        /\ At("list") => cmd.calls + Rest <= 9
        /\ At("reap") => cmd.calls + 2 * Cardinality(cmd.cands) + 2 <= 9
        /\ At("reapverify") => cmd.calls + 2 * Cardinality(cmd.cands) + 3 <= 9
        /\ At("relist") => cmd.calls + 2 <= 9
        /\ At("assert") => cmd.calls + 1 <= 9

RInv == Declared /\ Named /\ Selecting /\ Accounted /\ Issued /\ Found /\ Counted

-----------------------------------------------------------------------------
(***************************************************************************)
(* What a step may do to the account, to the records and to the view.      *)
(***************************************************************************)

\* No command creates but by its POST, and none brings a service back.
LEMMA AccountMoves ==
  ASSUME AcquireStep \/ ProviderStep \/ CommandStep
  PROVE  /\ created' = created /\ live' \subseteq live
         /\ pending' = pending \/ (At("post") /\ pending' = pending \cup {cmd.role})
<1>1. CASE AcquireStep
  BY <1>1 DEF AcquireStep, Construct, Creating, BundleDeadline, Post, CreateAnswered, CreateRefused,
         CreateAnswerLost, RecordHandle, WaitUntilReady, Healthy, HandOff, MarkIssued,
         InstallLease, AlreadyAbsent, Closing, LeaseClosed, LeaseSettled, LeaseUnproven,
         account, PostService
<1>2. CASE ProviderStep
  BY <1>2 DEF ProviderStep, Delete, Verify, List, ReapDelete, ReapVerify, Relist, AssertAbsent,
         account, DeleteService, ListServices
<1>3. CASE CommandStep
  BY <1>3 DEF CommandStep, Intent, Probe, Redelete, Closed, Unverified, Settle, RecordAbsence,
         Testing, MarkTesting, account
<1> QED BY <1>1, <1>2, <1>3

\* A view learns an id from the answer to a create, and forgets none.
LEMMA ViewMoves ==
  ASSUME TypeOK, IInv, AcquireStep \/ ProviderStep \/ CommandStep
  PROVE  /\ ~AcquireStep => view' = view
         /\ \A r \in Role : \/ view'[r].id = view[r].id
                            \/ CreateAnswered /\ r = cmd.role
         /\ CreateAnswered => view'[cmd.role].id # NoId
<1>0. cmd \in Cmd /\ cmd.role \in Role /\ view \in [Role -> Record]
  BY CmdFields DEF TypeOK, LeaseTypeOK
<1>1. ASSUME ~AcquireStep PROVE view' = view
  BY <1>1 DEF CommandStep, Intent, Probe, Redelete, Closed, Unverified, Settle, RecordAbsence,
         Testing, MarkTesting, ProviderStep, Delete, Verify, List, ReapDelete, ReapVerify, Relist,
         AssertAbsent
<1>2. CASE Construct
  <2>1. \A r \in Role : view[r].id = NoId
    BY <1>2 DEF Construct, IInv, OneCreate, Ledger, Untouched
  <2>2. view' = [view EXCEPT ![cmd.role] = Rec("absent", NoId, "none")]
    BY <1>2 DEF Construct
  <2>3. ~CreateAnswered
    BY <1>2 DEF Construct, CreateAnswered, At
  <2> QED BY <1>0, <1>2, <2>1, <2>2, <2>3 DEF Rec, AcquireStep
<1>3. CASE CreateAnswered
  <2>1. view' = [view EXCEPT ![cmd.role].id = created[cmd.role]] /\ created[cmd.role] # NoId
    BY <1>3 DEF CreateAnswered
  <2> QED BY <1>0, <1>3, <2>1 DEF AcquireStep, Record
<1>4. ASSUME NEW s, view' = [view EXCEPT ![cmd.role] = Rec(s, view[cmd.role].id, "none")]
      PROVE  \A r \in Role : view'[r].id = view[r].id
  BY <1>0, <1>4 DEF Rec
<1>5. CASE Creating \/ Healthy \/ LeaseClosed \/ LeaseSettled
  <2>1. \A r \in Role : view'[r].id = view[r].id
    BY <1>4, <1>5 DEF Creating, Healthy, LeaseClosed, LeaseSettled, Transition
  <2>2. ~CreateAnswered
    BY <1>5 DEF Creating, Healthy, LeaseClosed, LeaseSettled, CreateAnswered, At
  <2> QED BY <1>5, <2>1, <2>2 DEF AcquireStep
<1>6. CASE MarkIssued
  <2>1. \E q \in Role : view' = [view EXCEPT ![q] = Rec("issued", view[q].id, "none")]
    BY <1>6, <1>0 DEF MarkIssued, Transition, Role
  <2>2. \A r \in Role : view'[r].id = view[r].id
    BY <1>0, <2>1 DEF Rec
  <2>3. ~CreateAnswered
    BY <1>6 DEF MarkIssued, CreateAnswered, At
  <2> QED BY <1>6, <2>2, <2>3 DEF AcquireStep
<1>7. CASE Closing
  <2>1. \A r \in Role : view'[r].id = view[r].id
    BY <1>4, <1>7 DEF Closing, Transition
  <2>2. ~CreateAnswered
    BY <1>7 DEF Closing, CreateAnswered, At
  <2> QED BY <1>7, <2>1, <2>2 DEF AcquireStep
<1>8. CASE AcquireStep /\ ~(Construct \/ CreateAnswered \/ Creating \/ Healthy \/ LeaseClosed
                            \/ LeaseSettled \/ MarkIssued \/ Closing)
  BY <1>8 DEF AcquireStep, BundleDeadline, Post, CreateRefused, CreateAnswerLost, RecordHandle,
         WaitUntilReady, HandOff, InstallLease, AlreadyAbsent, LeaseUnproven
<1>9. CASE ~AcquireStep
  <2>1. ~CreateAnswered
    BY <1>9 DEF AcquireStep
  <2> QED BY <1>1, <1>9, <2>1
<1> QED BY <1>2, <1>3, <1>5, <1>6, <1>7, <1>8, <1>9

\* The record a step appends is the command's own account of the role.
Writes(rec) ==
    /\ rec.state # "none"
    /\ rec.id = IF At("testing") THEN lease.ids[cmd.role] ELSE view[cmd.role].id
    /\ \/ cmd.at \in AcquirePlaces \ {"closing", "settled", "unproven"}
       \/ At("testing") /\ rec.state = "testing"
       \/ rec.state = "deleting"
       \/ rec.state = "absent" /\ (rec.result = "verified" \/ rec.id = NoId)
    /\ cmd.mode \in CleanupMode => rec.state \in {"deleting", "absent"}

\* An append writes its record or nothing.
LEMMA AppendWrites ==
  ASSUME NEW r \in Role, NEW rec, NEW ok, NEW ko, AppendRecord(r, rec, ok, ko),
         journal \in [Role -> Record]
  PROVE  /\ \A q \in Role : journal'[q] = journal[q] \/ (q = r /\ journal'[q] = rec)
         /\ cmd' = ok => journal'[r] = rec \/ cmd' = ko
         /\ cmd' = ok \/ cmd' = ko
BY DEF AppendRecord, Journal

\* A transition of the command's role writes that role's record.
LEMMA TransitionWrites ==
  ASSUME TypeOK, NEW s, NEW res, NEW ok, NEW ko, Transition(cmd.role, s, res, ok, ko)
  PROVE  \A q \in Role : \/ journal'[q] = journal[q]
                         \/ q = cmd.role /\ journal'[q] = Rec(s, view[cmd.role].id, res)
<1>1. cmd.role \in Role /\ journal \in [Role -> Record]
  BY CmdFields DEF TypeOK, LeaseTypeOK
<1>2. AppendRecord(cmd.role, Rec(s, view[cmd.role].id, res), ok, ko)
  BY DEF Transition
<1> QED BY <1>1, <1>2, AppendWrites

\* What the steps of the acquisition and of the other commands write.
LEMMA JournalMoves ==
  ASSUME TypeOK, IInv, Named, AcquireStep \/ ProviderStep \/ CommandStep
  PROVE  \A q \in Role : journal'[q] = journal[q] \/ (q = cmd.role /\ Writes(journal'[q]))
<1> DEFINE r == cmd.role
<1>0. cmd \in Cmd /\ r \in Role /\ view \in [Role -> Record] /\ journal \in [Role -> Record]
  BY CmdFields DEF TypeOK, LeaseTypeOK
<1>a. Control
  BY DEF IInv
<1>b. "acquire" \notin CleanupMode /\ "begin" \notin CleanupMode
  BY DEF CleanupMode
<1>c. CreatePlaces \cup {"construct", "creating", "issue"}
        \subseteq AcquirePlaces \ {"closing", "settled", "unproven"}
  BY DEF AcquirePlaces, CreatePlaces
<1>d. ASSUME cmd.at \in AcquirePlaces PROVE cmd.mode \notin CleanupMode /\ ~At("testing")
  BY <1>a, <1>b, <1>d DEF Control, At, AcquirePlaces, CreatePlaces
<1>1. CASE Construct
  <2>1. cmd.at = "construct" /\ view[r].id = NoId
    BY <1>0, <1>1 DEF Construct, At, IInv, OneCreate, Ledger, Untouched
  <2>2. Writes(Rec("absent", NoId, "none"))
    BY <1>c, <1>d, <2>1 DEF Writes, Rec
  <2>3. \A q \in Role : journal'[q] = journal[q] \/ (q = r /\ journal'[q] = Rec("absent", NoId, "none"))
    BY <1>0, <1>1, AppendWrites DEF Construct
  <2> QED BY <2>2, <2>3
<1>2. CASE Creating \/ Healthy
  <2>1. cmd.at \in {"creating", "healthy"}
    BY <1>2 DEF Creating, Healthy, At
  <2>2. \A s \in {"creating", "healthy"} : Writes(Rec(s, view[r].id, "none"))
    BY <1>c, <1>d, <2>1 DEF Writes, Rec, CreatePlaces
  <2>3. \A q \in Role : \/ journal'[q] = journal[q]
                        \/ q = r /\ journal'[q] = Rec("creating", view[r].id, "none")
                        \/ q = r /\ journal'[q] = Rec("healthy", view[r].id, "none")
    BY <1>2, TransitionWrites DEF Creating, Healthy
  <2> QED BY <2>2, <2>3
<1>3. CASE MarkIssued
  <2>1. cmd.at = "issue"
    BY <1>3 DEF MarkIssued, At
  <2>2. Writes(Rec("issued", view[r].id, "none"))
    BY <1>c, <1>d, <2>1 DEF Writes, Rec
  <2>3. r = "outline" \/ r = "sink"
    BY <1>0 DEF Role
  <2>4. \A q \in Role : \/ journal'[q] = journal[q]
                        \/ q = r /\ journal'[q] = Rec("issued", view[r].id, "none")
    <3>1. CASE r = "outline"
      BY <1>3, <3>1, TransitionWrites DEF MarkIssued
    <3>2. CASE r = "sink"
      BY <1>3, <3>2, TransitionWrites DEF MarkIssued
    <3> QED BY <2>3, <3>1, <3>2
  <2> QED BY <2>2, <2>4
<1>4. CASE RecordHandle
  <2>1. cmd.at = "record" /\ view[r].state = "creating"
    BY <1>4, <1>0 DEF RecordHandle, At, IInv, OneCreate, CreatePlaces
  <2>2. Writes(Rec(view[r].state, view[r].id, "none"))
    BY <1>c, <1>d, <2>1 DEF Writes, Rec, CreatePlaces
  <2>3. AppendRecord(r, Rec(view[r].state, view[r].id, "none"), To("ready"), UnwindLease(cmd))
    BY <1>4 DEF RecordHandle
  <2>4. \A q \in Role : \/ journal'[q] = journal[q]
                        \/ q = r /\ journal'[q] = Rec(view[r].state, view[r].id, "none")
    BY <1>0, <2>3, AppendWrites
  <2> QED BY <2>2, <2>4
<1>5. CASE Closing
  <2>1. cmd.at = "closing"
    BY <1>5 DEF Closing, At
  <2>2. Writes(Rec("deleting", view[r].id, "none"))
    BY <1>d, <2>1 DEF Writes, Rec, AcquirePlaces
  <2>3. \A q \in Role : \/ journal'[q] = journal[q]
                        \/ q = r /\ journal'[q] = Rec("deleting", view[r].id, "none")
    BY <1>5, TransitionWrites DEF Closing
  <2> QED BY <2>2, <2>3
<1>6. CASE LeaseClosed \/ LeaseSettled
  <2>1. ~At("testing") /\ cmd.mode \notin CleanupMode
    BY <1>6, <1>a, <1>b, <1>d DEF LeaseClosed, LeaseSettled, At, AcquirePlaces
  <2>2. /\ LeaseClosed => Writes(Rec("absent", view[r].id, "verified"))
        /\ LeaseSettled => Writes(Rec("absent", view[r].id, "verified-namespace"))
    <3>1. LeaseSettled => view[r].id = NoId
      BY <1>a DEF LeaseSettled, At, Named, Control
    <3> QED BY <2>1, <3>1 DEF Writes, Rec
  <2>3. \A q \in Role : \/ journal'[q] = journal[q]
                        \/ LeaseClosed /\ q = r /\ journal'[q] = Rec("absent", view[r].id, "verified")
                        \/ LeaseSettled /\ q = r
                           /\ journal'[q] = Rec("absent", view[r].id, "verified-namespace")
    BY <1>6, TransitionWrites DEF LeaseClosed, LeaseSettled
  <2> QED BY <2>2, <2>3
<1>7. CASE LeaseUnproven
  <2>1. cmd.at = "unproven" /\ cmd.level \in {"lease", "bundle"}
    BY <1>7, <1>a DEF LeaseUnproven, At, Control
  <2>2. view[r].id = NoId /\ view[r].state = "deleting"
    BY <2>1 DEF Named, IInv, OneCreate
  <2>3. Writes(Rec(view[r].state, NoId, "unverified-no-service-id"))
    BY <1>d, <2>1, <2>2 DEF Writes, Rec, AcquirePlaces
  <2>4. AppendRecord(r, Rec(view[r].state, NoId, "unverified-no-service-id"),
                     LeaseOver(FALSE), LeaseOver(FALSE))
    BY <1>7 DEF LeaseUnproven
  <2>5. \A q \in Role : \/ journal'[q] = journal[q]
                        \/ q = r /\ journal'[q] = Rec(view[r].state, NoId, "unverified-no-service-id")
    BY <1>0, <2>4, AppendWrites
  <2> QED BY <2>3, <2>5
<1>8. CASE Testing
  <2>1. At("testing") /\ cmd.mode \notin CleanupMode
    BY <1>8, <1>a, <1>b DEF Testing, At, Control
  <2>2. Writes(Rec("testing", lease.ids[r], "none"))
    BY <2>1 DEF Writes, Rec
  <2>3. \A q \in Role : \/ journal'[q] = journal[q]
                        \/ q = r /\ journal'[q] = Rec("testing", lease.ids[r], "none")
    BY <1>0, <1>8, AppendWrites DEF Testing
  <2> QED BY <2>2, <2>3
<1>9. CASE Intent \/ Redelete \/ Unverified
  <2>1. ~At("testing")
    BY <1>9 DEF Intent, Redelete, Unverified, At
  <2>2. \A res : Writes(Rec("deleting", view[r].id, res))
    BY <2>1 DEF Writes, Rec
  <2>3. \A q \in Role : \/ journal'[q] = journal[q]
                        \/ \E res : q = r /\ journal'[q] = Rec("deleting", view[r].id, res)
    BY <1>0, <1>9, AppendWrites DEF Intent, Redelete, Unverified
  <2> QED BY <2>2, <2>3
<1>10. CASE Closed
  <2>1. ~At("testing")
    BY <1>10 DEF Closed, At
  <2>2. Writes(Rec("absent", view[r].id, "verified"))
    BY <2>1 DEF Writes, Rec
  <2>3. \A q \in Role : \/ journal'[q] = journal[q]
                        \/ q = r /\ journal'[q] = Rec("absent", view[r].id, "verified")
    BY <1>0, <1>10, AppendWrites DEF Closed
  <2> QED BY <2>2, <2>3
<1>11. CASE Settle
  <2>1. ~At("testing") /\ view[r].id = NoId
    BY <1>11 DEF Settle, At, Named
  <2>2. Writes(Rec("absent", NoId, "verified-namespace"))
    BY <2>1 DEF Writes, Rec
  <2>3. \A q \in Role : \/ journal'[q] = journal[q]
                        \/ q = r /\ journal'[q] = Rec("absent", NoId, "verified-namespace")
    BY <1>0, <1>11, AppendWrites DEF Settle
  <2> QED BY <2>2, <2>3
<1>12. CASE ProviderStep
  BY <1>12 DEF ProviderStep, Delete, Verify, List, ReapDelete, ReapVerify, Relist, AssertAbsent, disk
<1>13. CASE \/ BundleDeadline \/ Post \/ CreateAnswered \/ CreateRefused \/ CreateAnswerLost
            \/ WaitUntilReady \/ HandOff \/ InstallLease \/ AlreadyAbsent
  BY <1>13 DEF BundleDeadline, Post, CreateAnswered, CreateRefused, CreateAnswerLost,
         WaitUntilReady, HandOff, InstallLease, AlreadyAbsent, disk
<1>14. CASE Probe \/ RecordAbsence \/ MarkTesting
  BY <1>14 DEF Probe, RecordAbsence, MarkTesting, disk
<1> QED BY <1>1, <1>2, <1>3, <1>4, <1>5, <1>6, <1>7, <1>8, <1>9, <1>10, <1>11, <1>12, <1>13, <1>14
        DEF AcquireStep, CommandStep

-----------------------------------------------------------------------------
(***************************************************************************)
(* Where the control operators lead, and what they leave of a reap: they   *)
(* add no candidates, and a new reap is entitled to the roles that v, the  *)
(* command's view, does not know.                                          *)
(***************************************************************************)
Trims(c, d, v) ==
    /\ d.mode = c.mode /\ d.calls = c.calls
    /\ d.cands \subseteq c.cands /\ d.deleted \subseteq c.deleted
    /\ d.at \notin Plain
    /\ d.at = "list" => /\ d.cands = {} /\ d.deleted = {}
                        /\ d.bound <= Cardinality(Unknown(v))
                        /\ c.mode \in CleanupMode => /\ d.active = Known(v)
                                                     /\ d.bound = Cardinality(Unknown(v))
    /\ d.at \in ReapPlaces \ {"list"} => /\ c.at \in ReapPlaces
                                         /\ d.active = c.active /\ d.bound = c.bound

\* A step within a cleanup or an unwinding.
LEMMA TrimsAt ==
  ASSUME NEW c \in Cmd, NEW v, NEW p, p \notin Plain \cup {"list"},
         p \in ReapPlaces => c.at \in ReapPlaces
  PROVE  Trims(c, [c EXCEPT !.at = p], v) /\ [c EXCEPT !.at = p].at = p
BY DEF Trims, Cmd

\* Unwinding starts no reap but the final proof, which may delete nothing.
LEMMA TrimsUnwind ==
  ASSUME NEW c \in Cmd, NEW v \in [Role -> Record]
  PROVE  /\ \A n : Trims(c, UnwindBundle(c, n), v)
         /\ Trims(c, UnwindLease(c), v) /\ Trims(c, RoundOver(c), v)
<1>1. {"closing", "failed"} \cap (Plain \cup ReapPlaces) = {}
  BY DEF Plain, ReapPlaces, CreatePlaces
<1>2. \A n : Trims(c, UnwindBundle(c, n), v)
  BY <1>1 DEF Trims, UnwindBundle, Cmd
<1>3. Trims(c, UnwindLease(c), v)
  BY <1>1 DEF Trims, UnwindLease, Cmd
<1>4. Trims(c, [c EXCEPT !.at = "failed"], v)
  BY <1>1, TrimsAt
<1> QED BY <1>2, <1>3, <1>4 DEF RoundOver

\* A reap within its entitlement.
LEMMA TrimsReap ==
  ASSUME NEW c \in Cmd, NEW v, NEW A, NEW n, NEW l,
         n <= Cardinality(Unknown(v)),
         c.mode \in CleanupMode => A = Known(v) /\ n = Cardinality(Unknown(v))
  PROVE  Trims(c, Reap(c, A, n, l), v)
<1>1. "list" \notin Plain
  BY DEF Plain, CreatePlaces
<1> QED BY <1>1 DEF Trims, Reap, Cmd

\* The end of one lease of the bundle.
LEMMA TrimsLeaseOver ==
  ASSUME cmd \in Cmd, NEW v \in [Role -> Record], NEW ok \in BOOLEAN, cmd.mode \notin CleanupMode
  PROVE  Trims(cmd, LeaseOver(ok), v)
<1>1. {"closing", "failed"} \cap (Plain \cup ReapPlaces) = {}
  BY DEF Plain, ReapPlaces, CreatePlaces
<1>2. Trims(cmd, UnwindBundle(cmd, cmd.rounds), v) /\ Trims(cmd, RoundOver(cmd), v)
  BY TrimsUnwind
<1>3. Trims(cmd, [cmd EXCEPT !.at = "closing", !.role = "outline", !.failed = cmd.failed \/ ~ok], v)
  BY <1>1 DEF Trims, Cmd
<1>4. 0 <= Cardinality(Unknown(v))
  BY RoleCount DEF Unknown
<1>5. Trims(cmd, Reap(cmd, {}, 0, "proof"), v)
  BY <1>4, TrimsReap
<1> QED BY <1>2, <1>3, <1>5 DEF LeaseOver

\* The loop over the exact ids, and the reap after it.
LEMMA TrimsDeleting ==
  ASSUME NEW c \in Cmd, NEW v \in [Role -> Record], NEW S
  PROVE  Trims(c, Deleting(c, S, v), v) /\ Trims(c, Intending(c, S, v), v)
<1>1. {"failed", "probe", "delete", "intent"} \cap (Plain \cup ReapPlaces) = {}
  BY DEF Plain, ReapPlaces, CreatePlaces
<1>2. Cardinality(Unknown(v)) <= Cardinality(Unknown(v))
  BY RoleCount DEF Unknown
<1>3. Trims(c, Reap(c, Known(v), Cardinality(Unknown(v)), "command"), v)
  BY <1>2, TrimsReap
<1>4. Trims(c, Proving(c, v), v)
  BY <1>1, <1>3, TrimsAt DEF Proving
<1>5. \A p \in {"probe", "delete", "intent"} : \A T :
        Trims(c, [c EXCEPT !.at = p, !.role = First(T), !.todo = T \ {First(T)}], v)
  BY <1>1 DEF Trims, Cmd
<1>6. \A T : Trims(c, Deleting(c, T, v), v)
  BY <1>4, <1>5 DEF Deleting, Loop
<1> QED BY <1>5, <1>6 DEF Intending, Loop

\* The end of a reap.
LEMMA TrimsProved ==
  ASSUME NEW c \in Cmd, NEW v \in [Role -> Record], c.at \in ReapPlaces
  PROVE  Trims(c, Proved(c), v) /\ Trims(c, Unproved(c), v) /\ Trims(c, NextCandidate(c), v)
<1>1. {"settled", "unproven", "file", "failed", "ok", "settle"} \cap (Plain \cup ReapPlaces) = {}
  BY DEF Plain, ReapPlaces, CreatePlaces
<1>2. {"relist", "reap"} \subseteq ReapPlaces \ (Plain \cup {"list"})
  BY DEF Plain, ReapPlaces, CreatePlaces
<1>3. \A p \in {"settled", "unproven", "file", "failed", "ok", "relist", "reap"} :
        Trims(c, [c EXCEPT !.at = p], v)
  BY <1>1, <1>2, TrimsAt
<1>4. Trims(c, RoundOver(c), v)
  BY TrimsUnwind
<1>5. \A S : Trims(c, Settling(c, S), v)
  <2>1. \A T : Trims(c, [c EXCEPT !.at = "settle", !.role = First(T), !.todo = T \ {First(T)}], v)
    BY <1>1 DEF Trims, Cmd
  <2> QED BY <1>3, <2>1 DEF Settling, Loop
<1>6. Trims(c, Proved(c), v)
  BY <1>3, <1>4, <1>5 DEF Proved
<1>7. Trims(c, Unproved(c), v)
  BY <1>3, <1>4 DEF Unproved
<1>8. Trims(c, NextCandidate(c), v)
  BY <1>3 DEF NextCandidate
<1> QED BY <1>6, <1>7, <1>8

-----------------------------------------------------------------------------
(***************************************************************************)
(* Where the steps of a command lead, and which of them write lease.json.  *)
(***************************************************************************)

\* A command that can step is an acquisition, a cleanup, or begin-testing at work.
LEMMA StepMode ==
  ASSUME TypeOK, IInv, AcquireStep \/ ProviderStep \/ CommandStep
  PROVE  /\ cmd.at \notin {"idle", "ok", "failed"} /\ step # "acquire"
         /\ \/ cmd.mode = "acquire"
            \/ cmd.mode \in CleanupMode
            \/ cmd.mode = "begin" /\ cmd.at \in {"testing", "mark"} /\ CommandStep
         /\ AcquireStep => cmd.mode = "acquire"
         /\ CommandStep => cmd.mode \in CleanupMode \cup {"begin"}
         /\ ProviderStep => cmd.mode \in CleanupMode \cup {"acquire"}
         /\ cmd'.mode = cmd.mode /\ exit' = exit
<1>a. Control
  BY DEF IInv
<1>b. "acquire" \notin CleanupMode /\ "begin" \notin CleanupMode
  BY DEF CleanupMode
<1>1. CASE AcquireStep
  <2>1. cmd.mode = "acquire" /\ cmd'.mode = cmd.mode /\ exit' = exit
    BY <1>1, <1>a, AcquireLeads DEF AcquireGoes, Same
  <2>2. cmd.at \notin {"idle", "ok", "failed"}
    BY <1>1 DEF AcquireStep, Construct, Creating, BundleDeadline, Post, CreateAnswered, CreateRefused,
         CreateAnswerLost, RecordHandle, WaitUntilReady, Healthy, HandOff, MarkIssued,
         InstallLease, AlreadyAbsent, Closing, LeaseClosed, LeaseSettled, LeaseUnproven, At
  <2>3. step # "acquire"
    BY <2>2, <1>a DEF Control, At
  <2>4. ~ProviderStep
    BY <1>1 DEF ProviderStep, Delete, Verify, List, ReapDelete, ReapVerify, Relist, AssertAbsent,
         AcquireStep, Construct, Creating, BundleDeadline, Post, CreateAnswered, CreateRefused,
         CreateAnswerLost, RecordHandle, WaitUntilReady, Healthy, HandOff, MarkIssued,
         InstallLease, AlreadyAbsent, Closing, LeaseClosed, LeaseSettled, LeaseUnproven, At
  <2>5. ~CommandStep
    <3>1. CommandStep => cmd.mode \in CleanupMode \cup {"begin"}
      BY <1>a, CommandLeads DEF CommandGoes
    <3> QED BY <2>1, <3>1, <1>b
  <2> QED BY <2>1, <2>2, <2>3, <2>4, <2>5
<1>2. CASE ProviderStep
  <2>1. cmd.at \in ReapPlaces \cup {"delete", "verify"}
    BY <1>2 DEF ProviderStep, Delete, Verify, List, ReapDelete, ReapVerify, Relist, AssertAbsent, At,
       ReapPlaces
  <2>2. /\ cmd'.mode = cmd.mode /\ exit' = "none" /\ cmd.mode \in CleanupMode \cup {"acquire"}
    BY <1>2, ProviderDecided DEF Decided
  <2>3. cmd.at \notin {"idle", "ok", "failed"}
    BY <2>1 DEF ReapPlaces
  <2>4. step # "acquire" /\ exit = "none"
    BY <2>3, <1>a DEF Control, At
  <2>5. ~AcquireStep
    BY <2>1 DEF ReapPlaces, AcquireStep, Construct, Creating, BundleDeadline, Post, CreateAnswered, CreateRefused,
         CreateAnswerLost, RecordHandle, WaitUntilReady, Healthy, HandOff, MarkIssued,
         InstallLease, AlreadyAbsent, Closing, LeaseClosed, LeaseSettled, LeaseUnproven, At
  <2>6. ~CommandStep
    BY <2>1 DEF ReapPlaces, CommandStep, Intent, Probe, Redelete, Closed, Unverified, Settle,
         RecordAbsence, Testing, MarkTesting, At
  <2> QED BY <2>2, <2>3, <2>4, <2>5, <2>6
<1>3. CASE CommandStep
  <2>1. CommandGoes(cmd') /\ exit' = exit
    BY <1>3, <1>a, CommandLeads
  <2>2. cmd.at \in CleanupPlaces \cup {"closed", "testing", "mark"}
    BY <1>3 DEF CommandStep, Intent, Probe, Redelete, Closed, Unverified, Settle, RecordAbsence, Testing,
       MarkTesting, CleanupPlaces, At
  <2>3. cmd.at \notin {"idle", "ok", "failed"}
    BY <2>2 DEF CleanupPlaces
  <2>4. step # "acquire"
    BY <2>3, <1>a DEF Control, At
  <2>5. cmd'.mode = cmd.mode /\ cmd.mode \in CleanupMode \cup {"begin"}
    BY <2>1 DEF CommandGoes, Same
  <2>6. cmd.mode = "begin" => cmd.at \in {"testing", "mark"}
    <3>1. Closed => cmd.mode \in CleanupMode
      BY DEF Closed
    <3>2. cmd.at \in CleanupPlaces => cmd.mode \in CleanupMode
      BY <1>a DEF Control
    <3>3. cmd.at = "closed" => Closed
      BY <1>3 DEF CommandStep, Intent, Probe, Redelete, Closed, Unverified, Settle, RecordAbsence, Testing,
         MarkTesting, At
    <3> QED BY <2>2, <3>1, <3>2, <3>3, <1>b
  <2>7. ~AcquireStep
    <3>1. AcquireStep => cmd.mode = "acquire"
      BY <1>a, AcquireLeads
    <3> QED BY <2>5, <3>1, <1>b
  <2>8. ~ProviderStep
    BY <2>2 DEF ProviderStep, Delete, Verify, List, ReapDelete, ReapVerify, Relist, AssertAbsent, At,
       ReapPlaces, CleanupPlaces
  <2> QED BY <1>3, <2>1, <2>3, <2>4, <2>5, <2>6, <2>7, <2>8
<1> QED BY <1>1, <1>2, <1>3

\* lease.json is written at the end of an acquisition, of begin-testing and of
\* an "active" cleanup.
LEMMA LeaseMoves ==
  ASSUME TypeOK, IInv, AcquireStep \/ ProviderStep \/ CommandStep
  PROVE  \/ lease' = lease
         \/ /\ At("install") /\ UNCHANGED <<journal, view>>
            /\ lease'.state = "issued" /\ \A r \in Role : lease'.ids[r] = view[r].id
            /\ cmd'.at \in {"ok", "closing"}
         \/ At("mark") /\ journal' = journal /\ lease'.state = "testing" /\ lease'.ids = lease.ids
         \/ At("file") /\ journal' = journal /\ lease'.state = "absent" /\ lease'.ids = lease.ids
<1>0. lease \in LeaseFile /\ cmd \in Cmd
  BY DEF TypeOK, LeaseTypeOK
<1>1. CASE InstallLease
  <2>1. To("ok").at = "ok" /\ UnwindBundle(cmd, 1).at = "closing"
    BY <1>0 DEF To, UnwindBundle, Cmd
  <2> QED BY <1>1, <2>1 DEF InstallLease, WriteLease
<1>2. CASE MarkTesting \/ RecordAbsence
  BY <1>0, <1>2 DEF MarkTesting, RecordAbsence, WriteLease, LeaseFile
<1>3. CASE AcquireStep /\ ~InstallLease
  BY <1>3 DEF AcquireStep, Construct, Creating, BundleDeadline, Post, CreateAnswered, CreateRefused,
         CreateAnswerLost, RecordHandle, WaitUntilReady, Healthy, HandOff, MarkIssued,
         AlreadyAbsent, Closing, LeaseClosed, LeaseSettled, LeaseUnproven, disk
<1>4. CASE ProviderStep
  BY <1>4 DEF ProviderStep, Delete, Verify, List, ReapDelete, ReapVerify, Relist, AssertAbsent, disk
<1>5. CASE CommandStep /\ ~(MarkTesting \/ RecordAbsence)
  BY <1>5 DEF CommandStep, Intent, Probe, Redelete, Closed, Unverified, Settle, Testing, disk
<1> QED BY <1>1, <1>2, <1>3, <1>4, <1>5

\* There are two roles.
LEMMA RoleFinite == IsFiniteSet(Role) /\ Cardinality(Role) = 2
<1>1. IsFiniteSet({"outline"}) /\ Cardinality({"outline"}) = 1
  BY FS_Singleton
<1>2. Role = {"outline"} \cup {"sink"}
  BY DEF Role
<1> QED BY <1>1, <1>2, FS_AddElement

\* An acquisition that goes on as planned: p and r are where it stands next.
Reaches(p, r) ==
    /\ cmd'.at = p /\ cmd'.role = r
    /\ cmd'.mode = cmd.mode /\ cmd'.calls = cmd.calls
    /\ cmd'.cands = cmd.cands /\ cmd'.deleted = cmd.deleted

Onward ==
    \/ /\ At("construct") /\ journal'[cmd.role].state # "none"
       /\ \/ cmd.role = "outline" /\ Reaches("construct", "sink")
          \/ cmd.role = "sink" /\ Reaches("creating", "outline")
    \/ At("creating") /\ Reaches("post", cmd.role)
    \/ At("post") /\ Reaches("await", cmd.role)
    \/ At("await") /\ Reaches("record", cmd.role) /\ CreateAnswered
    \/ At("record") /\ Reaches("ready", cmd.role)
    \/ At("ready") /\ Reaches("healthy", cmd.role)
    \/ /\ At("healthy")
       /\ \/ cmd.role = "outline" /\ Reaches("creating", "sink")
          \/ cmd.role = "sink" /\ Reaches("handoff", "sink")
    \/ At("handoff") /\ Reaches("issue", "outline")
    \/ /\ At("issue") /\ journal'[cmd.role] = Rec("issued", view[cmd.role].id, "none")
       /\ \/ cmd.role = "outline" /\ Reaches("issue", "sink")
          \/ cmd.role = "sink" /\ Reaches("install", "sink")

\* Any other step of an acquisition unwinds it: only a lease that has no id
\* is searched for in the namespace, and it is entitled to one service.
LEMMA AcquireOnward ==
  ASSUME TypeOK, TypeOK', IInv, AcquireStep
  PROVE  \/ Onward
         \/ /\ Trims(cmd, cmd', view')
            /\ cmd'.at = "list" => cmd'.level = "proof" \/ view'[cmd'.role].id = NoId
<1> DEFINE r == cmd.role
           Unwinds(d) == /\ Trims(cmd, d, view')
                         /\ d.at = "list" => d.level = "proof" \/ view'[d.role].id = NoId
<1>0. cmd \in Cmd /\ r \in Role /\ view \in [Role -> Record] /\ view' \in [Role -> Record]
      /\ journal \in [Role -> Record]
  BY CmdFields DEF TypeOK, LeaseTypeOK
<1>a. cmd.mode = "acquire" /\ cmd.mode \notin CleanupMode
  BY AcquireLeads DEF IInv, CleanupMode
<1>b. \A d : Trims(cmd, d, view') /\ Back(cmd, d) => Unwinds(d)
  BY DEF Back
<1>c. /\ Unwinds(UnwindBundle(cmd, 1)) /\ Unwinds(UnwindBundle(cmd, 2))
      /\ Unwinds(UnwindLease(cmd))
  BY <1>0, <1>b, TrimsUnwind, UnwindLeads
<1>d. Unwinds(LeaseOver(TRUE)) /\ Unwinds(LeaseOver(FALSE))
  BY <1>0, <1>a, <1>b, TrimsLeaseOver, LeaseOverLeads
<1>e. \A p \in {"failed", "ok", "delete"} : Unwinds([cmd EXCEPT !.at = p])
  <2>1. {"failed", "ok", "delete"} \cap (Plain \cup ReapPlaces) = {} /\ "list" \in ReapPlaces
    BY DEF Plain, ReapPlaces, CreatePlaces
  <2>2. \A p \in {"failed", "ok", "delete"} :
          Trims(cmd, [cmd EXCEPT !.at = p], view') /\ [cmd EXCEPT !.at = p].at = p
    BY <1>0, <2>1, TrimsAt
  <2> QED BY <2>1, <2>2
<1>f. \A p, q : LET d == [cmd EXCEPT !.at = p, !.role = q] IN
        /\ d.at = p /\ d.role = q /\ d.mode = cmd.mode /\ d.calls = cmd.calls
        /\ d.cands = cmd.cands /\ d.deleted = cmd.deleted
  BY <1>0 DEF Cmd
<1>g. \A p : LET d == [cmd EXCEPT !.at = p] IN
        /\ d.at = p /\ d.role = r /\ d.mode = cmd.mode /\ d.calls = cmd.calls
        /\ d.cands = cmd.cands /\ d.deleted = cmd.deleted
  BY <1>0 DEF Cmd
<1>h. \A q : LET d == [cmd EXCEPT !.role = q] IN
        /\ d.at = cmd.at /\ d.role = q /\ d.mode = cmd.mode /\ d.calls = cmd.calls
        /\ d.cands = cmd.cands /\ d.deleted = cmd.deleted
  BY <1>0 DEF Cmd
<1>i. r = "outline" \/ r = "sink"
  BY <1>0 DEF Role
<1>k. /\ \A p : cmd' = To(p) => Reaches(p, r)
      /\ \A p, q : cmd' = [cmd EXCEPT !.at = p, !.role = q] => Reaches(p, q)
  <2>1. ASSUME NEW p, cmd' = To(p) PROVE Reaches(p, r)
    BY <1>g, <2>1 DEF Reaches, To
  <2>2. ASSUME NEW p, NEW q, cmd' = [cmd EXCEPT !.at = p, !.role = q] PROVE Reaches(p, q)
    BY <1>f, <2>2 DEF Reaches
  <2> QED BY <2>1, <2>2
<1> HIDE DEF Unwinds
<1>j. SUFFICES Onward \/ Unwinds(cmd')
  BY DEF Unwinds
<1>1. CASE Construct
  <2>1. CASE cmd' = To("failed")
    BY <1>e, <2>1 DEF To
  <2>2. CASE cmd' # To("failed")
    <3> DEFINE ok == IF r = "outline" THEN [cmd EXCEPT !.role = "sink"]
                     ELSE [cmd EXCEPT !.at = "creating", !.role = "outline"]
    <3>1. AppendRecord(r, Rec("absent", NoId, "none"), ok, To("failed")) /\ cmd.at = "construct"
      BY <1>1 DEF Construct, At
    <3> HIDE DEF ok
    <3>2. cmd' = ok /\ journal'[r] = Rec("absent", NoId, "none")
      BY <1>0, <2>2, <3>1, AppendWrites
    <3>3. journal'[r].state # "none"
      BY <3>2 DEF Rec
    <3> QED BY <1>f, <1>h, <1>i, <3>1, <3>2, <3>3 DEF Onward, Reaches, ok, At
  <2> QED BY <2>1, <2>2
<1>2. CASE Creating
  <2>1. cmd.at = "creating" /\ (cmd' = To("post") \/ cmd' = UnwindBundle(cmd, 1))
    BY <1>2 DEF Creating, Transition, AppendRecord, At
  <2> QED BY <1>c, <1>k, <2>1 DEF Onward, At
<1>3. CASE BundleDeadline
  BY <1>3, <1>c DEF BundleDeadline
<1>4. CASE Post
  BY <1>4, <1>g DEF Post, Goto, To, Onward, Reaches, At
<1>5. CASE CreateAnswered
  <2>1. cmd.at = "await" /\ cmd' = To("record")
    BY <1>5 DEF CreateAnswered, At, Goto
  <2> QED BY <1>5, <1>g, <2>1 DEF To, Onward, Reaches, At
<1>6. CASE CreateRefused \/ CreateAnswerLost
  BY <1>6, <1>c DEF CreateRefused, CreateAnswerLost
<1>7. CASE RecordHandle \/ WaitUntilReady
  <2>1. \/ cmd.at = "record" /\ cmd' = To("ready")
        \/ cmd.at = "ready" /\ cmd' = To("healthy")
        \/ cmd' = UnwindLease(cmd)
    BY <1>7 DEF RecordHandle, WaitUntilReady, AppendRecord, At
  <2> QED BY <1>c, <1>k, <2>1 DEF Onward, At
<1>8. CASE Healthy
  <2>1. cmd.at = "healthy"
    BY <1>8 DEF Healthy, At
  <2>2. \/ r = "outline" /\ cmd' = [cmd EXCEPT !.at = "creating", !.role = "sink"]
        \/ r = "sink" /\ cmd' = To("handoff")
        \/ cmd' = UnwindLease(cmd)
    BY <1>8, <1>i DEF Healthy, Transition, AppendRecord
  <2> QED BY <1>c, <1>i, <1>k, <2>1, <2>2 DEF Onward, At
<1>9. CASE HandOff
  <2>1. cmd.at = "handoff" /\ \/ cmd' = [cmd EXCEPT !.at = "issue", !.role = "outline"]
                              \/ cmd' = UnwindBundle(cmd, 1)
    BY <1>9 DEF HandOff, At
  <2> QED BY <1>c, <1>k, <2>1 DEF Onward, At
<1>10. CASE MarkIssued
  <2>1. cmd.at = "issue"
    BY <1>10 DEF MarkIssued, At
  <2>2. CASE Unwinds(cmd')
    BY <2>2
  <2>3. CASE ~Unwinds(cmd')
    <3>1. CASE r = "outline"
      <4>1. AppendRecord(r, Rec("issued", view[r].id, "none"), [cmd EXCEPT !.role = "sink"],
                         UnwindBundle(cmd, 1))
        BY <1>10, <3>1 DEF MarkIssued, Transition
      <4>2. cmd' = [cmd EXCEPT !.role = "sink"] /\ journal'[r] = Rec("issued", view[r].id, "none")
        BY <1>0, <1>c, <2>3, <4>1, AppendWrites
      <4> QED BY <1>h, <2>1, <3>1, <4>2 DEF Onward, Reaches, At
    <3>2. CASE r = "sink"
      <4>1. AppendRecord(r, Rec("issued", view[r].id, "none"), To("install"),
                         UnwindBundle(cmd, 2))
        BY <1>10, <3>2 DEF MarkIssued, Transition
      <4>2. cmd' = To("install") /\ journal'[r] = Rec("issued", view[r].id, "none")
        BY <1>0, <1>c, <2>3, <4>1, AppendWrites
      <4> QED BY <1>g, <2>1, <3>2, <4>2 DEF Onward, Reaches, At, To
    <3> QED BY <1>i, <3>1, <3>2
  <2> QED BY <2>2, <2>3
<1>11. CASE InstallLease
  BY <1>11, <1>c, <1>e DEF InstallLease, WriteLease, To
<1>12. CASE AlreadyAbsent \/ LeaseClosed \/ LeaseSettled \/ LeaseUnproven
  BY <1>12, <1>d DEF AlreadyAbsent, LeaseClosed, LeaseSettled, LeaseUnproven, Transition, AppendRecord
<1>13. CASE Closing
  <2>1. cmd' = CloseService \/ cmd' = LeaseOver(FALSE)
    BY <1>13 DEF Closing, Transition, AppendRecord
  <2>2. CASE cmd' = CloseService /\ view[r].id = NoId
    <3>1. ~CreateAnswered
      BY <1>13 DEF Closing, CreateAnswered, At
    <3>2. view'[r].id = NoId
      BY <1>0, <2>2, <3>1, ViewMoves
    <3>3. r \in Unknown(view')
      BY <1>0, <3>2 DEF Unknown
    <3>4. 1 <= Cardinality(Unknown(view'))
      <4>1. Unknown(view') \in SUBSET Role /\ IsFiniteSet(Role)
        BY <1>0, SnapIds, RoleFinite
      <4>2. IsFiniteSet(Unknown(view'))
        BY <4>1, FS_Subset
      <4>3. Cardinality(Unknown(view')) # 0 /\ Cardinality(Unknown(view')) \in 0..2
        BY <3>3, <4>1, <4>2, FS_EmptySet, RoleCount
      <4> QED BY <4>3
    <3>5. Trims(cmd, Reap(cmd, OtherIds, 1, cmd.level), view')
      BY <1>0, <1>a, <3>4, TrimsReap
    <3>6. Reap(cmd, OtherIds, 1, cmd.level).role = r
      BY <1>0 DEF Reap, Cmd
    <3> QED BY <2>2, <3>2, <3>5, <3>6 DEF CloseService, Unwinds
  <2>3. CASE cmd' = CloseService /\ view[r].id # NoId
    BY <1>e, <2>3 DEF CloseService, To
  <2> QED BY <1>d, <2>1, <2>2, <2>3
<1> QED BY <1>1, <1>2, <1>3, <1>4, <1>5, <1>6, <1>7, <1>8, <1>9, <1>10, <1>11, <1>12, <1>13
        DEF AcquireStep

-----------------------------------------------------------------------------
(***************************************************************************)
(* What a reap has selected stays within its entitlement.                  *)
(***************************************************************************)

\* c is the running command with what a list or a deletion adds to it.
Gathers(c) ==
    /\ c \in Cmd /\ c.at = cmd.at /\ c.mode = cmd.mode
    /\ c.active = cmd.active /\ c.bound = cmd.bound
    /\ c.calls = cmd.calls \/ c.calls = Spent(cmd).calls
    /\ \/ c.cands \cup c.deleted \subseteq cmd.cands \cup cmd.deleted
       \/ /\ At("list") /\ c.cands = Tagged(cmd.active) /\ c.deleted = cmd.deleted
          /\ Cardinality(c.cands) <= cmd.bound

\* The account holds finitely many services.
LEMMA LiveFinite == ASSUME TypeOK, Accounted PROVE IsFiniteSet(live)
<1> DEFINE own == {created["outline"], created["sink"]}
<1>1. IsFiniteSet(own)
  <2>1. IsFiniteSet({created["outline"]})
    BY FS_Singleton
  <2>2. IsFiniteSet({created["outline"]} \cup {created["sink"]})
    BY <2>1, FS_AddElement
  <2> QED BY <2>2
<1>2. IsFiniteSet(Foreign \cup Stale)
  BY AccountAssumption, FS_Union
<1>3. IsFiniteSet((Foreign \cup Stale) \cup own)
  BY <1>1, <1>2, FS_Union
<1>4. live \subseteq (Foreign \cup Stale) \cup own
  BY DEF Accounted, Owned, Role
<1> QED BY <1>3, <1>4, FS_Subset

\* Counting an operation and marking a failure leave the selection alone.
LEMMA SameGathers ==
  ASSUME cmd \in Cmd PROVE Gathers(cmd) /\ Gathers(Spent(cmd)) /\ Gathers([cmd EXCEPT !.failed = TRUE])
<1>1. Gathers(cmd) /\ Gathers(Spent(cmd))
  BY SpentLeads DEF Gathers
<1>2. Gathers([cmd EXCEPT !.failed = TRUE])
  BY DEF Gathers, Cmd
<1> QED BY <1>1, <1>2

\* A step of an exact deletion or of a reap.
LEMMA ProviderTrims ==
  ASSUME TypeOK, IInv, Accounted, ProviderStep
  PROVE  \E c : Gathers(c) /\ Trims(c, cmd', view)
<1>0. cmd \in Cmd /\ view \in [Role -> Record]
  BY DEF TypeOK, LeaseTypeOK
<1>a. Spent(cmd) \in Cmd /\ Spent(cmd).at = cmd.at /\ Spent(cmd).mode = cmd.mode
      /\ Gathers(Spent(cmd)) /\ Gathers(cmd)
  BY <1>0, SpentLeads, SameGathers
<1>b. \A c \in Cmd : c.at \in ReapPlaces =>
        Trims(c, Proved(c), view) /\ Trims(c, Unproved(c), view) /\ Trims(c, NextCandidate(c), view)
  BY <1>0, TrimsProved
<1>c. \A c \in Cmd : /\ Trims(c, [c EXCEPT !.at = "verify"], view)
                     /\ Trims(c, [c EXCEPT !.at = "closed"], view)
                     /\ Trims(c, [c EXCEPT !.at = "unverified"], view)
  <2>1. {"verify", "closed", "unverified"} \cap (Plain \cup ReapPlaces \cup {"list"}) = {}
    BY DEF Plain, ReapPlaces, CreatePlaces
  <2> QED BY <2>1, TrimsAt
<1>d. \A c \in Cmd : c.at \in ReapPlaces => /\ Trims(c, [c EXCEPT !.at = "reapverify"], view)
                                            /\ Trims(c, [c EXCEPT !.at = "assert"], view)
  <2>1. {"reapverify", "assert"} \cap (Plain \cup {"list"}) = {}
    BY DEF Plain, CreatePlaces
  <2> QED BY <2>1, TrimsAt
<1>e. \E c : Gathers(c) /\ Trims(c, DeleteFailed(Spent(cmd)), view)
  <2>1. CASE cmd.mode = "acquire"
    <3>1. cmd.mode \notin CleanupMode
      BY <2>1 DEF CleanupMode
    <3>2. Trims(cmd, LeaseOver(FALSE), view)
      BY <1>0, <3>1, TrimsLeaseOver
    <3> QED BY <1>a, <2>1, <3>2 DEF DeleteFailed
  <2>2. CASE cmd.mode # "acquire"
    BY <1>a, <1>c, <2>2 DEF DeleteFailed
  <2> QED BY <2>1, <2>2
<1>1. CASE Delete \/ Verify
  <2>1. \/ cmd' = [Spent(cmd) EXCEPT !.at = "verify"]
        \/ cmd' = [Spent(cmd) EXCEPT !.at = "closed"]
        \/ cmd' = DeleteFailed(Spent(cmd))
    BY <1>1 DEF Delete, Verify
  <2> QED BY <1>a, <1>c, <1>e, <2>1
<1>2. CASE List
  <2>1. cmd.at = "list" /\ "list" \in ReapPlaces
    BY <1>2 DEF List, At, ReapPlaces
  <2>2. CASE cmd' = Unproved(Spent(cmd))
    BY <1>a, <1>b, <2>1, <2>2
  <2>3. CASE cmd' # Unproved(Spent(cmd))
    <3> DEFINE c == [Spent(cmd) EXCEPT !.cands = Tagged(cmd.active)]
    <3>1. cmd' = NextCandidate(c) /\ ~(Cardinality(Tagged(cmd.active)) > cmd.bound)
      BY <1>2, <2>3 DEF List
    <3>2. Tagged(cmd.active) \in SUBSET ServiceId
      BY DEF Tagged, TypeOK, AccountTypeOK
    <3>3. c \in Cmd /\ c.at = cmd.at /\ c.mode = cmd.mode /\ c.active = cmd.active
          /\ c.bound = cmd.bound /\ c.deleted = cmd.deleted /\ c.cands = Tagged(cmd.active)
          /\ c.calls = Spent(cmd).calls
      BY <1>0, <1>a, <3>2, SpentLeads DEF Cmd
    <3>4. Cardinality(Tagged(cmd.active)) <= cmd.bound
      <4>1. Cardinality(Tagged(cmd.active)) \in Nat
        BY LiveFinite, FS_Subset, FS_CardinalityType DEF Tagged
      <4> QED BY <1>0, <3>1, <4>1 DEF Cmd
    <3> HIDE DEF c
    <3>5. Gathers(c)
      BY <2>1, <3>3, <3>4 DEF Gathers, At
    <3> QED BY <1>b, <2>1, <3>1, <3>3, <3>5
  <2> QED BY <2>2, <2>3
<1>3. CASE ReapDelete
  <2>1. cmd.at = "reap" /\ "reap" \in ReapPlaces
    BY <1>3 DEF ReapDelete, At, ReapPlaces
  <2>2. PICK id \in cmd.cands :
          LET c == [Spent(cmd) EXCEPT !.cands = @ \ {id}, !.deleted = @ \cup {id}, !.target = id]
          IN  \/ cmd' = [c EXCEPT !.at = "reapverify"]
              \/ cmd' = Unproved(c)
              \/ cmd' = NextCandidate([cmd EXCEPT !.cands = @ \ {id}])
    BY <1>3 DEF ReapDelete
  <2> DEFINE c == [Spent(cmd) EXCEPT !.cands = @ \ {id}, !.deleted = @ \cup {id}, !.target = id]
             e == [cmd EXCEPT !.cands = @ \ {id}]
  <2>3. id \in ServiceId
    BY <1>0, CmdFields
  <2>4. /\ c \in Cmd /\ c.at = cmd.at /\ c.mode = cmd.mode /\ c.active = cmd.active
        /\ c.bound = cmd.bound
        /\ c.cands = cmd.cands \ {id} /\ c.deleted = cmd.deleted \cup {id}
        /\ c.calls = Spent(cmd).calls
    BY <1>0, <1>a, <2>3, SpentLeads DEF Cmd, Id
  <2>5. /\ e \in Cmd /\ e.at = cmd.at /\ e.mode = cmd.mode /\ e.active = cmd.active
        /\ e.bound = cmd.bound
        /\ e.cands = cmd.cands \ {id} /\ e.deleted = cmd.deleted /\ e.calls = cmd.calls
    BY <1>0 DEF Cmd
  <2>6. \/ cmd' = [c EXCEPT !.at = "reapverify"] \/ cmd' = Unproved(c)
        \/ cmd' = NextCandidate(e)
    BY <2>2
  <2> HIDE DEF c, e
  <2>7. Gathers(c) /\ Gathers(e)
    BY <2>4, <2>5 DEF Gathers
  <2> QED BY <1>b, <1>d, <2>1, <2>4, <2>5, <2>6, <2>7
<1>4. CASE ReapVerify
  <2> DEFINE c == [Spent(cmd) EXCEPT !.target = NoId]
  <2>1. cmd.at = "reapverify" /\ "reapverify" \in ReapPlaces
    BY <1>4 DEF ReapVerify, At, ReapPlaces
  <2>2. /\ c \in Cmd /\ c.at = cmd.at /\ c.mode = cmd.mode /\ c.active = cmd.active
        /\ c.bound = cmd.bound /\ c.cands = cmd.cands /\ c.deleted = cmd.deleted
        /\ c.calls = Spent(cmd).calls
    BY <1>0, <1>a, SpentLeads DEF Cmd, Id
  <2>3. cmd' = Unproved(c) \/ cmd' = NextCandidate(c)
    BY <1>4 DEF ReapVerify
  <2> HIDE DEF c
  <2>4. Gathers(c)
    BY <2>2 DEF Gathers
  <2> QED BY <1>b, <2>1, <2>2, <2>3, <2>4
<1>5. CASE Relist \/ AssertAbsent
  <2>1. cmd.at \in ReapPlaces
    BY <1>5 DEF Relist, AssertAbsent, At, ReapPlaces
  <2>2. \/ cmd' = Unproved(Spent(cmd)) \/ cmd' = [Spent(cmd) EXCEPT !.at = "assert"]
        \/ cmd' = Proved(Spent(cmd))
    BY <1>5 DEF Relist, AssertAbsent
  <2> QED BY <1>a, <1>b, <1>d, <2>1, <2>2
<1> QED BY <1>1, <1>2, <1>3, <1>4, <1>5 DEF ProviderStep

\* A step of a cleanup outside the provider's calls, and one of begin-testing.
LEMMA CommandTrims ==
  ASSUME TypeOK, IInv, CommandStep
  PROVE  /\ cmd.mode \in CleanupMode => \E c : Gathers(c) /\ Trims(c, cmd', view)
         /\ cmd.mode = "begin" => /\ cmd'.cands = cmd.cands /\ cmd'.deleted = cmd.deleted
                                  /\ cmd'.calls = cmd.calls
<1>0. cmd \in Cmd /\ view \in [Role -> Record]
  BY DEF TypeOK, LeaseTypeOK
<1>a. Spent(cmd) \in Cmd /\ Gathers(Spent(cmd)) /\ Gathers(cmd) /\ Gathers([cmd EXCEPT !.failed = TRUE])
      /\ [cmd EXCEPT !.failed = TRUE] \in Cmd
  BY <1>0, SpentLeads, SameGathers DEF Cmd
<1>b. \A c \in Cmd : \A S : Trims(c, Deleting(c, S, view), view) /\ Trims(c, Intending(c, S, view), view)
  BY <1>0, TrimsDeleting
<1>c. \A c \in Cmd, p \in {"failed", "ok", "redelete", "closed", "unverified", "delete", "settle"} :
        Trims(c, [c EXCEPT !.at = p], view)
  <2>1. {"failed", "ok", "redelete", "closed", "unverified", "delete", "settle"}
          \cap (Plain \cup ReapPlaces \cup {"list"}) = {}
    BY DEF Plain, ReapPlaces, CreatePlaces
  <2> QED BY <2>1, TrimsAt
<1>d. \A c \in Cmd : \A S : Trims(c, Settling(c, S), view)
  <2>1. "settle" \notin Plain \cup ReapPlaces
    BY DEF Plain, ReapPlaces, CreatePlaces
  <2>2. \A c \in Cmd : \A T :
          Trims(c, [c EXCEPT !.at = "settle", !.role = First(T), !.todo = T \ {First(T)}], view)
    BY <2>1 DEF Trims, Cmd, ReapPlaces
  <2> QED BY <1>c, <2>2 DEF Settling, Loop
<1>1. CASE Intent
  <2>1. cmd' = Intending(cmd, cmd.todo, view) \/ cmd' = To("failed")
    BY <1>1 DEF Intent, AppendRecord
  <2> QED BY <1>0, <1>1, <1>a, <1>b, <1>c, <2>1 DEF To, IInv, Control, At, Intent, CleanupPlaces, CleanupMode
<1>2. CASE Probe
  <2>1. \/ cmd' = [Spent(cmd) EXCEPT !.at = "redelete"] \/ cmd' = [Spent(cmd) EXCEPT !.at = "closed"]
        \/ cmd' = NextDelete(Spent(cmd)) \/ cmd' = [Spent(cmd) EXCEPT !.at = "unverified"]
    BY <1>2 DEF Probe
  <2>2. cmd.mode # "begin"
    BY <1>2 DEF Probe, IInv, Control, At, CleanupPlaces, CleanupMode
  <2> DEFINE c == Spent(cmd)
  <2>3. c \in Cmd /\ Gathers(c)
    BY <1>a
  <2>4. \/ cmd' = [c EXCEPT !.at = "redelete"] \/ cmd' = [c EXCEPT !.at = "closed"]
        \/ cmd' = Deleting(c, c.todo, view) \/ cmd' = [c EXCEPT !.at = "unverified"]
    BY <2>1 DEF NextDelete
  <2> HIDE DEF c
  <2>5. Trims(c, cmd', view)
    BY <1>b, <1>c, <2>3, <2>4
  <2> QED BY <2>2, <2>3, <2>5
<1>3. CASE Redelete \/ Closed
  <2>1. cmd' = To("delete") \/ cmd' = To("unverified") \/ cmd' = NextDelete(cmd)
    BY <1>3 DEF Redelete, Closed, AppendRecord
  <2>2. cmd.mode # "begin"
    BY <1>3 DEF Redelete, Closed, IInv, Control, At, CleanupPlaces, CleanupMode
  <2> QED BY <1>0, <1>a, <1>b, <1>c, <2>1, <2>2 DEF NextDelete, To
<1>4. CASE Unverified
  <2>1. cmd' = NextDelete([cmd EXCEPT !.failed = TRUE]) \/ cmd' = To("failed")
    BY <1>4 DEF Unverified, AppendRecord
  <2>2. cmd.mode # "begin"
    BY <1>4 DEF Unverified, IInv, Control, At, CleanupPlaces, CleanupMode
  <2> QED BY <1>0, <1>a, <1>b, <1>c, <2>1, <2>2 DEF NextDelete, To
<1>5. CASE Settle \/ RecordAbsence
  <2>1. cmd' = Settling(cmd, cmd.todo) \/ cmd' = To("failed") \/ cmd' = To("ok")
    BY <1>5 DEF Settle, RecordAbsence, AppendRecord, WriteLease
  <2>2. cmd.mode # "begin"
    BY <1>5 DEF Settle, RecordAbsence, IInv, Control, At, CleanupPlaces, CleanupMode
  <2>3. \/ cmd' = Settling(cmd, cmd.todo) \/ cmd' = [cmd EXCEPT !.at = "failed"]
        \/ cmd' = [cmd EXCEPT !.at = "ok"]
    BY <2>1 DEF To
  <2>4. Trims(cmd, cmd', view)
    BY <1>0, <1>c, <1>d, <2>3
  <2> QED BY <1>a, <2>2, <2>4
<1>6. CASE Testing \/ MarkTesting
  <2>1. \/ cmd' = Loop(cmd, "testing", cmd.todo, To("mark")) \/ cmd' = To("failed") \/ cmd' = To("ok")
    BY <1>6 DEF Testing, MarkTesting, AppendRecord, WriteLease
  <2>2. cmd.mode = "begin" /\ cmd.mode \notin CleanupMode
    BY <1>6 DEF Testing, MarkTesting, IInv, Control, At, CleanupMode
  <2>3. cmd'.cands = cmd.cands /\ cmd'.deleted = cmd.deleted /\ cmd'.calls = cmd.calls
    BY <1>0, <2>1 DEF To, Loop, Cmd
  <2> QED BY <2>2, <2>3
<1> QED BY <1>1, <1>2, <1>3, <1>4, <1>5, <1>6 DEF CommandStep

\* A reap keeps to what it is entitled to.
LEMMA SelectingKeeps ==
  ASSUME TypeOK, Selecting, Accounted, NEW c, Gathers(c), Trims(c, cmd', view'),
         UnknownRoles' = UnknownRoles, cmd.mode \in CleanupMode => view' = view,
         cmd.mode # "begin"
  PROVE  Selecting'
<1>0. cmd \in Cmd /\ c \in Cmd
  BY DEF TypeOK, LeaseTypeOK, Gathers
<1>1. IsFiniteSet(c.cands \cup c.deleted) /\ Cardinality(c.cands \cup c.deleted) <= Cardinality(UnknownRoles)
  <2>a. Cardinality(UnknownRoles) \in Nat
    <3>1. UnknownRoles \in SUBSET Role
      BY DEF UnknownRoles
    <3> QED BY <3>1, RoleCount
  <2>1. CASE c.cands \cup c.deleted \subseteq cmd.cands \cup cmd.deleted
    <3>1. /\ IsFiniteSet(c.cands \cup c.deleted)
          /\ Cardinality(c.cands \cup c.deleted) <= Cardinality(cmd.cands \cup cmd.deleted)
      BY <2>1, FS_Subset DEF Selecting
    <3>2. Cardinality(cmd.cands \cup cmd.deleted) \in Nat /\ Cardinality(c.cands \cup c.deleted) \in Nat
      BY <3>1, FS_CardinalityType DEF Selecting
    <3> QED BY <2>a, <3>1, <3>2 DEF Selecting
  <2>2. CASE /\ At("list") /\ c.cands = Tagged(cmd.active) /\ c.deleted = cmd.deleted
             /\ Cardinality(c.cands) <= cmd.bound
    <3>1. c.cands \cup c.deleted = c.cands
      BY <2>2 DEF Selecting, At
    <3>2. IsFiniteSet(c.cands)
      BY <2>2, LiveFinite, FS_Subset DEF Tagged
    <3>3. Cardinality(c.cands) \in Nat /\ cmd.bound \in Nat
      BY <1>0, <3>2, FS_CardinalityType DEF Cmd
    <3> QED BY <2>2, <2>a, <3>1, <3>2, <3>3 DEF Selecting
  <2> QED BY <2>1, <2>2 DEF Gathers
<1>2. cmd'.cands \cup cmd'.deleted \subseteq c.cands \cup c.deleted
  BY DEF Trims
<1>3. /\ IsFiniteSet(cmd'.cands \cup cmd'.deleted)
      /\ Cardinality(cmd'.cands \cup cmd'.deleted) <= Cardinality(UnknownRoles)
  <2>a. Cardinality(UnknownRoles) \in Nat
    <3>1. UnknownRoles \in SUBSET Role
      BY DEF UnknownRoles
    <3> QED BY <3>1, RoleCount
  <2>1. /\ IsFiniteSet(cmd'.cands \cup cmd'.deleted)
        /\ Cardinality(cmd'.cands \cup cmd'.deleted) <= Cardinality(c.cands \cup c.deleted)
    BY <1>1, <1>2, FS_Subset
  <2>2. Cardinality(cmd'.cands \cup cmd'.deleted) \in Nat /\ Cardinality(c.cands \cup c.deleted) \in Nat
    BY <1>1, <2>1, FS_CardinalityType
  <2> QED BY <1>1, <2>a, <2>1, <2>2
<1>4. cmd'.mode = cmd.mode /\ c.at = cmd.at /\ c.mode = cmd.mode
      /\ c.active = cmd.active /\ c.bound = cmd.bound
  BY DEF Trims, Gathers
<1>5. cmd'.at \notin Plain /\ (cmd'.at = "list" => cmd'.cands = {} /\ cmd'.deleted = {})
  BY DEF Trims
<1>6. Unknown(view') = UnknownRoles'
  BY DEF Unknown, UnknownRoles
<1>7. cmd'.at = "list" => cmd'.bound <= Cardinality(UnknownRoles')
  BY <1>6 DEF Trims
<1>8. cmd'.at \in ReapPlaces /\ cmd'.mode \in CleanupMode
        => cmd'.active = Known(view') /\ cmd'.bound = Cardinality(UnknownRoles')
  <2>1. CASE cmd'.at = "list"
    BY <1>4, <1>6, <2>1 DEF Trims
  <2>2. CASE cmd'.at \in ReapPlaces \ {"list"} /\ cmd'.mode \in CleanupMode
    <3>1. cmd.at \in ReapPlaces /\ cmd'.active = cmd.active /\ cmd'.bound = cmd.bound
      BY <1>4, <2>2 DEF Trims
    <3>2. view' = view /\ cmd.active = Known(view) /\ cmd.bound = Cardinality(UnknownRoles)
      BY <1>4, <2>2, <3>1 DEF Selecting
    <3> QED BY <3>1, <3>2
  <2> QED BY <2>1, <2>2
<1>9. Known(view') = Known(view)'
  BY DEF Known
<1> QED BY <1>3, <1>4, <1>5, <1>7, <1>8, <1>9 DEF Selecting, At

\* Every step of a command keeps the selection within the records without an id.
LEMMA SelectingStep ==
  ASSUME TypeOK, TypeOK', IInv, Selecting, Accounted, AcquireStep \/ ProviderStep \/ CommandStep
  PROVE  Selecting'
<1>0. cmd \in Cmd /\ view \in [Role -> Record] /\ view' \in [Role -> Record]
  BY DEF TypeOK, LeaseTypeOK
<1>a. /\ cmd'.mode = cmd.mode
      /\ cmd.mode \in CleanupMode => ~AcquireStep
      /\ AcquireStep => cmd.mode = "acquire"
      /\ ProviderStep => cmd.mode # "begin"
      /\ CommandStep => cmd.mode \in CleanupMode \cup {"begin"}
  BY StepMode DEF CleanupMode
<1>b. "acquire" \notin CleanupMode /\ "begin" \notin CleanupMode
  BY DEF CleanupMode
<1>c. cmd.mode \in CleanupMode => view' = view
  BY <1>a, ViewMoves
<1>d. ~CreateAnswered => UnknownRoles' = UnknownRoles
  <2> SUFFICES ASSUME ~CreateAnswered PROVE UnknownRoles' = UnknownRoles
    OBVIOUS
  <2>1. \A r \in Role : view'[r].id = view[r].id
    BY ViewMoves
  <2> QED BY <2>1 DEF UnknownRoles
<1>1. ASSUME cmd'.cands = {}, cmd'.deleted = {}, cmd'.at \notin ReapPlaces PROVE Selecting'
  <2>1. cmd'.cands \cup cmd'.deleted = {}
    BY <1>1
  <2>2. IsFiniteSet({}) /\ Cardinality({}) = 0
    BY FS_EmptySet
  <2>3. UnknownRoles' \in SUBSET Role
    BY DEF UnknownRoles
  <2>4. Cardinality(UnknownRoles') \in 0..2
    BY <2>3, RoleCount
  <2>5. "list" \in ReapPlaces
    BY DEF ReapPlaces
  <2> QED BY <1>1, <2>1, <2>2, <2>4, <2>5 DEF Selecting, At
<1>2. CASE AcquireStep
  <2>1. cmd.mode = "acquire" /\ cmd.mode # "begin"
    BY <1>2, <1>a
  <2>2. CASE Onward
    <3>1. /\ cmd'.cands = cmd.cands /\ cmd'.deleted = cmd.deleted /\ cmd.at \in Plain /\ cmd'.at \in Plain
      BY <2>2 DEF Onward, Reaches, At, Plain, CreatePlaces
    <3>2. cmd'.at \notin ReapPlaces
      BY <3>1 DEF Plain, CreatePlaces, ReapPlaces
    <3> QED BY <1>1, <3>1, <3>2 DEF Selecting
  <2>3. CASE Trims(cmd, cmd', view')
    <3>1. ~CreateAnswered
      BY <1>0, <2>3 DEF CreateAnswered, Goto, To, Trims, Plain, CreatePlaces, Cmd
    <3> QED BY <1>0, <1>c, <1>d, <2>1, <2>3, <3>1, SameGathers, SelectingKeeps
  <2> QED BY <1>2, <2>2, <2>3, AcquireOnward
<1>3. CASE ProviderStep
  <2>1. PICK c : Gathers(c) /\ Trims(c, cmd', view)
    BY <1>3, ProviderTrims
  <2>2. ~CreateAnswered /\ view' = view
    <3>1. ~AcquireStep
      BY <1>3 DEF ProviderStep, Delete, Verify, List, ReapDelete, ReapVerify, Relist, AssertAbsent,
           AcquireStep, Construct, Creating, BundleDeadline, Post, CreateAnswered, CreateRefused,
           CreateAnswerLost, RecordHandle, WaitUntilReady, Healthy, HandOff, MarkIssued,
           InstallLease, AlreadyAbsent, Closing, LeaseClosed, LeaseSettled, LeaseUnproven, At
    <3> QED BY <3>1, ViewMoves DEF AcquireStep
  <2> QED BY <1>3, <1>a, <1>d, <2>1, <2>2, SelectingKeeps
<1>4. CASE CommandStep
  <2>1. ~AcquireStep
    BY <1>4, <1>a, <1>b
  <2>2. ~CreateAnswered /\ view' = view
    BY <2>1, ViewMoves DEF AcquireStep
  <2>3. CASE cmd.mode \in CleanupMode
    <3>1. PICK c : Gathers(c) /\ Trims(c, cmd', view)
      BY <1>4, <2>3, CommandTrims
    <3> QED BY <1>b, <1>d, <2>2, <2>3, <3>1, SelectingKeeps
  <2>4. CASE cmd.mode = "begin"
    <3>1. cmd'.cands = {} /\ cmd'.deleted = {}
      BY <1>4, <2>4, CommandTrims DEF Selecting
    <3>2. cmd'.at \notin ReapPlaces
      BY <1>4, <1>b, <2>4, CommandLeads DEF CommandGoes, ReapPlaces, IInv
    <3> QED BY <1>1, <3>1, <3>2
  <2> QED BY <1>4, <1>a, <2>3, <2>4
<1> QED BY <1>2, <1>3, <1>4

-----------------------------------------------------------------------------
(***************************************************************************)
(* The records before and during an acquisition.                           *)
(***************************************************************************)

\* A declared role stays declared.
LEMMA StaysDeclared ==
  ASSUME TypeOK, IInv, Named, AcquireStep \/ ProviderStep \/ CommandStep
  PROVE  \A r \in Role : journal[r].state # "none" => journal'[r].state # "none"
BY JournalMoves DEF Writes

\* Only the steps of an acquisition that goes on lead to a place where nothing
\* has been selected, except those of begin-testing.
LEMMA OnlyOnward ==
  ASSUME TypeOK, TypeOK', IInv, Accounted, AcquireStep \/ ProviderStep \/ CommandStep,
         cmd'.at \in Plain
  PROVE  (AcquireStep /\ Onward) \/ cmd'.mode = "begin"
<1>1. CASE AcquireStep
  <2>1. Onward \/ Trims(cmd, cmd', view')
    BY <1>1, AcquireOnward
  <2> QED BY <1>1, <2>1 DEF Trims
<1>2. CASE ProviderStep
  <2>1. \E c : Gathers(c) /\ Trims(c, cmd', view)
    BY <1>2, ProviderTrims
  <2> QED BY <2>1 DEF Trims
<1>3. CASE CommandStep
  <2>1. cmd'.mode = cmd.mode /\ cmd.mode \in CleanupMode \cup {"begin"}
    BY <1>3, StepMode
  <2>2. cmd.mode \in CleanupMode => \E c : Gathers(c) /\ Trims(c, cmd', view)
    BY <1>3, CommandTrims
  <2> QED BY <2>1, <2>2 DEF Trims
<1> QED BY <1>1, <1>2, <1>3

\* A step keeps both roles declared before the first create.
LEMMA DeclaredStep ==
  ASSUME TypeOK, TypeOK', IInv, IInv', Declared, Named, Accounted,
         AcquireStep \/ ProviderStep \/ CommandStep
  PROVE  Declared'
<1>0. cmd \in Cmd /\ cmd' \in Cmd /\ cmd.role \in Role
  BY CmdFields DEF TypeOK, LeaseTypeOK
<1>a. \A r \in Role : journal[r].state # "none" => journal'[r].state # "none"
  BY StaysDeclared
<1>b. JournalUsable => JournalUsable'
  BY <1>a DEF JournalUsable
<1>1. (\E r \in Role : journal'[r].state = "none") => \A r \in Role : Untouched(r)'
  <2> SUFFICES ASSUME NEW q \in Role, journal'[q].state = "none" PROVE \A r \in Role : Untouched(r)'
    OBVIOUS
  <2>1. journal[q].state = "none"
    BY <1>a
  <2>2. ~JournalUsable
    BY <2>1 DEF JournalUsable
  <2>3. ~At("post")
    BY <2>2 DEF Declared, At, CreatePlaces
  <2>4. pending' = pending /\ created' = created
    BY <2>3, AccountMoves
  <2>5. \A r \in Role : Untouched(r)
    BY <2>1 DEF Declared
  <2> QED BY <2>4, <2>5 DEF Untouched
<1>2. ASSUME cmd'.at \in CreatePlaces \cup {"creating", "construct"} PROVE AcquireStep /\ Onward
  <2>1. cmd'.at \in Plain
    BY <1>2 DEF Plain
  <2>2. cmd'.at \in AcquirePlaces
    BY <1>2 DEF AcquirePlaces
  <2>3. cmd'.mode = "acquire"
    BY <2>2 DEF IInv, Control
  <2> QED BY <2>1, <2>3, OnlyOnward
<1>3. ASSUME cmd'.at \in CreatePlaces \cup {"creating"} PROVE JournalUsable'
  <2>0. Onward
    BY <1>2, <1>3
  <2>1. CASE cmd.at \in CreatePlaces \cup {"creating"}
    BY <1>b, <2>1 DEF Declared
  <2>2. CASE At("construct") /\ cmd.role = "sink" /\ journal'["sink"].state # "none"
    <3>1. journal["outline"].state # "none" /\ "outline" \in Role
      BY <2>2 DEF Declared, Role
    <3>2. journal'["outline"].state # "none"
      BY <1>a, <3>1
    <3> QED BY <2>2, <3>2 DEF JournalUsable, Role
  <2>3. \/ cmd.at \in CreatePlaces \cup {"creating"}
        \/ At("construct") /\ cmd.role = "sink" /\ journal'["sink"].state # "none"
    BY <1>3, <2>0 DEF Onward, Reaches, At, CreatePlaces
  <2> QED BY <2>1, <2>2, <2>3
<1>4. ASSUME cmd'.at = "construct", cmd'.role = "sink" PROVE journal'["outline"].state # "none"
  <2>1. Onward
    BY <1>2, <1>4
  <2> QED BY <1>4, <2>1 DEF Onward, Reaches, At
<1> QED BY <1>1, <1>3, <1>4 DEF Declared, At

\* No step of a command brings anything into the namespace.
LEMMA AccountedStep ==
  ASSUME Accounted, AcquireStep \/ ProviderStep \/ CommandStep PROVE Accounted'
BY AccountMoves DEF Accounted, Owned

\* The loop that settles roles runs over the roles it was given.
LEMMA SettlingNames ==
  ASSUME NEW c \in Cmd, NEW S \in SUBSET Role, Settling(c, S).at = "settle"
  PROVE  Settling(c, S).todo \cup {Settling(c, S).role} \subseteq S
<1>1. S # {}
  BY DEF Settling, Loop, Cmd
<1>2. First(S) \in S
  BY <1>1 DEF First, Role
<1> QED BY <1>1, <1>2 DEF Settling, Loop, Cmd

\* A reap that a lease has started goes on for the same lease; a cleanup's
\* reap ends with the roles without an id, or with lease.json.
Heads(d) ==
    /\ d.at \in ReapPlaces \cup {"settled", "unproven"} /\ d.level \in {"lease", "bundle"}
            => d.level = cmd.level /\ d.role = cmd.role /\ cmd.at \in ReapPlaces
    /\ d.at = "settle" => d.todo \cup {d.role} \subseteq UnknownRoles
    /\ d.at = "file" => cmd.mode = "active"

\* Where a step of an exact deletion or of a reap leads.
LEMMA ProviderHeads == ASSUME TypeOK, IInv, ProviderStep PROVE Heads(cmd')
<1>0. cmd \in Cmd /\ view \in [Role -> Record] /\ UnknownRoles \in SUBSET Role
  BY DEF TypeOK, LeaseTypeOK, UnknownRoles
<1> DEFINE Mine(c) == c \in Cmd /\ c.at = cmd.at /\ c.level = cmd.level /\ c.role = cmd.role
                      /\ c.mode = cmd.mode
<1>a. /\ Spent(cmd) \in Cmd /\ Spent(cmd).at = cmd.at /\ Spent(cmd).level = cmd.level
      /\ Spent(cmd).role = cmd.role /\ Spent(cmd).mode = cmd.mode
  BY <1>0, SpentLeads
<1>b. \A d : Back(cmd, d) => Heads(d)
  BY DEF Back, Heads, ReapPlaces
<1>c. \A d : d.at \in {"verify", "closed", "unverified", "failed"} => Heads(d)
  BY DEF Heads, ReapPlaces
<1>d. ASSUME NEW c, Mine(c), cmd.at \in ReapPlaces
      PROVE  /\ Heads(Proved(c)) /\ Heads(Unproved(c)) /\ Heads(NextCandidate(c))
             /\ Heads([c EXCEPT !.at = "reapverify"]) /\ Heads([c EXCEPT !.at = "assert"])
  <2>1. \A p \in {"settled", "unproven", "failed", "relist", "reap", "reapverify", "assert"} :
          Heads([c EXCEPT !.at = p])
    BY <1>d DEF Heads, Cmd, ReapPlaces
  <2>2. c.mode = "active" => Heads([c EXCEPT !.at = "file"])
    BY <1>d DEF Heads, Cmd, ReapPlaces
  <2>3. Heads(RoundOver(c))
    <3>1. Back(c, RoundOver(c))
      BY <1>d, UnwindLeads
    <3> QED BY <3>1 DEF Back, Heads, ReapPlaces
  <2>4. Heads(Settling(c, UnknownRoles))
    <3>1. Settling(c, UnknownRoles).at \in {"settle", "failed", "ok"}
      BY <1>d, SettlingLeads
    <3>2. Settling(c, UnknownRoles).at = "settle" =>
            Settling(c, UnknownRoles).todo \cup {Settling(c, UnknownRoles).role} \subseteq UnknownRoles
      BY <1>0, <1>d, SettlingNames
    <3> QED BY <3>1, <3>2 DEF Heads, ReapPlaces
  <2>5. Heads(Proved(c))
    <3>1. \/ Proved(c) = [c EXCEPT !.at = "settled"] \/ Proved(c) = RoundOver(c)
          \/ c.mode = "active" /\ Proved(c) = [c EXCEPT !.at = "file"]
          \/ Proved(c) = Settling(c, UnknownRoles)
      BY DEF Proved
    <3> QED BY <2>1, <2>2, <2>3, <2>4, <3>1
  <2>6. Heads(Unproved(c))
    <3>1. \/ Unproved(c) = [c EXCEPT !.at = "unproven"] \/ Unproved(c) = RoundOver(c)
          \/ Unproved(c) = [c EXCEPT !.at = "failed"]
      BY DEF Unproved
    <3> QED BY <2>1, <2>3, <3>1
  <2>7. Heads(NextCandidate(c))
    <3>1. NextCandidate(c) = [c EXCEPT !.at = "relist"] \/ NextCandidate(c) = [c EXCEPT !.at = "reap"]
      BY DEF NextCandidate
    <3> QED BY <2>1, <3>1
  <2> QED BY <2>1, <2>5, <2>6, <2>7
<1>1. CASE Delete \/ Verify
  <2>1. \/ cmd' = [Spent(cmd) EXCEPT !.at = "verify"]
        \/ cmd' = [Spent(cmd) EXCEPT !.at = "closed"]
        \/ cmd' = [Spent(cmd) EXCEPT !.at = "unverified"]
        \/ cmd' = LeaseOver(FALSE)
    BY <1>1 DEF Delete, Verify, DeleteFailed
  <2>2. CASE cmd' = LeaseOver(FALSE)
    <3>1. Back(cmd, LeaseOver(FALSE))
      BY <1>0, LeaseOverLeads
    <3> QED BY <1>b, <2>2, <3>1
  <2>3. CASE cmd' # LeaseOver(FALSE)
    <3>1. cmd'.at \in {"verify", "closed", "unverified"}
      BY <1>a, <2>1, <2>3 DEF Cmd
    <3> QED BY <3>1 DEF Heads, ReapPlaces
  <2> QED BY <2>2, <2>3
<1>2. CASE List
  <2>1. cmd.at = "list" /\ "list" \in ReapPlaces
    BY <1>2 DEF List, At, ReapPlaces
  <2> DEFINE c == [Spent(cmd) EXCEPT !.cands = Tagged(cmd.active)]
  <2>2. Tagged(cmd.active) \in SUBSET ServiceId
    BY DEF Tagged, TypeOK, AccountTypeOK
  <2>3. Mine(c) /\ Mine(Spent(cmd))
    BY <1>0, <1>a, <2>2 DEF Cmd
  <2>4. cmd' = Unproved(Spent(cmd)) \/ cmd' = NextCandidate(c)
    BY <1>2 DEF List
  <2> HIDE DEF c, Mine
  <2> QED BY <1>d, <2>1, <2>3, <2>4
<1>3. CASE ReapDelete
  <2>1. cmd.at = "reap" /\ "reap" \in ReapPlaces
    BY <1>3 DEF ReapDelete, At, ReapPlaces
  <2>2. PICK id \in cmd.cands :
          LET c == [Spent(cmd) EXCEPT !.cands = @ \ {id}, !.deleted = @ \cup {id}, !.target = id]
          IN  \/ cmd' = [c EXCEPT !.at = "reapverify"]
              \/ cmd' = Unproved(c)
              \/ cmd' = NextCandidate([cmd EXCEPT !.cands = @ \ {id}])
    BY <1>3 DEF ReapDelete
  <2> DEFINE c == [Spent(cmd) EXCEPT !.cands = @ \ {id}, !.deleted = @ \cup {id}, !.target = id]
             e == [cmd EXCEPT !.cands = @ \ {id}]
  <2>3. id \in ServiceId
    BY <1>0, CmdFields
  <2>4. Mine(c)
    BY <1>0, <1>a, <2>3 DEF Cmd, Id
  <2>5. Mine(e)
    BY <1>0 DEF Cmd
  <2>6. \/ cmd' = [c EXCEPT !.at = "reapverify"] \/ cmd' = Unproved(c)
        \/ cmd' = NextCandidate(e)
    BY <2>2
  <2> HIDE DEF c, e, Mine
  <2> QED BY <1>d, <2>1, <2>4, <2>5, <2>6
<1>4. CASE ReapVerify
  <2> DEFINE c == [Spent(cmd) EXCEPT !.target = NoId]
  <2>1. cmd.at = "reapverify" /\ "reapverify" \in ReapPlaces
    BY <1>4 DEF ReapVerify, At, ReapPlaces
  <2>2. Mine(c)
    BY <1>0, <1>a DEF Cmd, Id
  <2>3. cmd' = Unproved(c) \/ cmd' = NextCandidate(c)
    BY <1>4 DEF ReapVerify
  <2> HIDE DEF c, Mine
  <2> QED BY <1>d, <2>1, <2>2, <2>3
<1>5. CASE Relist \/ AssertAbsent
  <2>1. cmd.at \in ReapPlaces
    BY <1>5 DEF Relist, AssertAbsent, At, ReapPlaces
  <2>2. \/ cmd' = Unproved(Spent(cmd)) \/ cmd' = [Spent(cmd) EXCEPT !.at = "assert"]
        \/ cmd' = Proved(Spent(cmd))
    BY <1>5 DEF Relist, AssertAbsent
  <2>3. Mine(Spent(cmd))
    BY <1>a
  <2> HIDE DEF Mine
  <2> QED BY <1>d, <2>1, <2>2, <2>3
<1> QED BY <1>1, <1>2, <1>3, <1>4, <1>5 DEF ProviderStep

\* Every step keeps what is known of the ids.
LEMMA NamedStep ==
  ASSUME TypeOK, TypeOK', IInv, IInv', Named, Accounted,
         AcquireStep \/ ProviderStep \/ CommandStep
  PROVE  Named'
<1>0. /\ cmd \in Cmd /\ cmd' \in Cmd /\ cmd.role \in Role /\ view \in [Role -> Record]
      /\ cmd.todo \in SUBSET Role /\ "outline" \in Role /\ "sink" \in Role
  BY CmdFields DEF TypeOK, LeaseTypeOK, Role
<1>a. /\ \A r \in Role : view[r].id # NoId => view'[r].id # NoId
      /\ \A r \in Role : ~CreateAnswered => view'[r].id = view[r].id
      /\ CreateAnswered => view'[cmd.role].id # NoId
  BY ViewMoves
<1>b. cmd'.mode = cmd.mode
  BY StepMode
<1>c. ASSUME cmd'.at \in CreatePlaces \cup {"creating", "handoff", "issue", "install"}
      PROVE  AcquireStep /\ Onward
  <2>1. cmd'.at \in Plain
    BY <1>c DEF Plain
  <2>2. cmd'.at \in AcquirePlaces
    BY <1>c DEF AcquirePlaces
  <2>3. cmd'.mode = "acquire"
    BY <2>2 DEF IInv, Control
  <2> QED BY <2>1, <2>3, OnlyOnward
<1>1. ASSUME cmd'.at \in {"record", "ready", "healthy"} PROVE view'[cmd'.role].id # NoId
  <2>0. Onward
    BY <1>1, <1>c DEF CreatePlaces
  <2>1. cmd'.role = cmd.role /\ (CreateAnswered \/ cmd.at \in {"record", "ready"})
    BY <1>1, <2>0 DEF Onward, Reaches, At
  <2> QED BY <1>0, <1>a, <2>1 DEF Named
<1>2. ASSUME cmd'.at \in CreatePlaces \cup {"creating"}, cmd'.role = "sink"
      PROVE  view'["outline"].id # NoId
  <2>0. Onward
    BY <1>2, <1>c
  <2>1. \/ cmd.role = "sink" /\ cmd.at \in CreatePlaces \cup {"creating"}
        \/ cmd.role = "outline" /\ cmd.at = "healthy"
    BY <1>2, <2>0 DEF Onward, Reaches, At, CreatePlaces
  <2> QED BY <1>0, <1>a, <2>1 DEF Named
<1>3. ASSUME cmd'.at \in {"handoff", "issue", "install"} PROVE \A r \in Role : view'[r].id # NoId
  <2>0. Onward
    BY <1>3, <1>c
  <2>1. \/ cmd.at \in {"handoff", "issue", "install"}
        \/ cmd.at = "healthy" /\ cmd.role = "sink"
    BY <1>3, <2>0 DEF Onward, Reaches, At
  <2>2. CASE cmd.at \in {"handoff", "issue", "install"}
    BY <1>a, <2>2 DEF Named
  <2>3. CASE cmd.at = "healthy" /\ cmd.role = "sink"
    <3>1. view["sink"].id # NoId /\ view["outline"].id # NoId
      BY <2>3 DEF Named, CreatePlaces
    <3> QED BY <1>0, <1>a, <3>1 DEF Role
  <2> QED BY <2>1, <2>2, <2>3
<1>4. ASSUME cmd'.at \in ReapPlaces \cup {"settled", "unproven"}, cmd'.level \in {"lease", "bundle"}
      PROVE  view'[cmd'.role].id = NoId
  <2>1. CASE AcquireStep
    <3>1. cmd'.at = "list"
      <4>1. cmd'.at \in AfterAcquire \cup {"construct"}
        BY <2>1, AcquireLeads DEF AcquireGoes, IInv
      <4> QED BY <1>4, <4>1, AfterAcquirePlaces DEF ReapPlaces
    <3>2. ~Onward
      BY <3>1 DEF Onward, Reaches, At
    <3> QED BY <1>4, <2>1, <3>1, <3>2, AcquireOnward
  <2>2. CASE ProviderStep
    <3>1. cmd'.role = cmd.role /\ cmd'.level = cmd.level /\ cmd.at \in ReapPlaces
      BY <1>4, <2>2, ProviderHeads DEF Heads
    <3>2. view' = view
      BY <2>2, ProviderDecided
    <3> QED BY <1>4, <3>1, <3>2 DEF Named
  <2>3. CASE CommandStep
    <3>1. cmd'.mode \in CleanupMode \cup {"begin"}
      BY <1>b, <2>3, StepMode
    <3>2. cmd'.mode \in CleanupMode \cup {"acquire"}
      BY <1>4 DEF IInv, Control, AcquirePlaces
    <3>3. cmd'.mode \in CleanupMode
      BY <3>1, <3>2
    <3> QED BY <1>4, <3>3 DEF IInv, Control
  <2> QED BY <2>1, <2>2, <2>3
<1>5. ASSUME cmd'.at = "settle" PROVE \A r \in cmd'.todo \cup {cmd'.role} : view'[r].id = NoId
  <2>1. CASE AcquireStep
    <3>1. cmd'.at \in AfterAcquire \cup {"construct"}
      BY <2>1, AcquireLeads DEF AcquireGoes, IInv
    <3> QED BY <1>5, <3>1, AfterAcquirePlaces
  <2>2. CASE ProviderStep
    <3>1. cmd'.todo \cup {cmd'.role} \subseteq UnknownRoles
      BY <1>5, <2>2, ProviderHeads DEF Heads
    <3>2. view' = view
      BY <2>2, ProviderDecided
    <3> QED BY <3>1, <3>2 DEF UnknownRoles
  <2>3. CASE CommandStep
    <3>1. cmd.at \in {"settle", "file"} /\ view' = view
      BY <1>5, <2>3, CommandLeads DEF CommandGoes, IInv
    <3>2. Settle
      <4>1. RecordAbsence => cmd'.at \in {"ok", "failed"}
        BY <1>0 DEF RecordAbsence, WriteLease, To, Cmd
      <4> QED BY <1>5, <2>3, <3>1, <4>1 DEF CommandStep, Intent, Probe, Redelete, Closed, Unverified,
                Testing, MarkTesting, At
    <3>3. cmd' = Settling(cmd, cmd.todo)
      <4>1. To("failed").at = "failed"
        BY <1>0 DEF To, Cmd
      <4> QED BY <1>5, <3>2, <4>1 DEF Settle, AppendRecord
    <3>4. cmd'.todo \cup {cmd'.role} \subseteq cmd.todo
      BY <1>0, <1>5, <3>3, SettlingNames
    <3>5. cmd.at = "settle"
      BY <3>2 DEF Settle, At
    <3> QED BY <3>1, <3>4, <3>5 DEF Named, At
  <2> QED BY <2>1, <2>2, <2>3
<1>6. ASSUME cmd'.mode \notin {"idle", "begin"}, NEW r \in Role, view'[r].id = NoId
      PROVE  journal'[r].id = NoId
  <2>1. view[r].id = NoId /\ journal[r].id = NoId
    BY <1>6, <1>a, <1>b DEF Named
  <2>2. ~At("testing")
    BY <1>6, <1>b DEF IInv, Control, At
  <2>3. journal'[r] = journal[r] \/ (r = cmd.role /\ Writes(journal'[r]))
    BY JournalMoves
  <2> QED BY <2>1, <2>2, <2>3 DEF Writes
<1> QED BY <1>1, <1>2, <1>3, <1>4, <1>5, <1>6 DEF Named, At

\* The loop that records the intent runs over the roles it was given.
LEMMA IntendingNames ==
  ASSUME NEW c \in Cmd, NEW S \in SUBSET Role, S # {}, NEW v
  PROVE  /\ Intending(c, S, v).at = "intent"
         /\ Intending(c, S, v).todo \cup {Intending(c, S, v).role} = S
         /\ Intending(c, S, v).calls = c.calls
<1>1. First(S) \in S
  BY DEF First, Role
<1> QED BY <1>1 DEF Intending, Loop, Cmd

\* Every step keeps lease.json and the journal in agreement.
LEMMA IssuedStep ==
  ASSUME TypeOK, TypeOK', IInv, IInv', Named, Issued, Found, Accounted,
         AcquireStep \/ ProviderStep \/ CommandStep
  PROVE  Issued'
<1>0. /\ cmd \in Cmd /\ cmd' \in Cmd /\ cmd.role \in Role /\ view \in [Role -> Record]
      /\ lease \in LeaseFile /\ lease' \in LeaseFile /\ "outline" \in Role /\ "sink" \in Role
  BY CmdFields DEF TypeOK, LeaseTypeOK, Role
<1>a. \A r \in Role : view[r].id # NoId => view'[r].id # NoId
  BY ViewMoves
<1>b. cmd'.mode = cmd.mode
  BY StepMode
<1>c. "acquire" \notin CleanupMode /\ "begin" \notin CleanupMode
  BY DEF CleanupMode
<1>d. \A r \in Role : journal'[r] = journal[r] \/ (r = cmd.role /\ Writes(journal'[r]))
  BY JournalMoves
<1>e. ASSUME cmd'.at \in {"issue", "install"} PROVE Onward
  <2>1. cmd'.at \in Plain
    BY <1>e DEF Plain
  <2>2. cmd'.at \in AcquirePlaces
    BY <1>e DEF AcquirePlaces
  <2>3. cmd'.mode = "acquire"
    BY <2>2 DEF IInv, Control
  <2> QED BY <2>1, <2>3, OnlyOnward
<1>1. ASSUME (cmd'.at = "issue" /\ cmd'.role = "sink") \/ cmd'.at = "install"
      PROVE  journal'["outline"].state = "issued" /\ journal'["outline"].id # NoId
  <2>0. Onward
    BY <1>1, <1>e
  <2>1. \/ /\ cmd.at = "issue" /\ cmd.role = "outline"
           /\ journal'["outline"] = Rec("issued", view["outline"].id, "none")
        \/ cmd.at = "issue" /\ cmd.role = "sink"
    BY <1>1, <2>0 DEF Onward, Reaches, At
  <2>2. CASE /\ cmd.at = "issue" /\ cmd.role = "outline"
             /\ journal'["outline"] = Rec("issued", view["outline"].id, "none")
    BY <1>0, <2>2 DEF Rec, Named
  <2>3. CASE cmd.at = "issue" /\ cmd.role = "sink"
    <3>1. journal'["outline"] = journal["outline"]
      BY <1>0, <1>d, <2>3
    <3> QED BY <2>3, <3>1 DEF Issued, At
  <2> QED BY <2>1, <2>2, <2>3
<1>2. ASSUME cmd'.at = "install"
      PROVE  journal'["sink"].state = "issued" /\ journal'["sink"].id # NoId
  <2>0. Onward
    BY <1>2, <1>e
  <2>1. /\ cmd.at = "issue" /\ cmd.role = "sink"
        /\ journal'["sink"] = Rec("issued", view["sink"].id, "none")
    BY <1>2, <2>0 DEF Onward, Reaches, At
  <2> QED BY <1>0, <2>1 DEF Rec, Named
<1>3. ASSUME At("install") PROVE cmd.mode = "acquire"
  BY <1>3 DEF IInv, Control, At, AcquirePlaces
<1>4. ASSUME At("mark") PROVE cmd.mode = "begin" /\ lease.state # "none"
  BY <1>4 DEF IInv, Control, At, Found
<1>5. ASSUME At("file") PROVE cmd.mode = "active" /\ lease.state # "none"
  BY <1>5 DEF Found, At
<1>6. ASSUME lease.state # "none"
      PROVE  /\ cmd.at \notin AcquirePlaces \ {"closing", "settled", "unproven"}
             /\ \A r \in Role : /\ lease.ids[r] # NoId /\ journal[r].id # NoId
                                /\ cmd.mode \notin {"idle", "begin"} => view[r].id # NoId
  BY <1>6 DEF Found, Issued
<1>7. ASSUME lease'.state # "none", NEW r \in Role
      PROVE  /\ lease'.ids[r] # NoId /\ journal'[r].id # NoId
             /\ journal'[r].state \in {"issued", "testing", "deleting", "absent"}
             /\ journal'[r].state = "absent" => journal'[r].result = "verified"
             /\ cmd'.mode \notin {"idle", "begin"} => view'[r].id # NoId
  <2>1. CASE lease.state = "none"
    <3>1. /\ At("install") /\ UNCHANGED <<journal, view>>
          /\ lease'.ids[r] = view[r].id
      BY <1>4, <1>5, <1>7, <2>1, LeaseMoves
    <3>2. /\ journal[r].state = "issued" /\ journal[r].id # NoId
      BY <3>1 DEF Issued, At, Role
    <3>3. view[r].id # NoId
      BY <3>1 DEF Named, At
    <3> QED BY <3>1, <3>2, <3>3
  <2>2. CASE lease.state # "none"
    <3>0. ~At("install")
      BY <1>6, <2>2 DEF At, AcquirePlaces
    <3>1. lease'.ids = lease.ids
      BY <3>0, LeaseMoves
    <3>2. /\ lease.ids[r] # NoId /\ journal[r].id # NoId
          /\ journal[r].state \in {"issued", "testing", "deleting", "absent"}
          /\ journal[r].state = "absent" => journal[r].result = "verified"
          /\ cmd.mode \notin {"idle", "begin"} => view[r].id # NoId
      BY <2>2 DEF Issued
    <3>3. cmd'.mode \notin {"idle", "begin"} => view'[r].id # NoId
      BY <1>a, <1>b, <3>2
    <3>4. CASE journal'[r] = journal[r]
      BY <3>1, <3>2, <3>3, <3>4
    <3>5. CASE journal'[r] # journal[r]
      <4>1. r = cmd.role /\ Writes(journal'[r])
        BY <1>d, <3>5
      <4>2. At("testing") \/ cmd.mode \notin {"idle", "begin"}
        <5>1. At("mark") => journal' = journal
          <6>1. ASSUME At("mark") PROVE journal' = journal
            <7>1. MarkTesting
              BY <6>1 DEF AcquireStep, Construct, Creating, BundleDeadline, Post, CreateAnswered,
                CreateRefused, CreateAnswerLost, RecordHandle, WaitUntilReady, Healthy, HandOff,
                MarkIssued, InstallLease, AlreadyAbsent, Closing, LeaseClosed, LeaseSettled,
                LeaseUnproven, ProviderStep, Delete, Verify, List, ReapDelete, ReapVerify, Relist,
                AssertAbsent, CommandStep, Intent, Probe, Redelete, Closed, Unverified, Settle,
                RecordAbsence, Testing, At
            <7> QED BY <7>1 DEF MarkTesting
          <6> QED BY <6>1
        <5> QED BY <1>c, <3>5, <5>1, StepMode DEF At, CleanupMode
      <4>3. journal'[r].id # NoId
        BY <3>2, <4>1, <4>2 DEF Writes
      <4>4. /\ journal'[r].state \in {"issued", "testing", "deleting", "absent"}
            /\ journal'[r].state = "absent" => journal'[r].result = "verified"
        BY <1>6, <2>2, <4>1, <4>3 DEF Writes
      <4> QED BY <3>1, <3>2, <3>3, <4>3, <4>4
    <3> QED BY <3>4, <3>5
  <2> QED BY <2>1, <2>2
<1>8. ASSUME lease'.state = "absent", NEW r \in Role PROVE journal'[r].state \in {"deleting", "absent"}
  <2>1. CASE lease.state = "absent"
    <3>1. journal[r].state \in {"deleting", "absent"}
      BY <2>1 DEF Issued
    <3>2. ~At("testing")
      <4>1. cmd.mode # "begin"
        BY <2>1 DEF Found
      <4> QED BY <4>1 DEF IInv, Control, At
    <3>3. cmd.at \notin AcquirePlaces \ {"closing", "settled", "unproven"}
      BY <1>6, <2>1
    <3> QED BY <1>d, <3>1, <3>2, <3>3 DEF Writes
  <2>2. CASE lease.state # "absent"
    <3>1. At("file") /\ journal' = journal
      BY <1>8, <2>2, LeaseMoves
    <3> QED BY <1>5, <3>1 DEF Found, At
  <2> QED BY <2>1, <2>2
<1> QED BY <1>1, <1>2, <1>7, <1>8 DEF Issued, At

\* Every step keeps what a command can find in lease.json.
LEMMA FoundStep ==
  ASSUME TypeOK, TypeOK', IInv, IInv', Named, Found, Accounted, UNCHANGED step,
         AcquireStep \/ ProviderStep \/ CommandStep
  PROVE  Found'
<1>0. /\ cmd \in Cmd /\ cmd' \in Cmd /\ cmd.role \in Role /\ cmd.todo \in SUBSET Role
      /\ view \in [Role -> Record] /\ journal \in [Role -> Record]
  BY CmdFields DEF TypeOK, LeaseTypeOK
<1>a. cmd'.mode = cmd.mode /\ step' # "acquire" /\ cmd.at \notin {"idle", "ok", "failed"}
  BY StepMode
<1>b. /\ At("install") => cmd.mode = "acquire"
      /\ At("mark") => cmd.mode = "begin"
      /\ At("file") => cmd.mode = "active"
  BY DEF IInv, Control, At, AcquirePlaces, Found
<1>c. \A r \in Role : journal'[r] = journal[r] \/ (r = cmd.role /\ Writes(journal'[r]))
  BY JournalMoves
<1>d. "active" \in CleanupMode /\ "acquire" \notin CleanupMode /\ "begin" \notin CleanupMode
  BY DEF CleanupMode
<1>1. ASSUME cmd'.at \in AcquirePlaces \ {"closing", "settled", "unproven"} PROVE lease'.state = "none"
  <2>1. cmd'.at \in Plain
    BY <1>1 DEF Plain, AcquirePlaces, CreatePlaces
  <2>2. cmd'.mode = "acquire"
    BY <1>1 DEF IInv, Control
  <2>3. Onward
    BY <2>1, <2>2, OnlyOnward
  <2>4. cmd.at \in AcquirePlaces \ {"closing", "settled", "unproven"} /\ ~At("install")
    BY <2>3 DEF Onward, At, AcquirePlaces, CreatePlaces
  <2>5. lease.state = "none"
    BY <2>4 DEF Found
  <2>6. lease' = lease
    BY <1>a, <1>b, <2>2, <2>4, LeaseMoves
  <2> QED BY <2>5, <2>6
<1>2. /\ cmd'.mode = "recover" => lease'.state = "none"
      /\ cmd'.mode = "begin" => lease'.state \in {"issued", "testing"}
      /\ cmd'.mode = "acquire" => lease'.state \in {"none", "issued"}
      /\ cmd'.mode = "active" => lease'.state # "none"
  BY <1>a, <1>b, LeaseMoves DEF Found
<1>3. ASSUME cmd'.at = "file" PROVE cmd'.mode = "active"
  <2>1. CASE AcquireStep
    <3>1. cmd'.at \in AfterAcquire \cup {"construct"}
      BY <2>1, AcquireLeads DEF AcquireGoes, IInv
    <3> QED BY <1>3, <3>1, AfterAcquirePlaces
  <2>2. CASE ProviderStep
    BY <1>3, <1>a, <2>2, ProviderHeads DEF Heads
  <2>3. CASE CommandStep
    BY <1>3, <2>3, CommandLeads DEF CommandGoes, IInv
  <2> QED BY <2>1, <2>2, <2>3
<1>4. ASSUME cmd'.mode = "active", cmd'.at # "failed", NEW r \in Role
      PROVE  \/ journal'[r].state \in {"deleting", "absent"}
             \/ cmd'.at = "intent" /\ r \in cmd'.todo \cup {cmd'.role}
  <2>0. cmd.mode = "active" /\ cmd.mode \in CleanupMode
    BY <1>4, <1>a, <1>d
  <2>1. \/ journal[r].state \in {"deleting", "absent"}
        \/ At("intent") /\ r \in cmd.todo \cup {cmd.role}
    BY <1>a, <2>0 DEF Found, At
  <2>2. \/ journal'[r] = journal[r]
        \/ journal'[r].state \in {"deleting", "absent"}
    BY <1>c, <2>0 DEF Writes
  <2>3. CASE ~At("intent") \/ journal[r].state \in {"deleting", "absent"}
    BY <2>1, <2>2, <2>3
  <2>4. CASE At("intent") /\ r \in cmd.todo \cup {cmd.role}
    <3>1. Intent
      BY <2>4 DEF AcquireStep, Construct, Creating, BundleDeadline, Post, CreateAnswered,
                CreateRefused, CreateAnswerLost, RecordHandle, WaitUntilReady, Healthy, HandOff,
                MarkIssued, InstallLease, AlreadyAbsent, Closing, LeaseClosed, LeaseSettled,
                LeaseUnproven, ProviderStep, Delete, Verify, List, ReapDelete, ReapVerify, Relist,
                AssertAbsent, CommandStep, Probe, Redelete, Closed, Unverified, Settle,
                RecordAbsence, Testing, MarkTesting, At
    <3> DEFINE rec == Rec("deleting", view[cmd.role].id, "none")
               ok == Intending(cmd, cmd.todo, view)
    <3>2. AppendRecord(cmd.role, rec, ok, To("failed")) /\ rec.state = "deleting"
      BY <3>1 DEF Intent, Rec
    <3>3. To("failed").at = "failed"
      BY <1>0 DEF To, Cmd
    <3> HIDE DEF rec, ok
    <3>4. cmd' = ok /\ journal'[cmd.role] = rec
      BY <1>0, <1>4, <3>2, <3>3, AppendWrites
    <3>5. CASE r = cmd.role
      BY <3>2, <3>4, <3>5
    <3>6. CASE r \in cmd.todo
      <4>1. cmd'.at = "intent" /\ cmd'.todo \cup {cmd'.role} = cmd.todo
        <5>1. cmd.todo # {}
          BY <3>6
        <5>2. cmd \in Cmd /\ cmd.todo \in SUBSET Role
          BY <1>0
        <5>3. /\ Intending(cmd, cmd.todo, view).at = "intent"
              /\ Intending(cmd, cmd.todo, view).todo \cup {Intending(cmd, cmd.todo, view).role} = cmd.todo
          BY <5>1, <5>2, IntendingNames
        <5> QED BY <3>4, <5>3 DEF ok
      <4> QED BY <3>6, <4>1
    <3> QED BY <2>4, <3>5, <3>6
  <2> QED BY <2>1, <2>3, <2>4
<1> QED BY <1>a, <1>1, <1>2, <1>3, <1>4 DEF Found, At

-----------------------------------------------------------------------------
(***************************************************************************)
(* The operations a cleanup spends.                                        *)
(***************************************************************************)

\* A loop has one role less to go after each round.
LEMMA OneLess ==
  ASSUME NEW S \in SUBSET Role, S # {}
  PROVE  Cardinality(S \ {First(S)}) = Cardinality(S) - 1
<1>1. First(S) \in S
  BY DEF First, Role
<1>2. IsFiniteSet(S)
  BY RoleFinite, FS_Subset
<1> QED BY <1>1, <1>2, FS_RemoveElement

\* Operations left for the roles that remain and for the final proof.
LEMMA DeletingFits ==
  ASSUME NEW c \in Cmd, NEW S \in SUBSET Role, NEW v \in [Role -> Record], NEW rest \in Nat,
         c.calls + 3 * Cardinality(S) + rest <= 9
  PROVE  LET d == Deleting(c, S, v) IN
         /\ d.calls = c.calls /\ d.mode = c.mode
         /\ \/ d.at \in {"failed", "list"} /\ d.calls + rest <= 9
            \/ d.at \in {"probe", "delete"} /\ d.calls + 3 * Cardinality(d.todo) + 3 + rest <= 9
<1>0. c.calls \in Nat /\ Cardinality(S) \in 0..2
  BY RoleCount DEF Cmd
<1>1. CASE S = {}
  <2>1. Deleting(c, S, v) = Proving(c, v)
    BY <1>1 DEF Deleting, Loop
  <2>2. /\ Proving(c, v).calls = c.calls /\ Proving(c, v).mode = c.mode
        /\ Proving(c, v).at \in {"failed", "list"}
    BY DEF Proving, Reap, Cmd
  <2> QED BY <1>0, <2>1, <2>2
<1>2. CASE S # {}
  <2> DEFINE d == Deleting(c, S, v)
  <2>1. /\ d.calls = c.calls /\ d.mode = c.mode /\ d.at \in {"probe", "delete"}
        /\ d.todo = S \ {First(S)}
    BY <1>2 DEF Deleting, Loop, Cmd
  <2> HIDE DEF d
  <2>2. Cardinality(d.todo) = Cardinality(S) - 1
    BY <1>2, <2>1, OneLess
  <2>3. d.calls + 3 * Cardinality(d.todo) + 3 + rest <= 9
    BY <1>0, <2>1, <2>2
  <2> QED BY <2>1, <2>3 DEF d
<1> QED BY <1>1, <1>2

\* The roles with an id and those without are the two roles there are.
LEMMA KnownAndUnknown ==
  ASSUME NEW v \in [Role -> Record], NEW m
  PROVE  /\ Cardinality(NeedsDelete(m, v)) + Cardinality(Unknown(v)) <= 2
         /\ NeedsDelete(m, v) \in SUBSET Role /\ Unknown(v) \in SUBSET Role
<1> DEFINE A == NeedsDelete(m, v)
           B == Unknown(v)
<1>1. A \in SUBSET Role /\ B \in SUBSET Role /\ A \cap B = {}
  BY DEF NeedsDelete, Unknown
<1> HIDE DEF A, B
<1>2. IsFiniteSet(A) /\ IsFiniteSet(B)
  BY <1>1, RoleFinite, FS_Subset
<1>3. Cardinality(A \cup B) = Cardinality(A) + Cardinality(B) - Cardinality(A \cap B)
  BY <1>2, FS_Union
<1>4. A \cup B \in SUBSET Role
  BY <1>1
<1>5. Cardinality(A) \in 0..2 /\ Cardinality(B) \in 0..2 /\ Cardinality(A \cup B) \in 0..2
  BY <1>1, <1>4, RoleCount
<1>6. Cardinality(A \cap B) = 0
  BY <1>1, FS_EmptySet
<1>7. Cardinality(A) + Cardinality(B) <= 2
  BY <1>3, <1>5, <1>6
<1> QED BY <1>1, <1>7 DEF A, B

\* A cleanup that has spent nothing yet has enough for both roles.
LEMMA IntendingFits ==
  ASSUME NEW c \in Cmd, NEW S \in SUBSET Role, NEW v \in [Role -> Record], c.calls = 0,
         NEW rest \in Nat, rest = 3 + 2 * Cardinality(Unknown(v))
  PROVE  LET d == Intending(c, S, v) IN
         /\ d.mode = c.mode
         /\ \/ d.at = "intent" /\ d.calls = 0
            \/ d.at \in {"failed", "list"} /\ d.calls + rest <= 9
            \/ d.at \in {"probe", "delete"} /\ d.calls + 3 * Cardinality(d.todo) + 3 + rest <= 9
<1>1. CASE S # {}
  BY <1>1 DEF Intending, Loop, Cmd
<1>2. CASE S = {}
  <2> DEFINE A == NeedsDelete(c.mode, v)
  <2>1. Intending(c, S, v) = Deleting(c, A, v)
    BY <1>2 DEF Intending, Loop
  <2>2. A \in SUBSET Role /\ Cardinality(A) + Cardinality(Unknown(v)) <= 2
        /\ Unknown(v) \in SUBSET Role
    BY KnownAndUnknown
  <2> HIDE DEF A
  <2>3. Cardinality(A) \in 0..2 /\ Cardinality(Unknown(v)) \in 0..2
    BY <2>2, RoleCount
  <2>4. c.calls + 3 * Cardinality(A) + rest <= 9
    BY <2>2, <2>3
  <2> QED BY <2>1, <2>2, <2>4, DeletingFits
<1> QED BY <1>1, <1>2

\* What is left of a cleanup's operations where a deletion loop has led.
Fits(d, n) ==
    \/ d.at \in {"failed", "list"} /\ d.calls + n <= 9
    \/ d.at \in {"probe", "delete"} /\ d.calls + 3 * Cardinality(d.todo) + 3 + n <= 9

\* A loop that fits leaves the count within its bound.
LEMMA FitsCounted ==
  ASSUME cmd' \in Cmd, cmd'.mode \in CleanupMode, Fits(cmd', Rest')
  PROVE  Counted'
<1>1. cmd'.calls \in Nat /\ cmd'.todo \in SUBSET Role
  BY DEF Cmd
<1>2. UnknownRoles' \in SUBSET Role
  BY DEF UnknownRoles
<1>3. Cardinality(cmd'.todo) \in 0..2 /\ Cardinality(UnknownRoles') \in 0..2
  BY <1>1, <1>2, RoleCount
<1>4. Rest' \in Nat
  BY <1>3 DEF Rest
<1>5. cmd'.at \in {"failed", "list", "probe", "delete"}
  BY DEF Fits
<1>6. cmd'.calls <= 9
  BY <1>1, <1>3, <1>4 DEF Fits
<1>7. cmd'.at = "list" => cmd'.calls + Rest' <= 9
  BY DEF Fits
<1>8. cmd'.at \in {"probe", "delete"} => cmd'.calls + 3 * Cardinality(cmd'.todo) + 3 + Rest' <= 9
  BY DEF Fits
<1>9. cmd'.at = "delete" => cmd'.calls + 3 * Cardinality(cmd'.todo) + 2 + Rest' <= 9
  BY <1>1, <1>3, <1>4, <1>8
<1> QED BY <1>5, <1>6, <1>7, <1>8, <1>9 DEF Counted, Ahead, At

\* Nothing but the count itself matters once a cleanup settles or ends.
LEMMA EndCounted ==
  ASSUME cmd'.mode \in CleanupMode, cmd'.calls <= 9, cmd'.at \in {"failed", "ok", "file", "settle"}
  PROVE  Counted'
BY DEF Counted, At

\* A cleanup never spends more than its records allow.
LEMMA ProviderCounted ==
  ASSUME TypeOK, TypeOK', IInv, Counted, Selecting, Accounted, ProviderStep, cmd.mode \in CleanupMode
  PROVE  Counted'
<1>0. /\ cmd \in Cmd /\ cmd' \in Cmd /\ view \in [Role -> Record] /\ cmd.todo \in SUBSET Role
      /\ cmd.calls \in Nat
  BY CmdFields DEF TypeOK, LeaseTypeOK, Cmd
<1>a. cmd.level = "command" /\ view' = view /\ cmd'.mode = cmd.mode /\ cmd.mode # "acquire"
  BY ProviderDecided DEF IInv, Control, Decided, CleanupMode
<1>b. UnknownRoles \in SUBSET Role /\ UnknownRoles' = UnknownRoles
  BY <1>a DEF UnknownRoles
<1>c. Cardinality(cmd.todo) \in 0..2 /\ Cardinality(UnknownRoles) \in 0..2
  BY <1>0, <1>b, RoleCount
<1>d. Rest' = Rest /\ Rest \in Nat
  BY <1>b, <1>c DEF Rest
<1>e. /\ Spent(cmd) = [cmd EXCEPT !.calls = cmd.calls + 1]
      /\ Spent(cmd) \in Cmd /\ Spent(cmd).calls = cmd.calls + 1 /\ Spent(cmd).todo = cmd.todo
      /\ Spent(cmd).mode = cmd.mode /\ Spent(cmd).level = "command" /\ Spent(cmd).cands = cmd.cands
  BY <1>0, <1>a, SpentType DEF Spent, Cmd
<1>f. \A c \in Cmd : \A p : /\ [c EXCEPT !.at = p].at = p /\ [c EXCEPT !.at = p].calls = c.calls
                        /\ [c EXCEPT !.at = p].todo = c.todo /\ [c EXCEPT !.at = p].cands = c.cands
  BY DEF Cmd
<1>m. /\ Spent(cmd).calls = cmd.calls + 1 /\ Spent(cmd).todo = cmd.todo
      /\ Spent(cmd).mode = cmd.mode
  BY <1>e
<1>n. \A p : LET d == [Spent(cmd) EXCEPT !.at = p] IN
               d.at = p /\ d.calls = Spent(cmd).calls /\ d.todo = Spent(cmd).todo
  <2>1. Spent(cmd) \in Cmd
    BY <1>e
  <2> QED BY <1>f, <2>1
<1>g. ASSUME NEW c \in Cmd, c.level = "command", c.calls <= 9, cmd' = Unproved(c) PROVE Counted'
  <2>1. cmd' = [c EXCEPT !.at = "failed"]
    BY <1>g DEF Unproved
  <2>2. cmd'.at = "failed" /\ cmd'.calls = c.calls
    BY <1>f, <2>1
  <2> QED BY <1>a, <1>g, <2>2, EndCounted
<1>h. ASSUME NEW c \in Cmd, cmd' = NextCandidate(c), IsFiniteSet(c.cands),
             c.calls + 2 * Cardinality(c.cands) + 2 <= 9
      PROVE  Counted'
  <2>1. cmd' = [c EXCEPT !.at = IF c.cands = {} THEN "relist" ELSE "reap"]
    BY <1>h DEF NextCandidate
  <2>2. /\ cmd'.calls = c.calls /\ cmd'.cands = c.cands
        /\ cmd'.at = IF c.cands = {} THEN "relist" ELSE "reap"
    BY <1>f, <1>h, <2>1
  <2>3. c.calls \in Nat /\ Cardinality(c.cands) \in Nat
    BY <1>h, FS_CardinalityType DEF Cmd
  <2>4. cmd'.calls <= 9 /\ cmd'.calls + 2 <= 9
    BY <1>h, <2>2, <2>3
  <2>5. cmd'.calls + 2 * Cardinality(cmd'.cands) + 2 <= 9
    BY <1>h, <2>2
  <2> QED BY <1>a, <2>2, <2>4, <2>5 DEF Counted, At
<1>i. IsFiniteSet(cmd.cands)
  <2>1. cmd.cands \subseteq cmd.cands \cup cmd.deleted
    OBVIOUS
  <2> QED BY <2>1, FS_Subset DEF Selecting
<1>j. cmd.calls <= 9
  BY DEF Counted
<1>1. CASE Delete
  <2>1. cmd.calls + 3 * Cardinality(cmd.todo) + 2 + Rest <= 9
    BY <1>1 DEF Counted, Delete, Ahead
  <2>2. /\ cmd'.at \in {"verify", "unverified"} /\ cmd'.calls = cmd.calls + 1 /\ cmd'.todo = cmd.todo
    <3>1. \/ cmd' = [Spent(cmd) EXCEPT !.at = "verify"]
          \/ cmd' = [Spent(cmd) EXCEPT !.at = "unverified"]
      BY <1>1, <1>a, <1>m DEF Delete, DeleteFailed
    <3> QED BY <1>m, <1>n, <3>1
  <2>3. /\ cmd'.calls <= 9 /\ cmd'.calls + 3 * Cardinality(cmd'.todo) + 1 + Rest' <= 9
        /\ cmd'.calls + 3 * Cardinality(cmd'.todo) + 0 + Rest' <= 9
    BY <1>0, <1>c, <1>d, <2>1, <2>2
  <2> QED BY <1>a, <2>2, <2>3 DEF Counted, At, Ahead
<1>2. CASE Verify
  <2>1. cmd.calls + 3 * Cardinality(cmd.todo) + 1 + Rest <= 9
    BY <1>2 DEF Counted, Verify, Ahead
  <2>2. /\ cmd'.at \in {"closed", "unverified"} /\ cmd'.calls = cmd.calls + 1 /\ cmd'.todo = cmd.todo
    <3>1. \/ cmd' = [Spent(cmd) EXCEPT !.at = "closed"]
          \/ cmd' = [Spent(cmd) EXCEPT !.at = "unverified"]
      BY <1>2, <1>a, <1>m DEF Verify, DeleteFailed
    <3> QED BY <1>m, <1>n, <3>1
  <2>3. /\ cmd'.calls <= 9 /\ cmd'.calls + 3 * Cardinality(cmd'.todo) + 0 + Rest' <= 9
    BY <1>0, <1>c, <1>d, <2>1, <2>2
  <2> QED BY <1>a, <2>2, <2>3 DEF Counted, At, Ahead
<1>3. CASE List
  <2>1. cmd.calls + Rest <= 9
    BY <1>3 DEF Counted, List
  <2>2. CASE cmd' = Unproved(Spent(cmd))
    <3>1. Spent(cmd).calls <= 9
      BY <1>0, <1>c, <1>e, <2>1 DEF Rest
    <3> QED BY <1>e, <1>g, <2>2, <3>1
  <2>3. CASE cmd' # Unproved(Spent(cmd))
    <3> DEFINE c == [Spent(cmd) EXCEPT !.cands = Tagged(cmd.active)]
    <3>1. cmd' = NextCandidate(c)
      BY <1>3, <2>3 DEF List
    <3>2. Tagged(cmd.active) \in SUBSET ServiceId
      BY DEF Tagged, TypeOK, AccountTypeOK
    <3>3. c \in Cmd /\ c.calls = cmd.calls + 1 /\ c.cands = Tagged(cmd.active)
      BY <1>e, <3>2 DEF Cmd
    <3> HIDE DEF c
    <3>4. cmd'.cands = c.cands
      BY <1>f, <3>1, <3>3 DEF NextCandidate
    <3>5. IsFiniteSet(c.cands) /\ Cardinality(c.cands) <= Cardinality(UnknownRoles)
      <4>1. cmd.bound <= Cardinality(UnknownRoles) /\ cmd.bound \in Nat
        BY <1>0, <1>3 DEF Selecting, List, Cmd
      <4>2. ~(Cardinality(Tagged(cmd.active)) > cmd.bound)
        BY <1>3, <2>3 DEF List
      <4>3. IsFiniteSet(Tagged(cmd.active))
        BY LiveFinite, FS_Subset DEF Tagged
      <4>4. Cardinality(Tagged(cmd.active)) \in Nat
        BY <4>3, FS_CardinalityType
      <4> QED BY <1>c, <3>3, <4>1, <4>2, <4>3, <4>4
    <3>6. Cardinality(c.cands) \in Nat
      BY <3>5, FS_CardinalityType
    <3>7. c.calls + 2 * Cardinality(c.cands) + 2 <= 9
      BY <1>0, <1>c, <2>1, <3>3, <3>5, <3>6 DEF Rest
    <3> QED BY <1>h, <3>1, <3>3, <3>5, <3>7
  <2> QED BY <2>2, <2>3
<1>4. CASE ReapDelete
  <2>0. cmd.calls + 2 * Cardinality(cmd.cands) + 2 <= 9
    BY <1>4 DEF Counted, ReapDelete
  <2>1. PICK id \in cmd.cands :
          LET c == [Spent(cmd) EXCEPT !.cands = @ \ {id}, !.deleted = @ \cup {id}, !.target = id]
          IN  \/ cmd' = [c EXCEPT !.at = "reapverify"]
              \/ cmd' = Unproved(c)
              \/ cmd' = NextCandidate([cmd EXCEPT !.cands = @ \ {id}])
    BY <1>4 DEF ReapDelete
  <2> DEFINE c == [Spent(cmd) EXCEPT !.cands = @ \ {id}, !.deleted = @ \cup {id}, !.target = id]
             e == [cmd EXCEPT !.cands = @ \ {id}]
  <2>2. id \in ServiceId
    BY <1>0, CmdFields
  <2>3. c \in Cmd /\ c.calls = cmd.calls + 1 /\ c.cands = cmd.cands \ {id} /\ c.level = "command"
    BY <1>e, <2>2 DEF Cmd, Id
  <2>4. e \in Cmd /\ e.calls = cmd.calls /\ e.cands = cmd.cands \ {id}
    BY <1>0 DEF Cmd
  <2>5. \/ cmd' = [c EXCEPT !.at = "reapverify"] \/ cmd' = Unproved(c) \/ cmd' = NextCandidate(e)
    BY <2>1
  <2> HIDE DEF c, e
  <2>6. /\ IsFiniteSet(cmd.cands \ {id}) /\ Cardinality(cmd.cands) \in Nat
        /\ Cardinality(cmd.cands \ {id}) = Cardinality(cmd.cands) - 1
        /\ Cardinality(cmd.cands \ {id}) \in Nat
    <3>1. /\ IsFiniteSet(cmd.cands \ {id}) /\ Cardinality(cmd.cands \ {id}) = Cardinality(cmd.cands) - 1
      BY <1>i, <2>1, FS_RemoveElement
    <3> QED BY <1>i, <3>1, FS_CardinalityType
  <2>7. CASE cmd' = [c EXCEPT !.at = "reapverify"]
    <3>1. cmd'.at = "reapverify" /\ cmd'.calls = cmd.calls + 1 /\ cmd'.cands = cmd.cands \ {id}
      BY <1>f, <2>3, <2>7
    <3>2. cmd'.calls <= 9 /\ cmd'.calls + 2 * Cardinality(cmd'.cands) + 3 <= 9
      BY <1>0, <2>0, <2>6, <3>1
    <3> QED BY <1>a, <3>1, <3>2 DEF Counted, At
  <2>8. CASE cmd' = Unproved(c)
    <3>1. c.calls <= 9
      BY <1>0, <2>0, <2>3, <2>6
    <3> QED BY <1>g, <2>3, <2>8, <3>1
  <2>9. CASE cmd' = NextCandidate(e)
    <3>1. e.calls + 2 * Cardinality(e.cands) + 2 <= 9
      BY <1>0, <2>0, <2>4, <2>6
    <3> QED BY <1>h, <2>4, <2>6, <2>9, <3>1
  <2> QED BY <2>5, <2>7, <2>8, <2>9
<1>5. CASE ReapVerify
  <2>0. cmd.calls + 2 * Cardinality(cmd.cands) + 3 <= 9
    BY <1>5 DEF Counted, ReapVerify
  <2> DEFINE c == [Spent(cmd) EXCEPT !.target = NoId]
  <2>1. c \in Cmd /\ c.calls = cmd.calls + 1 /\ c.cands = cmd.cands /\ c.level = "command"
    BY <1>e DEF Cmd, Id
  <2>2. cmd' = Unproved(c) \/ cmd' = NextCandidate(c)
    BY <1>5 DEF ReapVerify
  <2> HIDE DEF c
  <2>3. Cardinality(cmd.cands) \in Nat
    BY <1>i, FS_CardinalityType
  <2>4. c.calls <= 9 /\ c.calls + 2 * Cardinality(c.cands) + 2 <= 9
    BY <1>0, <2>0, <2>1, <2>3
  <2> QED BY <1>g, <1>h, <1>i, <2>1, <2>2, <2>4
<1>6. CASE Relist
  <2>1. cmd.calls + 2 <= 9
    BY <1>6 DEF Counted, Relist
  <2>2. CASE cmd' = Unproved(Spent(cmd))
    <3>1. Spent(cmd).calls <= 9
      BY <1>0, <1>e, <2>1
    <3> QED BY <1>e, <1>g, <2>2, <3>1
  <2>3. CASE cmd' = [Spent(cmd) EXCEPT !.at = "assert"]
    <3>1. cmd'.at = "assert" /\ cmd'.calls = cmd.calls + 1
      BY <1>e, <1>f, <2>3
    <3>2. cmd'.calls <= 9 /\ cmd'.calls + 1 <= 9
      BY <1>0, <2>1, <3>1
    <3> QED BY <1>a, <3>1, <3>2 DEF Counted, At
  <2> QED BY <1>6, <2>2, <2>3 DEF Relist
<1>7. CASE AssertAbsent
  <2>1. cmd.calls + 1 <= 9
    BY <1>7 DEF Counted, AssertAbsent
  <2>2. Spent(cmd).calls <= 9
    BY <1>0, <1>e, <2>1
  <2>3. CASE cmd' = Unproved(Spent(cmd))
    BY <1>e, <1>g, <2>2, <2>3
  <2>4. CASE cmd' = Proved(Spent(cmd))
    <3>1. \/ cmd' = [Spent(cmd) EXCEPT !.at = "file"]
          \/ cmd' = Settling(Spent(cmd), UnknownRoles)
      BY <1>e, <2>4 DEF Proved
    <3>2. /\ Settling(Spent(cmd), UnknownRoles).calls = Spent(cmd).calls
          /\ Settling(Spent(cmd), UnknownRoles).at \in {"settle", "failed", "ok"}
      BY <1>e DEF Settling, Loop, Cmd
    <3>3. cmd'.calls = Spent(cmd).calls /\ cmd'.at \in {"file", "settle", "failed", "ok"}
      BY <1>m, <1>n, <3>1, <3>2
    <3> QED BY <1>a, <2>2, <3>3, EndCounted
  <2> QED BY <1>7, <2>3, <2>4 DEF AssertAbsent
<1> QED BY <1>1, <1>2, <1>3, <1>4, <1>5, <1>6, <1>7 DEF ProviderStep

\* Neither do the steps between the provider's calls.
LEMMA CommandCounted ==
  ASSUME TypeOK, TypeOK', IInv, Counted, CommandStep, cmd.mode \in CleanupMode
  PROVE  Counted'
<1>0. /\ cmd \in Cmd /\ cmd' \in Cmd /\ view \in [Role -> Record] /\ cmd.todo \in SUBSET Role
      /\ cmd.calls \in Nat /\ cmd.calls <= 9
  BY CmdFields DEF TypeOK, LeaseTypeOK, Cmd, Counted
<1>a. view' = view /\ cmd'.mode = cmd.mode /\ cmd.mode # "begin" /\ cmd'.mode \in CleanupMode
  BY CommandLeads DEF IInv, CommandGoes, Same, CleanupMode
<1>b. UnknownRoles \in SUBSET Role /\ UnknownRoles' = UnknownRoles /\ UnknownRoles = Unknown(view)
  BY <1>a DEF UnknownRoles, Unknown
<1>c. Cardinality(cmd.todo) \in 0..2 /\ Cardinality(UnknownRoles) \in 0..2
  BY <1>0, <1>b, RoleCount
<1>d. Rest' = Rest /\ Rest \in Nat /\ Rest = 3 + 2 * Cardinality(Unknown(view))
  BY <1>b, <1>c DEF Rest
<1>e. /\ Spent(cmd) \in Cmd /\ Spent(cmd).calls = cmd.calls + 1 /\ Spent(cmd).todo = cmd.todo
  <2>1. Spent(cmd) = [cmd EXCEPT !.calls = cmd.calls + 1]
    BY DEF Spent
  <2> QED BY <1>0, <2>1, SpentType DEF Cmd
<1>f. \A c \in Cmd : \A p : LET d == [c EXCEPT !.at = p] IN
        d.at = p /\ d.calls = c.calls /\ d.todo = c.todo
  BY DEF Cmd
<1>g. \A p : cmd' = To(p) => cmd'.at = p /\ cmd'.calls = cmd.calls /\ cmd'.todo = cmd.todo
  BY <1>0, <1>f DEF To
<1>h. ASSUME NEW c \in Cmd, cmd' = NextDelete(c), c.todo = cmd.todo,
             c.calls + 3 * Cardinality(cmd.todo) + Rest <= 9
      PROVE  Counted'
  <2>1. Fits(Deleting(c, cmd.todo, view), Rest)
    BY <1>0, <1>d, <1>h, DeletingFits DEF Fits
  <2>2. Fits(cmd', Rest')
    BY <1>d, <1>h, <2>1 DEF NextDelete
  <2> QED BY <1>0, <1>a, <2>2, FitsCounted
<1>i. ASSUME cmd'.at = "unverified", cmd'.calls + 3 * Cardinality(cmd'.todo) + 0 + Rest' <= 9,
             cmd'.calls <= 9
      PROVE  Counted'
  BY <1>a, <1>i DEF Counted, At, Ahead
<1>j. [cmd EXCEPT !.failed = TRUE] \in Cmd /\ [cmd EXCEPT !.failed = TRUE].calls = cmd.calls
      /\ [cmd EXCEPT !.failed = TRUE].todo = cmd.todo
  BY <1>0 DEF Cmd
<1>k. cmd' = To("failed") => Counted'
  BY <1>0, <1>a, <1>g, EndCounted
<1>1. CASE Intent
  <2>1. cmd.calls = 0
    BY <1>1 DEF Intent, Counted
  <2>2. cmd' = Intending(cmd, cmd.todo, view) \/ cmd' = To("failed")
    BY <1>1 DEF Intent, AppendRecord
  <2>3. CASE cmd' = Intending(cmd, cmd.todo, view)
    <3>1. (cmd'.at = "intent" /\ cmd'.calls = 0) \/ Fits(cmd', Rest')
      BY <1>0, <1>d, <2>1, <2>3, IntendingFits DEF Fits
    <3>2. CASE cmd'.at = "intent" /\ cmd'.calls = 0
      BY <1>a, <3>2 DEF Counted, At
    <3> QED BY <1>0, <1>a, <3>1, <3>2, FitsCounted
  <2> QED BY <1>k, <2>2, <2>3
<1>2. CASE Probe
  <2>1. cmd.calls + 3 * Cardinality(cmd.todo) + 3 + Rest <= 9
    BY <1>2 DEF Probe, Counted, Ahead
  <2>2. \/ cmd' = [Spent(cmd) EXCEPT !.at = "redelete"] \/ cmd' = [Spent(cmd) EXCEPT !.at = "closed"]
        \/ cmd' = NextDelete(Spent(cmd)) \/ cmd' = [Spent(cmd) EXCEPT !.at = "unverified"]
    BY <1>2 DEF Probe
  <2>3. /\ Spent(cmd).calls <= 9
        /\ Spent(cmd).calls + 3 * Cardinality(cmd.todo) + 2 + Rest <= 9
        /\ Spent(cmd).calls + 3 * Cardinality(cmd.todo) + Rest <= 9
        /\ Spent(cmd).calls + 3 * Cardinality(cmd.todo) + 0 + Rest <= 9
    BY <1>0, <1>c, <1>d, <1>e, <2>1
  <2>4. CASE cmd' = NextDelete(Spent(cmd))
    BY <1>e, <1>h, <2>3, <2>4
  <2>5. CASE cmd' # NextDelete(Spent(cmd))
    <3>1. cmd'.at \in {"redelete", "closed", "unverified"} /\ cmd'.calls = Spent(cmd).calls
          /\ cmd'.todo = cmd.todo
      <4>1. \A p : LET d == [Spent(cmd) EXCEPT !.at = p] IN
                     d.at = p /\ d.calls = Spent(cmd).calls /\ d.todo = Spent(cmd).todo
        BY <1>e, <1>f
      <4>2. Spent(cmd).todo = cmd.todo
        BY <1>e
      <4> QED BY <2>2, <2>5, <4>1, <4>2
    <3> QED BY <1>a, <1>d, <2>3, <3>1 DEF Counted, At, Ahead
  <2> QED BY <2>4, <2>5
<1>3. CASE Redelete
  <2>1. cmd.calls + 3 * Cardinality(cmd.todo) + 2 + Rest <= 9
    BY <1>3 DEF Redelete, Counted, Ahead
  <2>2. cmd' = To("delete") \/ cmd' = To("unverified")
    BY <1>3 DEF Redelete, AppendRecord
  <2>3. cmd.calls + 3 * Cardinality(cmd.todo) + 0 + Rest <= 9
    BY <1>0, <1>c, <1>d, <2>1
  <2>4. cmd'.at \in {"delete", "unverified"} /\ cmd'.calls = cmd.calls /\ cmd'.todo = cmd.todo
    BY <1>g, <2>2
  <2> QED BY <1>0, <1>a, <1>d, <2>1, <2>3, <2>4 DEF Counted, At, Ahead
<1>4. CASE Closed
  <2>1. cmd.calls + 3 * Cardinality(cmd.todo) + 0 + Rest <= 9
    BY <1>4 DEF Closed, Counted, Ahead, At
  <2>2. cmd' = NextDelete(cmd) \/ cmd' = To("unverified")
    BY <1>4 DEF Closed, AppendRecord
  <2>3. cmd.calls + 3 * Cardinality(cmd.todo) + Rest <= 9
    BY <1>0, <1>c, <1>d, <2>1
  <2>4. CASE cmd' = NextDelete(cmd)
    BY <1>0, <1>h, <2>3, <2>4
  <2>5. CASE cmd' = To("unverified")
    BY <1>0, <1>d, <1>g, <1>i, <2>1, <2>5
  <2> QED BY <2>2, <2>4, <2>5
<1>5. CASE Unverified
  <2>1. cmd.calls + 3 * Cardinality(cmd.todo) + 0 + Rest <= 9
    BY <1>5 DEF Unverified, Counted, Ahead, At
  <2>2. cmd' = NextDelete([cmd EXCEPT !.failed = TRUE]) \/ cmd' = To("failed")
    BY <1>5 DEF Unverified, AppendRecord
  <2>3. cmd.calls + 3 * Cardinality(cmd.todo) + Rest <= 9
    BY <1>0, <1>c, <1>d, <2>1
  <2>4. CASE cmd' = NextDelete([cmd EXCEPT !.failed = TRUE])
    BY <1>h, <1>j, <2>3, <2>4
  <2> QED BY <1>k, <2>2, <2>4
<1>6. CASE Settle \/ RecordAbsence
  <2>1. cmd' = Settling(cmd, cmd.todo) \/ cmd' = To("failed") \/ cmd' = To("ok")
    BY <1>6 DEF Settle, RecordAbsence, AppendRecord, WriteLease
  <2>2. Settling(cmd, cmd.todo).at \in {"settle", "failed", "ok"}
        /\ Settling(cmd, cmd.todo).calls = cmd.calls
    BY <1>0 DEF Settling, Loop, Cmd
  <2>3. cmd'.at \in {"settle", "failed", "ok"} /\ cmd'.calls = cmd.calls
    BY <1>g, <2>1, <2>2
  <2> QED BY <1>0, <1>a, <2>3, EndCounted
<1>7. CASE Testing \/ MarkTesting
  BY <1>7, <1>a DEF Testing, MarkTesting, IInv, Control, At
<1> QED BY <1>1, <1>2, <1>3, <1>4, <1>5, <1>6, <1>7 DEF CommandStep

\* Only a cleanup counts its operations.
LEMMA CountedStep ==
  ASSUME TypeOK, TypeOK', IInv, IInv', Counted, Selecting, Accounted,
         AcquireStep \/ ProviderStep \/ CommandStep
  PROVE  Counted'
<1>0. cmd \in Cmd /\ cmd' \in Cmd
  BY DEF TypeOK, LeaseTypeOK
<1>1. CASE cmd.mode \in CleanupMode
  <2>1. ProviderStep \/ CommandStep
    <3>1. AcquireStep => cmd.mode = "acquire"
      BY StepMode
    <3> QED BY <1>1, <3>1 DEF CleanupMode
  <2> QED BY <1>1, <2>1, ProviderCounted, CommandCounted
<1>2. CASE cmd.mode \notin CleanupMode
  <2>1. cmd.calls = 0 /\ Spent(cmd) = cmd
    BY <1>2 DEF Counted, Spent
  <2>2. cmd'.mode = cmd.mode
    BY StepMode
  <2>3. cmd'.calls = 0
    <3>1. CASE AcquireStep
      <4>1. CASE Onward
        BY <2>1, <4>1 DEF Onward, Reaches
      <4>2. CASE Trims(cmd, cmd', view')
        BY <2>1, <4>2 DEF Trims
      <4> QED BY <3>1, <4>1, <4>2, AcquireOnward
    <3>2. CASE ProviderStep
      <4>1. PICK c : Gathers(c) /\ Trims(c, cmd', view)
        BY <3>2, ProviderTrims
      <4> QED BY <2>1, <4>1 DEF Gathers, Trims
    <3>3. CASE CommandStep
      <4>1. cmd.mode = "begin"
        BY <1>2, <3>3, StepMode
      <4> QED BY <2>1, <3>3, <4>1, CommandTrims
    <3> QED BY <3>1, <3>2, <3>3
  <2> QED BY <1>2, <2>2, <2>3 DEF Counted
<1> QED BY <1>1, <1>2

-----------------------------------------------------------------------------
(***************************************************************************)
(* Steps of the workflow and of the provider.                              *)
(***************************************************************************)

\* Nothing is selected, named or spent while no command runs.
LEMMA IdleFields ==
  /\ Idle.at = "idle" /\ Idle.mode = "idle" /\ Idle.cands = {} /\ Idle.deleted = {}
  /\ Idle.calls = 0 /\ Idle.level = "command"
  /\ "idle" \in Plain /\ "idle" \notin CleanupMode
  /\ "idle" \notin CreatePlaces \cup ReapPlaces \cup AcquirePlaces
BY DEF Idle, Plain, CleanupMode, CreatePlaces, ReapPlaces, AcquirePlaces

\* An empty selection is within any entitlement.
LEMMA NothingSelected ==
  ASSUME NEW S \in SUBSET Role
  PROVE  IsFiniteSet({} \cup {}) /\ Cardinality({} \cup {}) <= Cardinality(S)
<1>1. IsFiniteSet({}) /\ Cardinality({}) = 0
  BY FS_EmptySet
<1>2. Cardinality(S) \in 0..2
  BY RoleCount
<1> QED BY <1>1, <1>2

\* A workflow that has not begun.
LEMMA InitRecords == Init => RInv
<1> SUFFICES ASSUME Init PROVE RInv
  OBVIOUS
<1>0. cmd = Idle /\ lease = NoLease /\ NoLease.state = "none"
  BY DEF Init, NoLease
<1>1. \A r \in Role : Untouched(r)
  BY DEF Init, AccountInit, Untouched
<1>2. Declared
  BY <1>0, <1>1, IdleFields DEF Declared, At
<1>3. Named
  BY <1>0, IdleFields DEF Named, At
<1>4. UnknownRoles \in SUBSET Role
  BY DEF UnknownRoles
<1>5. Selecting
  BY <1>0, <1>4, IdleFields, NothingSelected DEF Selecting, At
<1>6. Accounted
  BY DEF Init, AccountInit, Accounted
<1>7. Issued
  BY <1>0, IdleFields DEF Issued, At
<1>8. Found
  BY <1>0, IdleFields DEF Found, At, CleanupMode
<1>9. Counted
  BY <1>0, IdleFields DEF Counted, At
<1> QED BY <1>2, <1>3, <1>5, <1>6, <1>7, <1>8, <1>9 DEF RInv

\* A command that has returned or was killed leaves the records as they are.
LEMMA IdleRecords ==
  ASSUME RInv, cmd' = Idle, UNCHANGED <<account, disk, step>> PROVE RInv'
<1>0. UNCHANGED <<live, pending, created, journal, lease, step>>
  BY DEF account, disk
<1>1. Declared'
  BY <1>0, IdleFields DEF RInv, Declared, Untouched, At
<1>2. Named'
  BY IdleFields DEF Named, At
<1>3. UnknownRoles' \in SUBSET Role
  BY DEF UnknownRoles
<1>4. Selecting'
  BY <1>3, IdleFields, NothingSelected DEF Selecting, At
<1>5. Accounted'
  BY <1>0 DEF RInv, Accounted, Owned
<1>6. Issued'
  BY <1>0, IdleFields DEF RInv, Issued, At
<1>7. Found'
  BY <1>0, IdleFields DEF RInv, Found, At
<1>8. Counted'
  BY IdleFields DEF Counted, At
<1> QED BY <1>1, <1>2, <1>4, <1>5, <1>6, <1>7, <1>8 DEF RInv

\* Nor does a cleanup that ends before it has begun, or a stuttering step.
LEMMA SameRecords ==
  ASSUME RInv, UNCHANGED <<account, disk, view, cmd>>, step' = step \/ step' # "acquire" PROVE RInv'
<1>0. UNCHANGED <<live, pending, created, journal, lease, view, cmd>>
  BY DEF account, disk
<1>1. Declared' /\ Named'
  BY <1>0 DEF RInv, Declared, Named, Untouched, At, JournalUsable
<1>2. UnknownRoles' = UnknownRoles /\ Known(view)' = Known(view)
  BY <1>0 DEF UnknownRoles, Known
<1>3. Selecting' /\ Accounted'
  BY <1>0, <1>2 DEF RInv, Selecting, Accounted, Owned, At
<1>4. Issued' /\ Found'
  BY <1>0 DEF RInv, Issued, Found, At
<1>5. Counted'
  BY <1>0, <1>2 DEF RInv, Counted, Ahead, Rest, At
<1> QED BY <1>1, <1>3, <1>4, <1>5 DEF RInv

\* The provider acts only on roles that are declared.
LEMMA ProviderRecords ==
  ASSUME TypeOK, IInv, RInv, Provider PROVE RInv'
<1>0. UNCHANGED <<journal, lease, view, cmd, step>>
  BY DEF Provider, disk
<1>1. ASSUME \E r \in Role : AcceptCreate(r) \/ RejectCreate(r)
      PROVE  Accounted' /\ Declared'
  <2>1. PICK q \in Role : AcceptCreate(q) \/ RejectCreate(q)
    BY <1>1
  <2>2. q \in pending
    BY <2>1 DEF AcceptCreate, RejectCreate
  <2>3. \A r \in Role : journal[r].state # "none"
    BY <2>1, <2>2 DEF RInv, Declared, Untouched
  <2>4. Accounted'
    <3>1. CASE AcceptCreate(q)
      <4>1. PICK id \in Fresh : live' = live \cup {id} /\ created' = [created EXCEPT ![q] = id]
        BY <3>1 DEF AcceptCreate
      <4>2. id # NoId
        BY <4>1, AccountAssumption DEF Fresh
      <4>3. created \in [Role -> Id] /\ created[q] = NoId
        BY <2>1, <2>2 DEF IInv, Ledger, TypeOK, AccountTypeOK
      <4>4. created'[q] = id /\ \A r \in Role : r # q => created'[r] = created[r]
        BY <4>1, <4>3
      <4>5. Owned \subseteq Owned' /\ id \in Owned'
        BY <2>1, <4>2, <4>3, <4>4 DEF Owned
      <4> QED BY <4>1, <4>5 DEF RInv, Accounted
    <3>2. CASE RejectCreate(q)
      BY <3>2 DEF RejectCreate, RInv, Accounted, Owned
    <3> QED BY <2>1, <3>1, <3>2
  <2>5. Declared'
    BY <1>0, <2>3 DEF RInv, Declared, JournalUsable, At
  <2> QED BY <2>4, <2>5
<1>2. ASSUME \E id \in ServiceId : Resurface(id) PROVE Accounted' /\ Declared'
  <2>1. PICK id \in ServiceId : Resurface(id)
    BY <1>2
  <2>2. pending' = pending /\ created' = created /\ live' = live \cup {id} /\ id \in Owned
    BY <2>1 DEF Resurface
  <2>3. Accounted'
    BY <2>2 DEF RInv, Accounted, Owned
  <2>4. Declared'
    BY <1>0, <2>2 DEF RInv, Declared, JournalUsable, At, Untouched
  <2> QED BY <2>3, <2>4
<1>3. Accounted' /\ Declared'
  BY <1>1, <1>2 DEF Provider, ProviderNext
<1>4. Named'
  BY <1>0 DEF RInv, Named, At
<1>5. UnknownRoles' = UnknownRoles /\ Known(view)' = Known(view)
  BY <1>0 DEF UnknownRoles, Known
<1>6. Selecting'
  BY <1>0, <1>5 DEF RInv, Selecting, At
<1>7. Issued' /\ Found'
  BY <1>0 DEF RInv, Issued, Found, At
<1>8. Counted'
  BY <1>0, <1>5 DEF RInv, Counted, Ahead, Rest, At
<1> QED BY <1>3, <1>4, <1>6, <1>7, <1>8 DEF RInv

\* An acquisition begins with nothing created and nothing on disk.
LEMMA AcquireRecords ==
  ASSUME TypeOK, IInv, RInv, StartAcquire PROVE RInv'
<1>0. UNCHANGED <<live, pending, created, journal, lease, view>>
  BY DEF StartAcquire, account, disk
<1>1. /\ cmd'.at = "construct" /\ cmd'.mode = "acquire" /\ cmd'.role = "outline" /\ cmd'.cands = {}
      /\ cmd'.deleted = {} /\ cmd'.calls = 0 /\ cmd'.level = "command"
  BY DEF StartAcquire, Idle
<1>2. "construct" \in Plain /\ "construct" \notin CreatePlaces \cup ReapPlaces
      /\ "acquire" \notin CleanupMode
  BY DEF Plain, CreatePlaces, ReapPlaces, CleanupMode
<1>3. \A r \in Role : Untouched(r) /\ journal[r].id = NoId
  BY DEF StartAcquire, IInv, OneCreate, Ledger, Untouched
<1>4. lease.state = "none" /\ step' = "begin"
  BY DEF StartAcquire, RInv, Found
<1>5. Declared'
  BY <1>0, <1>1, <1>2, <1>3 DEF Declared, Untouched, At
<1>6. Named'
  BY <1>0, <1>1, <1>2, <1>3 DEF Named, At
<1>7. UnknownRoles' \in SUBSET Role
  BY DEF UnknownRoles
<1>8. Selecting'
  BY <1>1, <1>2, <1>7, NothingSelected DEF Selecting, At
<1>9. Accounted'
  BY <1>0 DEF RInv, Accounted, Owned
<1>10. Issued'
  BY <1>0, <1>1, <1>4 DEF Issued, At
<1>11. Found'
  BY <1>0, <1>1, <1>4 DEF Found, At
<1>12. Counted'
  BY <1>1, <1>2 DEF Counted, At
<1> QED BY <1>5, <1>6, <1>8, <1>9, <1>10, <1>11, <1>12 DEF RInv

\* begin-testing begins on an issued lease.
LEMMA BeginRecords ==
  ASSUME TypeOK, IInv, RInv, StartBegin PROVE RInv'
<1>0. UNCHANGED <<live, pending, created, journal, lease, view>>
  BY DEF StartBegin, account, disk
<1>1. /\ cmd'.at = "testing" /\ cmd'.mode = "begin" /\ cmd'.cands = {}
      /\ cmd'.deleted = {} /\ cmd'.calls = 0 /\ cmd'.level = "command"
  BY DEF StartBegin, Idle, Loop, Role
<1>2. "testing" \in Plain /\ "testing" \notin CreatePlaces \cup ReapPlaces \cup AcquirePlaces
      /\ "begin" \notin CleanupMode
  BY DEF Plain, CreatePlaces, ReapPlaces, AcquirePlaces, CleanupMode
<1>3. lease.state = "issued" /\ step' = "cleanup"
  BY DEF StartBegin
<1>4. Declared'
  BY <1>0, <1>1, <1>2 DEF RInv, Declared, Untouched, At
<1>5. Named'
  BY <1>0, <1>1, <1>2 DEF Named, At, AcquirePlaces
<1>6. UnknownRoles' \in SUBSET Role
  BY DEF UnknownRoles
<1>7. Selecting'
  BY <1>1, <1>2, <1>6, NothingSelected DEF Selecting, At
<1>8. Accounted'
  BY <1>0 DEF RInv, Accounted, Owned
<1>9. Issued'
  BY <1>0, <1>1, <1>3 DEF RInv, Issued, At
<1>10. Found'
  BY <1>0, <1>1, <1>2, <1>3 DEF RInv, Found, At
<1>11. Counted'
  BY <1>1, <1>2 DEF Counted, At
<1> QED BY <1>4, <1>5, <1>7, <1>8, <1>9, <1>10, <1>11 DEF RInv

\* The branches of a cleanup that do something.
LEMMA Branches == Branch \in {"refused"} \cup CleanupMode
BY DEF Branch, CleanupMode

\* A cleanup begins from the records, with the ids of lease.json if it is live.
LEMMA CleanupRecords ==
  ASSUME TypeOK, TypeOK', IInv, IInv', RInv, StartCleanup PROVE RInv'
<1>0. UNCHANGED <<live, pending, created, journal, lease>> /\ step' = "cleanup"
  BY DEF StartCleanup, account, disk
<1>a. UNCHANGED <<account, disk>>
  BY DEF StartCleanup
<1>1. CASE UNCHANGED <<cmd, view>>
  BY <1>0, <1>1, <1>a, SameRecords
<1>2. CASE ~UNCHANGED <<cmd, view>>
  <2> DEFINE c == [Idle EXCEPT !.mode = Branch]
             S == NeedsIntent(Branch, Snapshot)
  <2>1. view' = Snapshot /\ cmd' = Intending(c, S, Snapshot) /\ Branch # "refused"
    BY <1>2 DEF StartCleanup
  <2>2. Branch \in CleanupMode
    BY <2>1, Branches
  <2>3. /\ c.mode = Branch /\ c.at = "idle" /\ c.cands = {} /\ c.deleted = {} /\ c.calls = 0
        /\ c.todo = {} /\ c.level = "command"
    BY DEF Idle
  <2>4. c \in Cmd
    <3>1. Branch \in Mode
      BY <2>2 DEF Mode
    <3> QED BY <3>1, IdleType DEF Cmd
  <2>5. S \in SUBSET Role
    BY DEF NeedsIntent
  <2>6. Snapshot \in [Role -> Record]
    BY SnapshotType DEF TypeOK
  <2>7. \A r \in Role : Snapshot[r].id = IF Branch = "active" THEN lease.ids[r] ELSE journal[r].id
    BY DEF Snapshot, TypeOK, LeaseTypeOK, Record
  <2>8. \A r \in Role : Snapshot[r].state = journal[r].state
    BY DEF Snapshot, TypeOK, LeaseTypeOK, Record
  <2>9. Branch = "active" => lease.state # "none"
    BY DEF Branch
  <2>10. Branch = "recover" => lease.state = "none"
    BY DEF Branch
  <2>11. \A r \in Role : Branch = "active" =>
           r \in S \/ journal[r].state \in {"deleting", "absent"}
    BY <2>8 DEF NeedsIntent
  <2>12. Trims(c, cmd', Snapshot)
    BY <2>1, <2>4, <2>6, TrimsDeleting
  <2>13. S # {} => cmd'.at = "intent" /\ cmd'.todo \cup {cmd'.role} = S
    BY <2>1, <2>4, <2>5, IntendingNames
  <2>14. cmd'.at \in {"failed", "intent", "probe", "delete", "list"}
    <3>1. Forth(c, cmd')
      BY <2>1, <2>4, IntendingLeads
    <3> QED BY <3>1 DEF Forth
  <2>15. Unknown(Snapshot) \in SUBSET Role
    BY DEF Unknown
  <2>16. Cardinality(Unknown(Snapshot)) \in 0..2
    BY <2>15, RoleCount
  <2> DEFINE rest == 3 + 2 * Cardinality(Unknown(Snapshot))
  <2>17. rest \in Nat
    BY <2>16
  <2>18. (cmd'.at = "intent" /\ cmd'.calls = 0) \/ Fits(cmd', rest)
    BY <2>1, <2>3, <2>4, <2>5, <2>6, <2>17, IntendingFits DEF Fits
  <2> HIDE DEF c, S
  <2>19. cmd'.mode = Branch /\ cmd'.mode \in CleanupMode /\ cmd'.cands = {} /\ cmd'.deleted = {}
    BY <2>2, <2>3, <2>12 DEF Trims
  <2>20. cmd'.level = "command"
    BY <2>19 DEF IInv, Control
  <2>21. cmd'.at \notin Plain /\ cmd'.at \notin AcquirePlaces
    BY <2>14 DEF Plain, AcquirePlaces, CreatePlaces
  <2>22. cmd'.at \notin CreatePlaces \cup {"creating", "construct", "handoff", "issue", "install"}
    BY <2>21 DEF AcquirePlaces
  <2>23. Declared'
    BY <1>0, <2>22 DEF RInv, Declared, Untouched, At
  <2>24. \A r \in Role : view'[r].id = NoId => journal[r].id = NoId
    BY <2>1, <2>7, <2>9 DEF RInv, Issued
  <2>25. Named'
    BY <1>0, <2>14, <2>20, <2>22, <2>24 DEF Named, At, CreatePlaces
  <2>26. UnknownRoles' = Unknown(Snapshot) /\ UnknownRoles' \in SUBSET Role /\ Known(view)' = Known(Snapshot)
    BY <2>1 DEF UnknownRoles, Unknown, Known
  <2>27. Selecting'
    <3>1. cmd'.at \in ReapPlaces => cmd'.at = "list"
      BY <2>14 DEF ReapPlaces
    <3>2. cmd'.at = "list" => /\ cmd'.bound = Cardinality(UnknownRoles')
                              /\ cmd'.active = Known(view)'
                              /\ cmd'.bound <= Cardinality(UnknownRoles')
      BY <2>2, <2>3, <2>12, <2>16, <2>26 DEF Trims
    <3> QED BY <2>19, <2>26, <3>1, <3>2, NothingSelected DEF Selecting, At
  <2>28. Accounted'
    BY <1>0 DEF RInv, Accounted, Owned
  <2>29. lease.state # "none" => \A r \in Role : view'[r].id # NoId
    BY <2>1, <2>7 DEF RInv, Issued
  <2>30. Issued'
    BY <1>0, <2>22, <2>29 DEF RInv, Issued, At
  <2>31. Found'
    <3>1. cmd'.mode = "recover" => lease.state = "none"
      BY <2>10, <2>19
    <3>2. cmd'.mode = "active" => lease.state # "none"
      BY <2>9, <2>19
    <3>3. ASSUME cmd'.mode = "active", NEW r \in Role
          PROVE  \/ journal[r].state \in {"deleting", "absent"}
                 \/ cmd'.at = "intent" /\ r \in cmd'.todo \cup {cmd'.role}
      <4>1. r \in S \/ journal[r].state \in {"deleting", "absent"}
        BY <2>11, <2>19, <3>3
      <4> QED BY <2>13, <4>1
    <3>4. cmd'.mode \notin {"begin", "acquire"} /\ cmd'.at # "file"
      BY <2>14, <2>19 DEF CleanupMode
    <3> QED BY <1>0, <2>21, <3>1, <3>2, <3>3, <3>4 DEF Found, At
  <2>32. Counted'
    <3>1. CASE cmd'.at = "intent" /\ cmd'.calls = 0
      BY <2>19, <3>1 DEF Counted, At
    <3>2. CASE Fits(cmd', rest)
      <4>1. rest = Rest'
        BY <2>26 DEF Rest
      <4> HIDE DEF rest
      <4>2. cmd' \in Cmd
        BY DEF TypeOK, LeaseTypeOK
      <4> QED BY <2>19, <3>2, <4>1, <4>2, FitsCounted
    <3> QED BY <2>18, <3>1, <3>2
  <2> QED BY <2>23, <2>25, <2>27, <2>28, <2>30, <2>31, <2>32 DEF RInv
<1> QED BY <1>1, <1>2

\* Every step keeps the records in agreement.
LEMMA NextRecords ==
  TypeOK /\ TypeOK' /\ IInv /\ IInv' /\ RInv /\ [Next]_allVars => RInv'
<1> SUFFICES ASSUME TypeOK, TypeOK', IInv, IInv', RInv, [Next]_allVars PROVE RInv'
  OBVIOUS
<1>1. CASE StartAcquire
  BY <1>1, AcquireRecords
<1>2. CASE StartBegin
  BY <1>2, BeginRecords
<1>3. CASE StartCleanup
  BY <1>3, CleanupRecords
<1>4. CASE CommandNext
  <2>1. AcquireStep \/ ProviderStep \/ CommandStep
    BY <1>4 DEF CommandNext
  <2>2. UNCHANGED step
    BY <1>4 DEF CommandNext
  <2> QED BY <2>1, <2>2, DeclaredStep, NamedStep, SelectingStep, AccountedStep, IssuedStep, FoundStep,
             CountedStep DEF RInv
<1>5. CASE Return \/ Kill
  <2>1. cmd' = Idle /\ UNCHANGED <<account, disk, step>>
    BY <1>5 DEF Return, Kill
  <2> QED BY <2>1, IdleRecords
<1>6. CASE Provider
  BY <1>6, ProviderRecords
<1>7. CASE UNCHANGED allVars
  <2>1. UNCHANGED <<account, disk, view, cmd, step>>
    BY <1>7 DEF allVars, vars, account, disk, local
  <2> QED BY <2>1, SameRecords
<1> QED BY <1>1, <1>2, <1>3, <1>4, <1>5, <1>6, <1>7 DEF Next, Finished

-----------------------------------------------------------------------------
(* At whatever place a command is stopped, journal.json, lease.json and    *)
(* what it knew in memory agree as RInv says (lease.py, lease_cli.py).     *)
THEOREM RecordsAgree == Spec => []RInv
<1>1. TypeOK /\ TypeOK' /\ IInv /\ IInv' /\ RInv /\ [Next]_allVars => RInv'
  BY NextRecords
<1> QED BY InitRecords, <1>1, TypeCorrect, Invariance, PTL DEF Spec

(* A reap (RenderReaper.reap_tagged) never selects more services than the  *)
(* journal has roles without an id.                                        *)
THEOREM ReapStaysWithinJournal == Spec => []ReapWithinJournal
<1>1. TypeOK /\ IInv /\ RInv => ReapWithinJournal
  <2> SUFFICES ASSUME TypeOK, IInv, RInv PROVE ReapWithinJournal
    OBVIOUS
  <2> DEFINE U == {r \in Role : journal[r].id = NoId}
             A == cmd.cands \cup cmd.deleted
  <2>1. U \in SUBSET Role /\ UnknownRoles \in SUBSET Role
    BY DEF UnknownRoles
  <2>2. IsFiniteSet(U) /\ IsFiniteSet(UnknownRoles)
    BY <2>1, RoleFinite, FS_Subset
  <2>3. Cardinality(U) \in 0..2 /\ Cardinality(UnknownRoles) \in 0..2
    BY <2>1, RoleCount
  <2>4. CASE cmd.mode \notin {"idle", "begin"}
    <3>1. UnknownRoles \subseteq U
      BY <2>4 DEF RInv, Named, UnknownRoles
    <3>2. Cardinality(UnknownRoles) <= Cardinality(U)
      BY <2>2, <3>1, FS_Subset
    <3>3. Cardinality(A) \in Nat /\ Cardinality(A) <= Cardinality(UnknownRoles)
      BY FS_CardinalityType DEF RInv, Selecting
    <3> QED BY <2>3, <3>2, <3>3 DEF ReapWithinJournal
  <2>5. CASE cmd.mode \in {"idle", "begin"}
    <3>1. cmd.mode = "idle" => cmd.at \in Plain
      BY IdleFields DEF IInv, Control, At
    <3>2. A = {}
      BY <2>5, <3>1 DEF RInv, Selecting
    <3>3. Cardinality(A) = 0
      BY <3>2, FS_EmptySet
    <3> QED BY <2>3, <3>3 DEF ReapWithinJournal
  <2> QED BY <2>4, <2>5
<1> QED BY <1>1, TypeCorrect, Invariance, RecordsAgree, PTL

(* When a cleanup lists the namespace, the run's own services that no      *)
(* record names fit the number it may delete (lease_cli.cleanup): the      *)
(* refusal of an ambiguous namespace never strands them.                   *)
THEOREM OwnServicesFit == Spec => []OwnServicesNeverRefused
<1>1. TypeOK /\ IInv /\ RInv => OwnServicesNeverRefused
  <2> SUFFICES ASSUME TypeOK, IInv, RInv, At("list"), cmd.mode \in CleanupMode
               PROVE  Cardinality(Tagged(cmd.active) \ Stale) <= cmd.bound
    BY DEF OwnServicesNeverRefused
  <2> DEFINE mine == {created[r] : r \in UnknownRoles}
  <2>1. cmd.active = Known(view) /\ cmd.bound = Cardinality(UnknownRoles)
    BY DEF RInv, Selecting, At, ReapPlaces
  <2>2. UnknownRoles \in SUBSET Role /\ IsFiniteSet(UnknownRoles)
    <3>1. UnknownRoles \in SUBSET Role
      BY DEF UnknownRoles
    <3> QED BY <3>1, RoleFinite, FS_Subset
  <2>3. Tagged(cmd.active) \ Stale \subseteq mine
    <3> SUFFICES ASSUME NEW id \in Tagged(cmd.active) \ Stale PROVE id \in mine
      OBVIOUS
    <3>1. id \in Owned /\ id \notin Known(view)
      BY <2>1 DEF Tagged, RInv, Accounted
    <3>2. PICK r \in Role : id = created[r] /\ id # NoId
      BY <3>1 DEF Owned
    <3>3. view[r].id \in {NoId, created[r]}
      BY DEF IInv, Ledger
    <3>4. view[r].id # created[r]
      BY <3>1, <3>2 DEF Known
    <3> QED BY <3>2, <3>3, <3>4 DEF UnknownRoles
  <2>4. IsFiniteSet(mine) /\ Cardinality(mine) <= Cardinality(UnknownRoles)
    <3>1. [r \in UnknownRoles |-> created[r]] \in Surjection(UnknownRoles, mine)
      BY DEF Surjection
    <3> QED BY <3>1, <2>2, FS_Surjection
  <2>5. /\ IsFiniteSet(Tagged(cmd.active) \ Stale)
        /\ Cardinality(Tagged(cmd.active) \ Stale) <= Cardinality(mine)
    BY <2>3, <2>4, FS_Subset
  <2>6. /\ Cardinality(Tagged(cmd.active) \ Stale) \in Nat /\ Cardinality(mine) \in Nat
        /\ Cardinality(UnknownRoles) \in Nat
    BY <2>2, <2>4, <2>5, FS_CardinalityType
  <2> QED BY <2>1, <2>4, <2>5, <2>6
<1> QED BY <1>1, TypeCorrect, Invariance, RecordsAgree, PTL

(* Nine operations of the cleanup API client are enough for every branch   *)
(* of lease_cli.cleanup, whatever its records say.                         *)
THEOREM NineCallsSuffice == Spec => []NineCalls
<1>1. TypeOK /\ RInv => NineCalls
  BY DEF RInv, Counted, NineCalls, CallsWithin, TypeOK, LeaseTypeOK, Cmd
<1> QED BY <1>1, TypeCorrect, RecordsAgree, PTL

\* What a refusal leaves behind, with the records it rests on.
LEMMA RefusalStep ==
  TypeOK /\ IInv /\ IInv' /\ RInv /\ RefusalIsHarmless /\ [Next]_allVars => RefusalIsHarmless'
<1> SUFFICES ASSUME TypeOK, IInv, IInv', RInv, RefusalIsHarmless, [Next]_allVars,
                    exit' \in {"no-journal", "refused"}
             PROVE  Owned' = {} /\ pending' = {}
  BY DEF RefusalIsHarmless
<1>1. CASE StartCleanup
  <2>1. created' = created /\ pending' = pending
    BY <1>1 DEF StartCleanup, account
  <2>2. \E r \in Role : journal[r].state = "none"
    <3>1. CASE \A r \in Role : journal[r].state = "none"
      BY <3>1 DEF Role
    <3>2. CASE Branch = "refused"
      <4>1. CASE lease.state = "none"
        BY <3>2, <4>1 DEF Branch, JournalUsable, CleanupMode
      <4>2. CASE lease.state # "none"
        <5>1. \A r \in Role : /\ lease.ids[r] # NoId /\ journal[r].id # NoId
                              /\ journal[r].state \in {"issued", "testing", "deleting", "absent"}
                              /\ journal[r].state = "absent" => journal[r].result = "verified"
          BY <4>2 DEF RInv, Issued
        <5>2. \A r \in Role : journal[r].id = lease.ids[r]
          BY <5>1 DEF IInv, Ledger
        <5>3. JournalMatches
          BY <5>1, <5>2 DEF JournalMatches, JournalUsable
        <5>4. lease.state = "absent" => \A r \in Role : journal[r].state \in {"deleting", "absent"}
          BY DEF RInv, Issued
        <5> QED BY <3>2, <4>2, <5>1, <5>3, <5>4 DEF Branch
      <4> QED BY <4>1, <4>2
    <3>3. (\A r \in Role : journal[r].state = "none") \/ Branch = "refused"
      BY <1>1 DEF StartCleanup
    <3> QED BY <3>1, <3>2, <3>3
  <2>3. \A r \in Role : Untouched(r)
    BY <2>2 DEF RInv, Declared
  <2>4. pending = {}
    BY <2>3 DEF Untouched, TypeOK, AccountTypeOK
  <2>5. Owned = {}
    BY <2>3 DEF Untouched, Owned
  <2> QED BY <2>1, <2>4, <2>5 DEF Owned
<1>2. CASE StartAcquire \/ StartBegin
  BY <1>2 DEF StartAcquire, StartBegin
<1>3. CASE Return \/ Kill
  <2>1. exit' \in {"absent", "ok", "failed", "killed"}
    BY <1>3 DEF Return, Kill
  <2> QED BY <2>1
<1>4. CASE CommandNext
  <2>1. cmd.at # "idle" /\ exit' = exit
    BY <1>4, StepMode DEF CommandNext
  <2>2. exit = "none"
    BY <2>1 DEF IInv, Control, At
  <2> QED BY <2>1, <2>2
<1>5. CASE Provider
  <2>1. exit' = exit /\ Owned = {} /\ pending = {}
    BY <1>5 DEF Provider, RefusalIsHarmless
  <2>2. CASE \E r \in Role : AcceptCreate(r) \/ RejectCreate(r)
    BY <2>1, <2>2 DEF AcceptCreate, RejectCreate
  <2>3. CASE \E id \in ServiceId : Resurface(id)
    BY <2>1, <2>3 DEF Resurface
  <2> QED BY <1>5, <2>2, <2>3 DEF Provider, ProviderNext
<1>6. CASE UNCHANGED allVars
  BY <1>6 DEF allVars, vars, account, local, RefusalIsHarmless, Owned
<1> QED BY <1>1, <1>2, <1>3, <1>4, <1>5, <1>6 DEF Next, Finished

(* The two ways a cleanup can end without touching the provider, no        *)
(* journal and conflicting records, leave nothing behind (lease_cli).      *)
THEOREM HarmlessRefusal == Spec => []RefusalIsHarmless
<1>1. Init => RefusalIsHarmless
  BY DEF Init, RefusalIsHarmless
<1>2. TypeOK /\ IInv /\ IInv' /\ RInv /\ RefusalIsHarmless /\ [Next]_allVars => RefusalIsHarmless'
  BY RefusalStep
<1> QED BY <1>1, <1>2, TypeCorrect, Invariance, RecordsAgree, PTL DEF Spec

-----------------------------------------------------------------------------
(***************************************************************************)
(* The lease implements LeasePromise.                                      *)
(***************************************************************************)
\* What the promise does not cover: a create that is accepted when its client
\* is gone, a deleted service that is shown again, and a failing disk.
Calm == ~LateCreates /\ MaxResurfaced = 0 /\ ~DiskFaults

\* Where an exact id is being deleted or looked up.
ExactPlaces == {"probe", "redelete", "delete", "verify", "closed", "unverified"}

\* The role's deletion is journalled, its service is gone, or either is on record.
Marked(r) == journal[r].state = "deleting"
Gone(r) == created[r] \notin live
Sure(r) == Marked(r) \/ Verified(journal[r])

\* A create is outstanding only while acquire waits for it, no two roles have
\* the same service, and a role whose absence is recorded has none any more.
Decidedly ==
    /\ \A r \in pending : At("await") /\ cmd.role = r
    /\ \A r, q \in Role : r # q /\ created[r] # NoId => created[r] # created[q]
    /\ \A r \in Role : Verified(journal[r]) => Gone(r)
    /\ \A r \in Role : journal[r].result = "verified-namespace" => journal[r].id = NoId

\* What stands in the journal before a role is used, and while it is.
Blank == \A r \in Role : journal[r] = NoRecord /\ view[r] = NoRecord

Unused ==
    /\ step = "acquire" => Blank
    /\ At("construct") => \A r \in Role : Phase(journal[r]) = "unused"
    /\ At("creating") => Phase(journal[cmd.role]) = "unused"
    /\ cmd.at \in CreatePlaces \cup {"creating"} /\ cmd.role = "outline"
            => Phase(journal["sink"]) = "unused"
    /\ cmd.mode = "begin" => \A r \in Role : journal[r].state \in {"issued", "testing"}

\* The memory of an acquisition is its journal, and it lacks the id of one
\* service at most: the other role is then known or not in use.
Mirrored ==
    cmd.mode = "acquire" =>
        /\ \A r \in Role : view[r].state = journal[r].state
        /\ \A q, r \in Role : q # r /\ created[q] # view[q].id
                => view[r].state = "absent" \/ view[r].id # NoId

\* Where a service is deleted by its id, the journal said so before.
Exactly ==
    cmd.at \in ExactPlaces =>
        /\ view[cmd.role].id # NoId
        /\ cmd.at \in {"delete", "verify", "closed"} => Marked(cmd.role)
        /\ At("closed") => Gone(cmd.role)

\* Where services are deleted by their tag, too.
Tagwise ==
    /\ cmd.at \in ReapPlaces /\ cmd.level \in {"lease", "bundle"} => cmd.active = OtherIds
    /\ cmd.at \in ReapPlaces /\ cmd.level = "proof" => cmd.bound = 0 /\ cmd.cands = {}
    /\ cmd.at \in ReapPlaces => \A r \in Role : created[r] \in cmd.cands => Marked(r)
    /\ At("settled") => Gone(cmd.role)
    /\ At("closing") => cmd.level \in {"lease", "bundle"}

\* The role's deletion is on record and nothing of it is left to do.
Spared(m, v, r) == m = "active" /\ v[r].state = "absent" /\ v[r].result = "verified"

Intended ==
    At("intent") =>
        /\ cmd.todo \cup {cmd.role} \subseteq NeedsIntent(cmd.mode, view)
        /\ \A r \in Role \ (cmd.todo \cup {cmd.role}) :
                IF Spared(cmd.mode, view, r) THEN Verified(journal[r]) ELSE Marked(r)

\* A role whose exact id is still to be looked at, and the journal j.
Untried(m, v, j, r) ==
    /\ v[r].id # NoId
    /\ IF m = "reverify" THEN j[r] = v[r] ELSE j[r].state = "deleting"

Deletable ==
    cmd.mode \in CleanupMode /\ cmd.at \in ExactPlaces =>
        /\ cmd.role \notin cmd.todo
        /\ \A r \in cmd.todo : Untried(cmd.mode, view, journal, r)
        /\ At("probe") => cmd.mode = "reverify" /\ Untried(cmd.mode, view, journal, cmd.role)
        /\ \A r \in Role : view[r].id # NoId =>
                r \in cmd.todo \cup {cmd.role} \/ cmd.failed \/ Verified(journal[r])

\* What a cleanup has proved of each role.
Proven ==
    cmd.mode \in CleanupMode =>
        /\ cmd.at \notin {"intent", "failed"} => \A r \in Role : Sure(r)
        /\ cmd.at \in ReapPlaces \cup {"settle", "file"} =>
              /\ cmd.failed => cmd.mode = "reverify"
              /\ \A r \in Role : view[r].id # NoId => cmd.failed \/ Verified(journal[r])
        /\ At("settle") => \A r \in Role \ (cmd.todo \cup {cmd.role}) :
                                view[r].id = NoId => Verified(journal[r])
        /\ cmd.at \in {"settle", "file", "ok"} => \A r \in Role : Gone(r)
        /\ At("ok") => \A r \in Role : Verified(journal[r])

\* The inductive invariant behind ImplementsPromise.
PInv == Decidedly /\ Unused /\ Mirrored /\ Exactly /\ Tagwise /\ Intended /\ Deletable /\ Proven

-----------------------------------------------------------------------------
(* What a command writes while the disk works. *)
LEMMA CalmAppend ==
  ASSUME Calm, NEW r, NEW rec, NEW ok, NEW ko, AppendRecord(r, rec, ok, ko)
  PROVE  journal' = [journal EXCEPT ![r] = rec] /\ cmd' = ok
BY DEF Calm, AppendRecord, Journal, DiskFault

\* A transition changes memory and the journal alike.
LEMMA CalmTransition ==
  ASSUME Calm, NEW r, NEW s, NEW res, NEW ok, NEW ko, Transition(r, s, res, ok, ko)
  PROVE  /\ journal' = [journal EXCEPT ![r] = Rec(s, view[r].id, res)]
         /\ view' = [view EXCEPT ![r] = Rec(s, view[r].id, "none")]
         /\ cmd' = ok /\ s \in AllowedTransitions[view[r].state]
BY CalmAppend DEF Transition

\* The record that may be written at the place a command has reached.
Due(rec) ==
    /\ rec.result = "verified-namespace" => rec.id = NoId
    /\ \/ At("construct") /\ rec = Rec("absent", NoId, "none")
       \/ At("creating") /\ rec.state = "creating"
       \/ At("record") /\ rec.state = "creating"
       \/ At("healthy") /\ rec.state = "healthy"
       \/ At("issue") /\ rec.state = "issued" /\ view[cmd.role].state \in {"healthy", "none"}
       \/ At("testing") /\ rec.state = "testing"
       \/ cmd.at \in {"closing", "unproven", "intent", "redelete", "unverified"} /\ rec.state = "deleting"
       \/ cmd.at \in {"closed", "settled", "settle"} /\ Verified(rec)

\* Every write of a command is due where the command stands.
LEMMA Written ==
  ASSUME Calm, TypeOK, IInv, Named, AcquireStep \/ ProviderStep \/ CommandStep
  PROVE  \/ journal' = journal
         \/ \E rec : journal' = [journal EXCEPT ![cmd.role] = rec] /\ Due(rec)
<1> DEFINE r == cmd.role
<1>0. r \in Role /\ view \in [Role -> Record] /\ view[r].state \in LeaseStates \cup {"none"}
  BY CmdFields DEF TypeOK, LeaseTypeOK, Record
<1> DEFINE W(rec) == journal' = [journal EXCEPT ![r] = rec]
<1>1. CASE Construct
  <2>1. W(Rec("absent", NoId, "none"))
    BY <1>1, CalmAppend DEF Construct
  <2>3. Due(Rec("absent", NoId, "none"))
    BY <1>1, <2>1 DEF Construct, Due, Rec
  <2> QED BY <2>1, <2>3
<1>2. CASE Creating
  <2>1. W(Rec("creating", view[r].id, "none"))
    BY <1>2, CalmTransition DEF Creating
  <2>3. Due(Rec("creating", view[r].id, "none"))
    BY <1>2, <2>1 DEF Creating, Due, Rec
  <2> QED BY <2>1, <2>3
<1>3. CASE RecordHandle
  <2>1. W(Rec(view[r].state, view[r].id, "none"))
    BY <1>3, CalmAppend DEF RecordHandle
  <2>2. view[r].state = "creating"
    BY <1>3 DEF RecordHandle, At, IInv, OneCreate, CreatePlaces
  <2>3. Due(Rec(view[r].state, view[r].id, "none"))
    BY <1>3, <2>1, <2>2 DEF RecordHandle, Due, Rec
  <2> QED BY <2>1, <2>3
<1>4. CASE Healthy
  <2>1. W(Rec("healthy", view[r].id, "none"))
    BY <1>4, CalmTransition DEF Healthy
  <2>3. Due(Rec("healthy", view[r].id, "none"))
    BY <1>4, <2>1 DEF Healthy, Due, Rec
  <2> QED BY <2>1, <2>3
<1>5. CASE MarkIssued
  <2>1. W(Rec("issued", view[r].id, "none")) /\ "issued" \in AllowedTransitions[view[r].state]
    <3>1. CASE r = "outline"
      BY <1>5, <3>1, CalmTransition DEF MarkIssued
    <3>2. CASE r = "sink"
      BY <1>5, <3>2, CalmTransition DEF MarkIssued
    <3> QED BY <1>0, <3>1, <3>2 DEF Role
  <2>2. view[r].state \in {"healthy", "none"}
    BY <1>0, <2>1 DEF LeaseStates, AllowedTransitions
  <2>3. Due(Rec("issued", view[r].id, "none"))
    BY <1>5, <2>1, <2>2 DEF MarkIssued, Due, Rec
  <2> QED BY <2>1, <2>3
<1>6. CASE Closing
  <2>1. CASE view[r].state = "deleting"
    BY <1>6, <2>1 DEF Closing
  <2>2. CASE view[r].state # "deleting"
    <3>1. W(Rec("deleting", view[r].id, "none"))
      BY <1>6, <2>2, CalmTransition DEF Closing
    <3>3. Due(Rec("deleting", view[r].id, "none"))
      BY <1>6, <3>1 DEF Closing, Due, Rec, At
    <3> QED BY <3>1, <3>3
  <2> QED BY <2>1, <2>2
<1>7. CASE LeaseClosed
  <2>1. W(Rec("absent", view[r].id, "verified"))
    BY <1>7, CalmTransition DEF LeaseClosed
  <2>3. Due(Rec("absent", view[r].id, "verified"))
    BY <1>7, <2>1 DEF LeaseClosed, Due, Rec, At, Verified
  <2> QED BY <2>1, <2>3
<1>8. CASE LeaseSettled
  <2>1. W(Rec("absent", view[r].id, "verified-namespace"))
    BY <1>8, CalmTransition DEF LeaseSettled
  <2>2. view[r].id = NoId
    BY <1>8 DEF LeaseSettled, At, Named, IInv, Control
  <2>3. Due(Rec("absent", view[r].id, "verified-namespace"))
    BY <1>8, <2>1, <2>2 DEF LeaseSettled, Due, Rec, At, Verified
  <2> QED BY <2>1, <2>3
<1>9. CASE LeaseUnproven
  <2>1. W(Rec(view[r].state, NoId, "unverified-no-service-id"))
    BY <1>9, CalmAppend DEF LeaseUnproven
  <2>2. view[r].state = "deleting"
    BY <1>9 DEF LeaseUnproven, At, IInv, OneCreate, Control
  <2>3. Due(Rec(view[r].state, NoId, "unverified-no-service-id"))
    BY <1>9, <2>1, <2>2 DEF LeaseUnproven, Due, Rec, At
  <2> QED BY <2>1, <2>3
<1>10. CASE Intent
  <2>1. W(Rec("deleting", view[r].id, "none"))
    BY <1>10, CalmAppend DEF Intent
  <2>3. Due(Rec("deleting", view[r].id, "none"))
    BY <1>10, <2>1 DEF Intent, Due, Rec, At
  <2> QED BY <2>1, <2>3
<1>11. CASE Redelete
  <2>1. W(Rec("deleting", view[r].id, "none"))
    BY <1>11, CalmAppend DEF Redelete
  <2>3. Due(Rec("deleting", view[r].id, "none"))
    BY <1>11, <2>1 DEF Redelete, Due, Rec, At
  <2> QED BY <2>1, <2>3
<1>12. CASE Closed
  <2>1. W(Rec("absent", view[r].id, "verified"))
    BY <1>12, CalmAppend DEF Closed
  <2>3. Due(Rec("absent", view[r].id, "verified"))
    BY <1>12, <2>1 DEF Closed, Due, Rec, At, Verified
  <2> QED BY <2>1, <2>3
<1>13. CASE Unverified
  <2>1. W(Rec("deleting", view[r].id, "delete-unverified"))
    BY <1>13, CalmAppend DEF Unverified
  <2>3. Due(Rec("deleting", view[r].id, "delete-unverified"))
    BY <1>13, <2>1 DEF Unverified, Due, Rec, At
  <2> QED BY <2>1, <2>3
<1>14. CASE Settle
  <2>1. W(Rec("absent", NoId, "verified-namespace"))
    BY <1>14, CalmAppend DEF Settle
  <2>3. Due(Rec("absent", NoId, "verified-namespace"))
    BY <1>14, <2>1 DEF Settle, Due, Rec, At, Verified
  <2> QED BY <2>1, <2>3
<1>15. CASE Testing
  <2>1. W(Rec("testing", lease.ids[r], "none"))
    BY <1>15, CalmAppend DEF Testing
  <2>3. Due(Rec("testing", lease.ids[r], "none"))
    BY <1>15, <2>1 DEF Testing, Due, Rec
  <2> QED BY <2>1, <2>3
<1>16. CASE \/ BundleDeadline \/ Post \/ CreateAnswered \/ CreateRefused \/ CreateAnswerLost
            \/ WaitUntilReady \/ HandOff \/ InstallLease \/ AlreadyAbsent
            \/ ProviderStep \/ Probe \/ RecordAbsence \/ MarkTesting
  BY <1>16 DEF BundleDeadline, Post, CreateAnswered, CreateRefused, CreateAnswerLost,
     WaitUntilReady, HandOff, InstallLease, AlreadyAbsent, Probe, RecordAbsence, MarkTesting, disk,
     ProviderStep, Delete, Verify, List, ReapDelete, ReapVerify, Relist, AssertAbsent
<1> QED
  BY <1>1, <1>2, <1>3, <1>4, <1>5, <1>6, <1>7, <1>8, <1>9, <1>10, <1>11, <1>12, <1>13, <1>14,
     <1>15, <1>16 DEF AcquireStep, CommandStep

\* The same, role by role.
LEMMA Recorded ==
  ASSUME Calm, TypeOK, IInv, Named, AcquireStep \/ ProviderStep \/ CommandStep
  PROVE  \A q \in Role : journal'[q] = journal[q] \/ (q = cmd.role /\ Due(journal'[q]))
<1>1. journal \in [Role -> Record]
  BY DEF TypeOK, LeaseTypeOK
<1> QED BY <1>1, Written

-----------------------------------------------------------------------------
(* Each part of the invariant, over the steps of the running command. *)

\* A command that goes on has got its answer.
LEMMA Answered ==
  ASSUME Calm, TypeOK, Decidedly, AcquireStep \/ ProviderStep \/ CommandStep
  PROVE  pending = {}
<1> SUFFICES ASSUME NEW r \in pending PROVE FALSE
  OBVIOUS
<1>1. cmd.at = "await" /\ cmd.role \in pending
  BY DEF Decidedly, At
<1>2. CreateAnswered \/ CreateRefused \/ CreateAnswerLost
  BY <1>1 DEF AcquireStep, Construct, Creating, BundleDeadline, Post, RecordHandle,
     WaitUntilReady, Healthy, HandOff, MarkIssued, InstallLease, AlreadyAbsent, Closing,
     LeaseClosed, LeaseSettled, LeaseUnproven, ProviderStep, Delete, Verify, List, ReapDelete,
     ReapVerify, Relist, AssertAbsent, CommandStep, Intent, Probe, Redelete, Closed, Unverified,
     Settle, RecordAbsence, Testing, MarkTesting, At
<1> QED BY <1>1, <1>2 DEF CreateAnswered, CreateRefused, CreateAnswerLost, Calm

\* Deletion and proof leave no doubt about what is gone.
LEMMA DecidedlyStep ==
  ASSUME Calm, TypeOK, IInv, RInv, PInv, AcquireStep \/ ProviderStep \/ CommandStep
  PROVE  Decidedly'
<1>0. created' = created /\ live' \subseteq live /\ cmd \in Cmd
  BY AccountMoves DEF TypeOK, LeaseTypeOK
<1>1. \A r \in pending' : cmd'.at = "await" /\ cmd'.role = r
  <2>1. pending = {}
    BY Answered DEF PInv
  <2>2. pending' = {} \/ (At("post") /\ pending' = {cmd.role})
    BY <2>1, AccountMoves
  <2>3. At("post") => Post
    BY DEF AcquireStep, Construct, Creating, BundleDeadline, CreateAnswered, CreateRefused,
       CreateAnswerLost, RecordHandle, WaitUntilReady, Healthy, HandOff, MarkIssued,
       InstallLease, AlreadyAbsent, Closing, LeaseClosed, LeaseSettled, LeaseUnproven,
       ProviderStep, Delete, Verify, List, ReapDelete, ReapVerify, Relist, AssertAbsent,
       CommandStep, Intent, Probe, Redelete, Closed, Unverified, Settle, RecordAbsence, Testing,
       MarkTesting, At
  <2>4. Post => cmd'.at = "await" /\ cmd'.role = cmd.role
    BY <1>0 DEF Post, Goto, To, Cmd
  <2> QED BY <2>2, <2>3, <2>4
<1>2. ASSUME NEW r \in Role PROVE Verified(journal'[r]) => Gone(r)'
  <2>1. journal'[r] = journal[r] \/ (r = cmd.role /\ Due(journal'[r]))
    BY Recorded DEF RInv
  <2>2. CASE journal'[r] = journal[r]
    BY <1>0, <2>2 DEF PInv, Decidedly, Gone
  <2>3. CASE r = cmd.role /\ cmd.at \in {"closed", "settled", "settle"}
    <3>1. Gone(cmd.role)
      <4>1. CASE At("closed")
        BY <4>1 DEF PInv, Exactly, ExactPlaces, At
      <4>2. CASE At("settled")
        BY <4>2 DEF PInv, Tagwise
      <4>3. CASE At("settle")
        <5>1. cmd.mode \in CleanupMode
          BY <4>3 DEF IInv, Control, CleanupPlaces, At
        <5> QED BY <4>3, <5>1, CmdFields DEF PInv, Proven, At, TypeOK, LeaseTypeOK
      <4> QED BY <2>3, <4>1, <4>2, <4>3 DEF At
    <3> QED BY <1>0, <2>3, <3>1 DEF Gone
  <2>4. CASE r = cmd.role /\ Due(journal'[r]) /\ cmd.at \notin {"closed", "settled", "settle"}
    BY <2>4 DEF Due, Verified, Rec
  <2> QED BY <2>1, <2>2, <2>3, <2>4
<1>3. ASSUME NEW r \in Role, journal'[r].result = "verified-namespace" PROVE journal'[r].id = NoId
  <2>1. journal'[r] = journal[r] \/ Due(journal'[r])
    BY Recorded DEF RInv
  <2> QED BY <1>3, <2>1 DEF PInv, Decidedly, Due
<1>4. \A r, q \in Role : r # q /\ created'[r] # NoId => created'[r] # created'[q]
  BY <1>0 DEF PInv, Decidedly
<1> QED BY <1>1, <1>2, <1>3, <1>4 DEF Decidedly, At

\* What a deletion or proof needs no journal for: the two leases of an
\* acquisition come one after the other.
LEMMA UnusedStep ==
  ASSUME Calm, TypeOK, TypeOK', IInv, IInv', RInv, PInv, UNCHANGED step,
         AcquireStep \/ ProviderStep \/ CommandStep
  PROVE  Unused'
<1>0. cmd \in Cmd /\ cmd.role \in Role /\ step # "acquire" /\ cmd'.mode = cmd.mode
  BY CmdFields, StepMode DEF TypeOK, LeaseTypeOK
<1>1. \A q \in Role : journal'[q] = journal[q] \/ (q = cmd.role /\ Due(journal'[q]))
  BY Recorded DEF RInv
<1>2. ASSUME cmd'.at \in CreatePlaces \cup {"creating", "construct"} PROVE Onward
  <2>1. cmd'.at \in Plain
    BY <1>2 DEF Plain
  <2>2. cmd'.mode = "acquire"
    BY <1>2 DEF IInv, Control, AcquirePlaces
  <2> QED BY <2>1, <2>2, OnlyOnward DEF RInv
<1>3. ASSUME At("construct") PROVE \A q \in Role : Phase(journal'[q]) = "unused"
  <2>1. \A q \in Role : Phase(journal[q]) = "unused"
    BY <1>3 DEF PInv, Unused
  <2>2. Phase(Rec("absent", NoId, "none")) = "unused"
    BY DEF Phase, Rec, Verified
  <2>3. \A rec : Due(rec) => rec = Rec("absent", NoId, "none")
    BY <1>3 DEF Due, At
  <2> QED BY <1>1, <2>1, <2>2, <2>3
<1>4. ASSUME cmd'.at = "construct" PROVE \A q \in Role : Phase(journal'[q]) = "unused"
  <2>1. At("construct")
    BY <1>2, <1>4 DEF Onward, Reaches
  <2> QED BY <1>3, <2>1
<1>5. ASSUME cmd'.at = "creating" PROVE Phase(journal'[cmd'.role]) = "unused"
  <2>1. \/ At("construct") /\ cmd'.role = "outline"
        \/ At("healthy") /\ cmd.role = "outline" /\ cmd'.role = "sink"
    BY <1>2, <1>5 DEF Onward, Reaches
  <2>2. CASE At("construct") /\ cmd'.role = "outline"
    BY <1>3, <2>2 DEF Role
  <2>3. CASE At("healthy") /\ cmd.role = "outline" /\ cmd'.role = "sink"
    <3>1. Phase(journal["sink"]) = "unused"
      BY <2>3 DEF PInv, Unused, CreatePlaces, At
    <3>2. journal'["sink"] = journal["sink"]
      BY <1>1, <2>3 DEF Role
    <3> QED BY <2>3, <3>1, <3>2
  <2> QED BY <2>1, <2>2, <2>3
<1>6. ASSUME cmd'.at \in CreatePlaces \cup {"creating"}, cmd'.role = "outline"
      PROVE  Phase(journal'["sink"]) = "unused"
  <2>1. \/ At("construct")
        \/ cmd.at \in CreatePlaces \cup {"creating"} /\ cmd.role = "outline"
    BY <1>2, <1>6 DEF Onward, Reaches, CreatePlaces, At
  <2>2. CASE At("construct")
    BY <1>3, <2>2 DEF Role
  <2>3. CASE cmd.at \in CreatePlaces \cup {"creating"} /\ cmd.role = "outline"
    <3>1. Phase(journal["sink"]) = "unused"
      BY <2>3 DEF PInv, Unused
    <3>2. journal'["sink"] = journal["sink"]
      BY <1>1, <2>3 DEF Role
    <3> QED BY <3>1, <3>2
  <2> QED BY <2>1, <2>2, <2>3
<1>7. ASSUME cmd'.mode = "begin" PROVE \A q \in Role : journal'[q].state \in {"issued", "testing"}
  <2>1. \A q \in Role : journal[q].state \in {"issued", "testing"}
    BY <1>0, <1>7 DEF PInv, Unused
  <2>2. cmd.at \in {"testing", "mark"}
    BY <1>0, <1>7, StepMode DEF CleanupMode
  <2>3. \A rec : Due(rec) => rec.state = "testing"
    BY <2>2 DEF Due, At
  <2> QED BY <1>1, <2>1, <2>3
<1> QED BY <1>0, <1>4, <1>5, <1>6, <1>7 DEF Unused, At

\* In an acquisition memory and journal move together.
LEMMA Together ==
  ASSUME Calm, TypeOK, IInv, RInv, PInv, AcquireStep
  PROVE  \A r \in Role : /\ view'[r].state = journal'[r].state
                         /\ \/ view'[r].state \in {view[r].state, "absent"}
                            \/ view[r].state # "absent"
                            \/ r = cmd.role /\ At("creating")
<1> DEFINE r == cmd.role
<1>0. r \in Role /\ view \in [Role -> Record] /\ journal \in [Role -> Record]
  BY CmdFields DEF TypeOK, LeaseTypeOK
<1>a. cmd.mode = "acquire"
  BY AcquireLeads DEF IInv
<1>b. \A q \in Role : view[q].state = journal[q].state
  BY <1>a DEF PInv, Mirrored
<1>c. ASSUME NEW s, NEW res, NEW ok, NEW ko, Transition(r, s, res, ok, ko)
      PROVE  /\ \A q \in Role : view'[q].state = journal'[q].state
             /\ \A q \in Role \ {r} : view'[q] = view[q]
             /\ view'[r].state = s /\ s \in AllowedTransitions[view[r].state]
  BY <1>0, <1>b, <1>c, CalmTransition DEF Rec
<1>d. ASSUME NEW rec, NEW ok, NEW ko, AppendRecord(r, rec, ok, ko), view' = view, rec.state = view[r].state
      PROVE  \A q \in Role : view'[q].state = journal'[q].state
  BY <1>0, <1>b, <1>d, CalmAppend
<1>1. CASE Construct
  BY <1>0, <1>b, <1>1, CalmAppend DEF Construct, Rec
<1>2. CASE Creating
  BY <1>c, <1>2 DEF Creating
<1>3. CASE RecordHandle
  BY <1>d, <1>3 DEF RecordHandle, Rec
<1>4. CASE LeaseUnproven
  BY <1>d, <1>4 DEF LeaseUnproven, Rec
<1>5. CASE CreateAnswered
  <2>1. \A q \in Role : view'[q].state = view[q].state
    BY <1>0, <1>5 DEF CreateAnswered, Record
  <2> QED BY <1>b, <1>5, <2>1 DEF CreateAnswered, disk
<1>6. CASE Healthy
  <2>1. view[r].state # "absent"
    BY <1>6 DEF Healthy, At, IInv, OneCreate, CreatePlaces
  <2> QED BY <1>c, <1>6, <2>1 DEF Healthy
<1>7. CASE MarkIssued
  <2>1. \E ok, ko : Transition(r, "issued", "none", ok, ko)
    <3>1. CASE r = "outline"
      BY <1>7, <3>1 DEF MarkIssued
    <3>2. CASE r = "sink"
      BY <1>7, <3>2 DEF MarkIssued
    <3> QED BY <1>0, <3>1, <3>2 DEF Role
  <2>2. "issued" \notin AllowedTransitions["absent"]
    BY DEF AllowedTransitions
  <2> QED BY <1>c, <2>1, <2>2
<1>8. CASE Closing
  <2>1. view[r].state # "absent"
    BY <1>8 DEF Closing
  <2>2. CASE view[r].state = "deleting"
    BY <1>b, <1>8, <2>2 DEF Closing
  <2>3. CASE view[r].state # "deleting"
    BY <1>c, <1>8, <2>1, <2>3 DEF Closing
  <2> QED BY <2>2, <2>3
<1>9. CASE LeaseClosed \/ LeaseSettled
  BY <1>c, <1>9 DEF LeaseClosed, LeaseSettled
<1>10. CASE \/ BundleDeadline \/ Post \/ CreateRefused \/ CreateAnswerLost \/ WaitUntilReady
            \/ HandOff \/ InstallLease \/ AlreadyAbsent
  BY <1>b, <1>10 DEF BundleDeadline, Post, CreateRefused, CreateAnswerLost, WaitUntilReady,
     HandOff, InstallLease, AlreadyAbsent, disk
<1> QED
  BY <1>1, <1>2, <1>3, <1>4, <1>5, <1>6, <1>7, <1>8, <1>9, <1>10 DEF AcquireStep

\* At most one id of an acquisition is unknown to it.
LEMMA MirroredStep ==
  ASSUME Calm, TypeOK, IInv, RInv, PInv, AcquireStep \/ ProviderStep \/ CommandStep
  PROVE  Mirrored'
<1> SUFFICES ASSUME cmd'.mode = "acquire" PROVE Mirrored'
  BY DEF Mirrored
<1>0. cmd.mode = "acquire" /\ cmd.role \in Role /\ created' = created
  BY StepMode, CmdFields, AccountMoves DEF TypeOK, LeaseTypeOK
<1>1. CASE ~AcquireStep
  <2>1. ProviderStep
    BY <1>0, <1>1, StepMode DEF CleanupMode
  <2>2. view' = view /\ journal' = journal
    BY <2>1, ProviderDecided DEF disk
  <2> QED BY <1>0, <2>2 DEF PInv, Mirrored
<1>2. CASE AcquireStep
  <2>1. \A r \in Role : view'[r].state = journal'[r].state
    BY <1>2, Together
  <2>2. ASSUME NEW q \in Role, NEW r \in Role, q # r, created'[q] # view'[q].id,
               view'[r].state # "absent", view'[r].id = NoId
        PROVE  FALSE
    <3>1. created[q] # view[q].id
      <4>1. view'[q].id = view[q].id \/ (CreateAnswered /\ q = cmd.role)
        BY ViewMoves
      <4>2. CreateAnswered => view'[cmd.role].id = created[cmd.role]
        BY <1>0 DEF CreateAnswered, TypeOK, LeaseTypeOK, Record
      <4> QED BY <1>0, <2>2, <4>1, <4>2
    <3>2. view[r].id = NoId
      BY <2>2, ViewMoves
    <3>3. view[r].state = "absent"
      BY <1>0, <2>2, <3>1, <3>2 DEF PInv, Mirrored
    <3>4. r = cmd.role /\ At("creating")
      BY <1>2, <2>2, <3>3, Together
    <3>5. CASE r = "sink"
      <4>1. q = "outline" /\ view["outline"].id # NoId
        BY <2>2, <3>4, <3>5 DEF RInv, Named, At, Role
      <4> QED BY <3>1, <4>1 DEF IInv, Ledger, Role
    <3>6. CASE r = "outline"
      <4>1. q = "sink" /\ created["sink"] = NoId
        BY <2>2, <3>4, <3>6 DEF IInv, OneCreate, Untouched, At, Role
      <4> QED BY <3>1, <4>1 DEF IInv, Ledger, Role
    <3> QED BY <3>5, <3>6 DEF Role
  <2> QED BY <2>1, <2>2 DEF Mirrored
<1> QED BY <1>1, <1>2

-----------------------------------------------------------------------------
(* The loops of a cleanup, from whatever place they are entered. *)

\* Where a deletion loop over S leads: into it, or past its end.
Enters(c, S, d) ==
    /\ d.mode = c.mode /\ d.failed = c.failed
    /\ S # {} => /\ d.at = IF c.mode = "reverify" THEN "probe" ELSE "delete"
                 /\ d.role \in S /\ d.todo = S \ {d.role}
    /\ S = {} => \/ d.at = "failed"
                 \/ /\ d.at = "list" /\ d.level = "command" /\ d.cands = {}
                    /\ d.failed => d.mode = "reverify"

\* A deletion loop is entered, or it is over.
LEMMA DeletingEnters ==
  ASSUME NEW c \in Cmd, NEW S \in SUBSET Role, NEW v
  PROVE  Enters(c, S, Deleting(c, S, v))
<1> DEFINE p == IF c.mode = "reverify" THEN "probe" ELSE "delete"
           d == Deleting(c, S, v)
<1>1. CASE S = {}
  <2>1. d = IF c.failed /\ c.mode # "reverify" THEN [c EXCEPT !.at = "failed"]
            ELSE Reap(c, Known(v), Cardinality(Unknown(v)), "command")
    BY <1>1 DEF Deleting, Loop, Proving
  <2>2. CASE c.failed /\ c.mode # "reverify"
    BY <1>1, <2>1, <2>2 DEF Cmd, Enters
  <2>3. CASE ~(c.failed /\ c.mode # "reverify")
    <3>1. /\ d.mode = c.mode /\ d.failed = c.failed /\ d.at = "list" /\ d.level = "command"
          /\ d.cands = {}
      BY <2>1, <2>3 DEF Reap, Cmd
    <3> QED BY <1>1, <2>3, <3>1 DEF Enters
  <2> QED BY <2>2, <2>3
<1>2. CASE S # {}
  <2>1. d = [c EXCEPT !.at = p, !.role = First(S), !.todo = S \ {First(S)}]
    BY <1>2 DEF Deleting, Loop
  <2>2. First(S) \in S
    BY <1>2 DEF First, Role
  <2> QED BY <1>2, <2>1, <2>2 DEF Cmd, Enters
<1> QED BY <1>1, <1>2

\* A deletion loop may start where every role is sure to be gone or marked.
LEMMA DeletingFit ==
  ASSUME TypeOK', NEW c \in Cmd, NEW S \in SUBSET Role, c.mode \in CleanupMode,
         cmd' = Deleting(c, S, view'),
         \A r \in Role : Sure(r)',
         \A r \in S : Untried(c.mode, view', journal', r),
         \A r \in Role : view'[r].id # NoId => r \in S \/ c.failed \/ Verified(journal'[r])
  PROVE  (Exactly /\ Tagwise /\ Intended /\ Deletable /\ Proven)'
<1>0. cmd' \in Cmd /\ cmd'.role \in Role
  <2>1. cmd' \in Cmd
    BY DEF TypeOK, LeaseTypeOK
  <2> QED BY <2>1 DEF Cmd
<1>1. Enters(c, S, cmd')
  BY DeletingEnters
<1> USE DEF Enters
<1>2. CASE S = {}
  <2>1. CASE cmd'.at = "failed"
    BY <2>1 DEF Exactly, Tagwise, Intended, Deletable, Proven, ExactPlaces, ReapPlaces, At
  <2>2. CASE cmd'.at = "list"
    <3>1. cmd'.level = "command" /\ cmd'.cands = {} /\ (cmd'.failed => cmd'.mode = "reverify")
      BY <1>1, <1>2, <2>2
    <3>2. Exactly' /\ Intended' /\ Deletable'
      BY <2>2 DEF Exactly, Intended, Deletable, ExactPlaces, At
    <3>3. Tagwise'
      BY <2>2, <3>1 DEF Tagwise, At
    <3>4. Proven'
      BY <1>1, <1>2, <2>2, <3>1 DEF Proven, At
    <3> QED BY <3>2, <3>3, <3>4
  <2> QED BY <1>1, <1>2, <2>1, <2>2
<1>3. CASE S # {}
  <2>1. cmd'.at \in {"probe", "delete"} /\ (cmd'.at = "probe" <=> cmd'.mode = "reverify")
    BY <1>1, <1>3
  <2>2. /\ cmd'.role \in S /\ cmd'.todo = S \ {cmd'.role}
        /\ Untried(cmd'.mode, view', journal', cmd'.role)
        /\ \A r \in cmd'.todo : Untried(cmd'.mode, view', journal', r)
    BY <1>1, <1>3
  <2>3. Exactly'
    BY <2>1, <2>2 DEF Exactly, Untried, Marked, At
  <2>4. Tagwise' /\ Intended'
    BY <2>1 DEF Tagwise, Intended, ReapPlaces, At
  <2>5. Deletable'
    BY <1>1, <2>1, <2>2 DEF Deletable, At
  <2>6. Proven'
    BY <2>1 DEF Proven, ReapPlaces, At
  <2> QED BY <2>3, <2>4, <2>5, <2>6
<1> QED BY <1>2, <1>3

\* The loop of intents may start where the other roles have theirs.
LEMMA IntendingFit ==
  ASSUME TypeOK', NEW c \in Cmd, c.mode \in {"recover", "active"},
         NEW S \in SUBSET NeedsIntent(c.mode, view'),
         cmd' = Intending(c, S, view'),
         \A r \in Role \ S : IF Spared(c.mode, view', r) THEN Verified(journal'[r]) ELSE Marked(r)'
  PROVE  (Exactly /\ Tagwise /\ Intended /\ Deletable /\ Proven)'
<1>0. S \in SUBSET Role /\ c.mode \in CleanupMode
  BY DEF NeedsIntent, CleanupMode
<1>1. CASE S = {}
  <2> DEFINE N == NeedsDelete(c.mode, view')
  <2>1. cmd' = Deleting(c, N, view') /\ N \in SUBSET Role
    BY <1>1 DEF Intending, Loop, NeedsDelete
  <2>2. \A r \in Role : Sure(r)'
    BY <1>1 DEF Sure
  <2>3. ASSUME NEW r \in N PROVE Untried(c.mode, view', journal', r)
    <3>1. r \in Role /\ ~Spared(c.mode, view', r) /\ view'[r].id # NoId
      BY <2>3 DEF NeedsDelete, Spared
    <3> QED BY <1>1, <3>1 DEF Untried, Marked
  <2>4. ASSUME NEW r \in Role, view'[r].id # NoId, r \notin N PROVE Verified(journal'[r])
    <3>1. Spared(c.mode, view', r)
      BY <2>4 DEF NeedsDelete, Spared
    <3> QED BY <1>1, <3>1
  <2> HIDE DEF N
  <2> QED BY <1>0, <2>1, <2>2, <2>3, <2>4, DeletingFit
<1>2. CASE S # {}
  <2>1. cmd'.at = "intent" /\ cmd'.todo \cup {cmd'.role} = S /\ cmd'.mode = c.mode
    <3>1. cmd' = [c EXCEPT !.at = "intent", !.role = First(S), !.todo = S \ {First(S)}]
      BY <1>2 DEF Intending, Loop
    <3>2. First(S) \in S
      BY <1>0, <1>2 DEF First, Role
    <3> QED BY <3>1, <3>2 DEF Cmd
  <2>2. Exactly' /\ Tagwise' /\ Deletable' /\ Proven'
    BY <2>1 DEF Exactly, Tagwise, Deletable, Proven, ExactPlaces, ReapPlaces, At
  <2>3. Intended'
    BY <2>1 DEF Intended, At
  <2> QED BY <2>2, <2>3
<1> QED BY <1>1, <1>2

-----------------------------------------------------------------------------
(* The steps of a cleanup. *)

\* The next exact id, after this role's fate is on record or has failed.
LEMMA NextDeleteFit ==
  ASSUME TypeOK, TypeOK', PInv, cmd.mode \in CleanupMode, cmd.at \in ExactPlaces, view' = view,
         NEW c \in Cmd, c.mode = cmd.mode, c.todo = cmd.todo, cmd.failed => c.failed,
         cmd' = NextDelete(c),
         \A q \in Role \ {cmd.role} : journal'[q] = journal[q],
         NEW r \in Role, r = cmd.role,
         Sure(r)', c.failed \/ Verified(journal'[r])
  PROVE  (Exactly /\ Tagwise /\ Intended /\ Deletable /\ Proven)'
<1>0. cmd.role \in Role /\ cmd.todo \in SUBSET Role
  BY CmdFields DEF TypeOK, LeaseTypeOK
<1>1. cmd' = Deleting(c, cmd.todo, view')
  BY DEF NextDelete
<1>2. \A q \in Role : Sure(q)'
  <2>1. \A q \in Role : Sure(q)
    BY DEF PInv, Proven, ExactPlaces
  <2> QED BY <2>1 DEF Sure, Marked
<1>3. ASSUME NEW q \in cmd.todo PROVE Untried(c.mode, view', journal', q)
  <2>1. q \in Role \ {cmd.role} /\ Untried(cmd.mode, view, journal, q)
    BY <1>0, <1>3 DEF PInv, Deletable
  <2> QED BY <2>1 DEF Untried
<1>4. \A q \in Role : view'[q].id # NoId => q \in cmd.todo \/ c.failed \/ Verified(journal'[q])
  <2>1. \A q \in Role : view[q].id # NoId =>
           q \in cmd.todo \cup {cmd.role} \/ cmd.failed \/ Verified(journal[q])
    BY DEF PInv, Deletable
  <2> QED BY <2>1
<1> QED BY <1>0, <1>1, <1>2, <1>3, <1>4, DeletingFit

\* One more step with the same exact id.
LEMMA SameIdFit ==
  ASSUME TypeOK, PInv, cmd.mode \in CleanupMode, cmd.at \in ExactPlaces,
         cmd'.at \in ExactPlaces \ {"probe"}, view' = view,
         cmd'.mode = cmd.mode, cmd'.role = cmd.role, cmd'.todo = cmd.todo, cmd'.failed = cmd.failed,
         \A q \in Role \ {cmd.role} : journal'[q] = journal[q],
         NEW r \in Role, r = cmd.role, Sure(r)',
         cmd'.at \in {"delete", "verify", "closed"} => Marked(r)',
         cmd'.at = "closed" => Gone(r)'
  PROVE  (Exactly /\ Tagwise /\ Intended /\ Deletable /\ Proven)'
<1>0. cmd.role \in Role /\ cmd.todo \in SUBSET Role
  BY CmdFields DEF TypeOK, LeaseTypeOK
<1>1. Exactly'
  BY DEF PInv, Exactly, At
<1>2. Tagwise' /\ Intended'
  BY DEF Tagwise, Intended, ReapPlaces, ExactPlaces, At
<1>3. Deletable'
  <2>1. cmd.role \notin cmd.todo /\ \A q \in cmd.todo : Untried(cmd.mode, view, journal, q)
    BY DEF PInv, Deletable
  <2>2. \A q \in cmd.todo : Untried(cmd.mode, view, journal', q)
    BY <1>0, <2>1 DEF Untried
  <2>3. \A q \in Role : view[q].id # NoId =>
           q \in cmd.todo \cup {cmd.role} \/ cmd.failed \/ Verified(journal[q])
    BY DEF PInv, Deletable
  <2>4. \A q \in Role : view'[q].id # NoId =>
           q \in cmd'.todo \cup {cmd'.role} \/ cmd'.failed \/ Verified(journal'[q])
    BY <2>3
  <2>5. cmd'.role \notin cmd'.todo /\ cmd'.at # "probe"
    BY <2>1
  <2> QED BY <2>2, <2>4, <2>5 DEF Deletable, At
<1>4. Proven'
  <2>1. \A q \in Role : Sure(q)
    BY DEF PInv, Proven, ExactPlaces
  <2>2. \A q \in Role : Sure(q)'
    BY <2>1 DEF Sure, Marked
  <2> QED BY <2>2 DEF Proven, ExactPlaces, ReapPlaces, At
<1> QED BY <1>1, <1>2, <1>3, <1>4

\* What a cleanup writes keeps its marks and proofs in step.
LEMMA CleanupWritesFit ==
  ASSUME Calm, TypeOK, TypeOK', IInv, RInv, PInv, CommandStep, cmd.mode \in CleanupMode
  PROVE  (Exactly /\ Tagwise /\ Intended /\ Deletable /\ Proven)'
<1> PICK r \in Role : r = cmd.role
  BY CmdFields DEF TypeOK, LeaseTypeOK
<1>0. /\ cmd \in Cmd /\ r \in Role /\ cmd.todo \in SUBSET Role /\ cmd.failed \in BOOLEAN
      /\ journal \in [Role -> Record] /\ view \in [Role -> Record]
  BY CmdFields DEF TypeOK, LeaseTypeOK
<1>a. view' = view /\ created' = created /\ live' = live
  BY CommandLeads DEF IInv, account
<1>b. \A q \in Role \ {r} : journal'[q] = journal[q]
  BY Recorded DEF RInv
<1>c. ASSUME NEW rec, NEW ok, NEW ko, AppendRecord(r, rec, ok, ko)
      PROVE  journal'[r] = rec /\ cmd' = ok
  BY <1>0, <1>c, CalmAppend
<1>d. \A s, i, x : Rec(s, i, x).state = s /\ Rec(s, i, x).id = i /\ Rec(s, i, x).result = x
  BY DEF Rec
<1>1. CASE Intent
  <2>0. cmd.at = "intent" /\ cmd.mode \in {"recover", "active"}
        /\ cmd.todo \cup {r} \subseteq NeedsIntent(cmd.mode, view)
    <3>1. cmd.at = "intent" /\ cmd.todo \cup {r} \subseteq NeedsIntent(cmd.mode, view)
      BY <1>1 DEF Intent, At, PInv, Intended
    <3> QED BY <3>1 DEF NeedsIntent
  <2>1. Marked(r)' /\ cmd' = Intending(cmd, cmd.todo, view')
    BY <1>1, <1>a, <1>c, <1>d DEF Intent, Marked
  <2>2. ~Spared(cmd.mode, view', r)
    BY <1>a, <2>0 DEF Spared, NeedsIntent
  <2>3. \A q \in Role \ cmd.todo : IF Spared(cmd.mode, view', q) THEN Verified(journal'[q]) ELSE Marked(q)'
    <3>1. \A q \in Role \ (cmd.todo \cup {r}) :
             IF Spared(cmd.mode, view, q) THEN Verified(journal[q]) ELSE Marked(q)
      BY <2>0 DEF PInv, Intended, At
    <3> QED BY <1>a, <1>b, <2>1, <2>2, <3>1 DEF Marked
  <2>4. cmd.todo \in SUBSET NeedsIntent(cmd.mode, view')
    BY <1>a, <2>0
  <2> QED BY <1>0, <2>0, <2>1, <2>3, <2>4, IntendingFit
<1>2. CASE Probe
  <2> DEFINE c == Spent(cmd)
  <2>0. /\ cmd.at = "probe" /\ cmd.at \in ExactPlaces /\ cmd.mode = "reverify"
        /\ journal[r] = view[r] /\ view[r].id # NoId /\ journal' = journal
    BY <1>2 DEF Probe, At, ExactPlaces, PInv, Deletable, Untried, disk
  <2>1. Sure(r) /\ Sure(r)'
    BY <1>0, <2>0 DEF PInv, Proven, Sure, Marked
  <2>2. /\ c \in Cmd /\ c.mode = cmd.mode /\ c.todo = cmd.todo /\ c.failed = cmd.failed
        /\ c.role = cmd.role
    BY <1>0, SpentLeads DEF Spent, Cmd
  <2> HIDE DEF c
  <2>3. CASE cmd' = NextDelete(c) /\ view[r].state = "absent" /\ view[r].result = "verified"
    <3>1. Verified(journal'[r])
      BY <2>0, <2>3 DEF Verified
    <3> QED BY <1>a, <1>b, <2>0, <2>1, <2>2, <2>3, <3>1, NextDeleteFit
  <2>4. CASE \/ cmd' = [c EXCEPT !.at = "redelete"]
             \/ cmd' = [c EXCEPT !.at = "unverified"]
    <3>1. /\ cmd'.at \in {"redelete", "unverified"} /\ cmd'.mode = cmd.mode /\ cmd'.role = r
          /\ cmd'.todo = cmd.todo /\ cmd'.failed = cmd.failed
      BY <2>2, <2>4 DEF Cmd
    <3>2. cmd'.at \in ExactPlaces \ {"probe"} /\ cmd'.at \notin {"delete", "verify", "closed"}
      BY <3>1 DEF ExactPlaces
    <3> QED BY <1>a, <1>b, <2>0, <2>1, <3>1, <3>2, SameIdFit
  <2>5. CASE /\ cmd' = [c EXCEPT !.at = "closed"] /\ view[r].id \notin live
             /\ ~(view[r].state = "absent" /\ view[r].result = "verified")
    <3>1. /\ cmd'.at = "closed" /\ cmd'.mode = cmd.mode /\ cmd'.role = r
          /\ cmd'.todo = cmd.todo /\ cmd'.failed = cmd.failed
      BY <2>2, <2>5 DEF Cmd
    <3>2. Marked(r)
      <4>1. Verified(journal[r]) => journal[r].result = "verified-namespace"
        BY <2>0, <2>5 DEF Verified
      <4>2. ~Verified(journal[r])
        BY <1>0, <2>0, <4>1 DEF PInv, Decidedly
      <4> QED BY <2>1, <4>2 DEF Sure
    <3>3. Gone(r)'
      <4>1. view[r].id = created[r]
        BY <1>0, <2>0 DEF IInv, Ledger
      <4> QED BY <1>a, <2>5, <4>1 DEF Gone
    <3>4. Marked(r)' /\ cmd'.at \in ExactPlaces \ {"probe"}
      BY <2>0, <3>1, <3>2 DEF Marked, ExactPlaces
    <3> QED BY <1>a, <1>b, <2>0, <2>1, <3>1, <3>3, <3>4, SameIdFit
  <2>6. \/ cmd' = IF view[r].id \in live THEN [c EXCEPT !.at = "redelete"]
                  ELSE IF view[r].state = "absent" /\ view[r].result = "verified" THEN NextDelete(c)
                  ELSE [c EXCEPT !.at = "closed"]
        \/ cmd' = [c EXCEPT !.at = "unverified"]
    BY <1>2 DEF Probe, c
  <2> QED BY <2>3, <2>4, <2>5, <2>6
<1>3. CASE Redelete
  <2>1. /\ cmd.at = "redelete" /\ cmd.at \in ExactPlaces /\ Marked(r)'
        /\ cmd' = To("delete")
    BY <1>3, <1>c, <1>d DEF Redelete, At, ExactPlaces, Marked
  <2>2. /\ cmd'.at = "delete" /\ cmd'.mode = cmd.mode /\ cmd'.role = r
        /\ cmd'.todo = cmd.todo /\ cmd'.failed = cmd.failed
    BY <1>0, <2>1 DEF To, Cmd
  <2>3. cmd'.at \in ExactPlaces \ {"probe"} /\ cmd'.at # "closed" /\ Sure(r)'
    BY <2>1, <2>2 DEF ExactPlaces, Sure
  <2> QED BY <1>a, <1>b, <2>1, <2>2, <2>3, SameIdFit
<1>4. CASE Closed
  <2>1. cmd.at \in ExactPlaces /\ Verified(journal'[r]) /\ cmd' = NextDelete(cmd)
    BY <1>4, <1>c, <1>d DEF Closed, At, ExactPlaces, Verified
  <2>2. Sure(r)'
    BY <2>1 DEF Sure
  <2> QED BY <1>0, <1>a, <1>b, <2>1, <2>2, NextDeleteFit
<1>5. CASE Unverified
  <2> DEFINE c == [cmd EXCEPT !.failed = TRUE]
  <2>1. cmd.at \in ExactPlaces /\ Marked(r)' /\ cmd' = NextDelete(c)
    BY <1>5, <1>c, <1>d DEF Unverified, At, ExactPlaces, Marked
  <2>2. c \in Cmd /\ c.mode = cmd.mode /\ c.todo = cmd.todo /\ c.failed = TRUE
    BY <1>0 DEF Cmd
  <2>3. Sure(r)'
    BY <2>1 DEF Sure
  <2> HIDE DEF c
  <2> QED BY <1>0, <1>a, <1>b, <2>1, <2>2, <2>3, NextDeleteFit
<1>6. CASE Settle
  <2>1. cmd.at = "settle" /\ Verified(journal'[r]) /\ cmd' = Settling(cmd, cmd.todo)
    BY <1>6, <1>c, <1>d DEF Settle, At, Verified
  <2>2. \A q \in Role : Sure(q)' /\ Gone(q)'
    <3>1. \A q \in Role : Sure(q) /\ Gone(q)
      BY <2>1 DEF PInv, Proven
    <3> QED BY <1>0, <1>a, <1>b, <2>1, <3>1 DEF Sure, Marked, Gone
  <2>3. /\ cmd.failed => cmd.mode = "reverify"
        /\ \A q \in Role : view'[q].id # NoId => cmd.failed \/ Verified(journal'[q])
    <3>1. /\ cmd.failed => cmd.mode = "reverify"
          /\ \A q \in Role : view[q].id # NoId => cmd.failed \/ Verified(journal[q])
      BY <2>1 DEF PInv, Proven
    <3> QED BY <1>0, <1>a, <1>b, <2>1, <3>1
  <2>4. \A q \in Role \ cmd.todo : view'[q].id = NoId => Verified(journal'[q])
    <3>1. \A q \in Role \ (cmd.todo \cup {r}) : view[q].id = NoId => Verified(journal[q])
      BY <2>1 DEF PInv, Proven, At
    <3> QED BY <1>0, <1>a, <1>b, <2>1, <3>1
  <2>5. CASE cmd.todo = {}
    <3>1. /\ cmd'.at = IF cmd.failed THEN "failed" ELSE "ok"
          /\ cmd'.mode = cmd.mode
      BY <1>0, <2>1, <2>5 DEF Settling, Loop, Cmd
    <3>2. Exactly' /\ Tagwise' /\ Intended' /\ Deletable'
      BY <3>1 DEF Exactly, Tagwise, Intended, Deletable, ExactPlaces, ReapPlaces, At
    <3>3. Proven'
      BY <2>2, <2>3, <2>4, <2>5, <3>1 DEF Proven, ReapPlaces, At
    <3> QED BY <3>2, <3>3
  <2>6. CASE cmd.todo # {}
    <3>1. /\ cmd'.at = "settle" /\ cmd'.mode = cmd.mode /\ cmd'.failed = cmd.failed
          /\ cmd'.todo \cup {cmd'.role} = cmd.todo
      <4>1. cmd' = [cmd EXCEPT !.at = "settle", !.role = First(cmd.todo),
                               !.todo = cmd.todo \ {First(cmd.todo)}]
        BY <2>1, <2>6 DEF Settling, Loop
      <4>2. First(cmd.todo) \in cmd.todo
        BY <1>0, <2>6 DEF First, Role
      <4> QED BY <1>0, <4>1, <4>2 DEF Cmd
    <3>2. Exactly' /\ Tagwise' /\ Intended' /\ Deletable'
      BY <3>1 DEF Exactly, Tagwise, Intended, Deletable, ExactPlaces, ReapPlaces, At
    <3>3. Proven'
      BY <2>2, <2>3, <2>4, <3>1 DEF Proven, ReapPlaces, At
    <3> QED BY <3>2, <3>3
  <2> QED BY <2>5, <2>6
<1>7. CASE RecordAbsence
  <2>1. cmd.at = "file" /\ cmd' = To("ok") /\ journal' = journal
    BY <1>7 DEF RecordAbsence, WriteLease, At, DiskFault, Calm
  <2>2. cmd'.at = "ok" /\ cmd'.mode = cmd.mode /\ cmd.mode = "active"
    BY <1>0, <2>1 DEF To, Cmd, RInv, Found, At
  <2>3. Exactly' /\ Tagwise' /\ Intended' /\ Deletable'
    BY <2>2 DEF Exactly, Tagwise, Intended, Deletable, ExactPlaces, ReapPlaces, At
  <2>4. \A q \in Role : Sure(q)' /\ Gone(q)'
    <3>1. \A q \in Role : Sure(q) /\ Gone(q)
      BY <2>1 DEF PInv, Proven
    <3> QED BY <1>a, <2>1, <3>1 DEF Sure, Marked, Gone
  <2>5. \A q \in Role : Verified(journal'[q])
    <3>1. \A q \in Role : view[q].id # NoId
      BY <2>2 DEF RInv, Issued, Found
    <3>2. ~cmd.failed
      BY <2>1, <2>2 DEF PInv, Proven
    <3> QED BY <2>1, <3>1, <3>2 DEF PInv, Proven
  <2>6. Proven'
    BY <2>2, <2>4, <2>5 DEF Proven, ReapPlaces, At
  <2> QED BY <2>3, <2>6
<1>8. ~(Testing \/ MarkTesting)
  BY DEF Testing, MarkTesting, At, IInv, Control, CleanupMode
<1> QED BY <1>1, <1>2, <1>3, <1>4, <1>5, <1>6, <1>7, <1>8 DEF CommandStep

-----------------------------------------------------------------------------
(* The provider's side of a deletion and of a reap. *)

\* Nothing is asked of a place outside the deletions, and a final proof of the
\* bundle starts from nothing.
LEMMA AsideFit ==
  ASSUME cmd'.mode \notin CleanupMode,
         \/ cmd'.at \notin ExactPlaces \cup ReapPlaces \cup {"settled", "intent", "closing"}
         \/ cmd'.at = "closing" /\ cmd'.level \in {"lease", "bundle"}
         \/ cmd'.at = "list" /\ cmd'.level = "proof" /\ cmd'.bound = 0 /\ cmd'.cands = {}
  PROVE  (Exactly /\ Tagwise /\ Intended /\ Deletable /\ Proven)'
<1>1. Deletable' /\ Proven'
  BY DEF Deletable, Proven
<1>2. Exactly' /\ Intended'
  BY DEF Exactly, Intended, ExactPlaces, At
<1>3. Tagwise'
  BY DEF Tagwise, ReapPlaces, At
<1> QED BY <1>1, <1>2, <1>3

\* Where an acquisition unwinds to.
Unwinds(c, d) ==
    /\ d.mode = c.mode
    /\ \/ d.at = "failed"
       \/ d.at = "closing" /\ d.level \in {"lease", "bundle"}
       \/ d.at = "list" /\ d.level = "proof" /\ d.bound = 0 /\ d.cands = {}

\* What the bundle and a lease unwind to is an unwinding.
LEMMA RoundUnwinds ==
  ASSUME NEW c \in Cmd
  PROVE  /\ \A n : Unwinds(c, UnwindBundle(c, n))
         /\ Unwinds(c, UnwindLease(c)) /\ Unwinds(c, RoundOver(c))
<1>1. \A n : Unwinds(c, UnwindBundle(c, n))
  BY DEF Unwinds, UnwindBundle, Cmd
<1>2. Unwinds(c, UnwindLease(c))
  BY DEF Unwinds, UnwindLease, Cmd
<1>3. Unwinds(c, [c EXCEPT !.at = "failed"])
  BY DEF Unwinds, Cmd
<1> QED BY <1>1, <1>2, <1>3 DEF RoundOver

\* So is what follows the end of one lease's cleanup.
LEMMA LeaseUnwinds == ASSUME cmd \in Cmd, NEW ok PROVE Unwinds(cmd, LeaseOver(ok))
<1>1. cmd.level = "bundle" =>
        \A f : Unwinds(cmd, [cmd EXCEPT !.at = "closing", !.role = "outline", !.failed = f])
  BY DEF Unwinds, Cmd
<1>2. Unwinds(cmd, Reap(cmd, {}, 0, "proof"))
  BY DEF Unwinds, Reap, Cmd
<1> QED BY <1>1, <1>2, RoundUnwinds DEF LeaseOver

\* An acquisition that unwinds has nothing left to account for.
LEMMA UnwindFit ==
  ASSUME cmd.mode = "acquire", Unwinds(cmd, cmd')
  PROVE  (Exactly /\ Tagwise /\ Intended /\ Deletable /\ Proven)'
<1>1. cmd'.mode \notin CleanupMode
  BY DEF Unwinds, CleanupMode
<1>2. \/ cmd'.at \notin ExactPlaces \cup ReapPlaces \cup {"settled", "intent", "closing"}
      \/ cmd'.at = "closing" /\ cmd'.level \in {"lease", "bundle"}
      \/ cmd'.at = "list" /\ cmd'.level = "proof" /\ cmd'.bound = 0 /\ cmd'.cands = {}
  BY DEF Unwinds, ExactPlaces, ReapPlaces
<1> QED BY <1>1, <1>2, AsideFit

\* The deletion of one id, and the look whether it worked.
LEMMA DeleteFit ==
  ASSUME TypeOK, IInv, PInv, Delete \/ Verify
  PROVE  (Exactly /\ Tagwise /\ Intended /\ Deletable /\ Proven)'
<1> PICK r \in Role : r = cmd.role
  BY CmdFields DEF TypeOK, LeaseTypeOK
<1> DEFINE c == Spent(cmd)
<1>0. /\ c \in Cmd /\ c.mode = cmd.mode /\ c.todo = cmd.todo /\ c.failed = cmd.failed
      /\ c.role = cmd.role /\ cmd \in Cmd
  BY SpentLeads DEF TypeOK, LeaseTypeOK, Spent, Cmd
<1>1. /\ cmd.at \in {"delete", "verify"} /\ cmd.at \in ExactPlaces
      /\ view[r].id # NoId /\ Marked(r)
  BY DEF Delete, Verify, At, PInv, Exactly, ExactPlaces
<1>2. view' = view /\ journal' = journal
  BY DEF Delete, Verify, disk
<1>3. \/ Delete /\ cmd' = [c EXCEPT !.at = "verify"]
      \/ Verify /\ cmd' = [c EXCEPT !.at = "closed"] /\ view[r].id \notin live /\ UNCHANGED account
      \/ cmd' = DeleteFailed(c)
  BY DEF Delete, Verify
<1> HIDE DEF c
<1>4. cmd.mode \in CleanupMode \cup {"acquire"}
  BY <1>1 DEF IInv, Control
<1>5. Marked(r)' /\ Sure(r)'
  BY <1>1, <1>2 DEF Marked, Sure
<1>6. cmd'.at = "closed" /\ cmd' = [c EXCEPT !.at = "closed"] => Gone(r)'
  <2>1. view[r].id = created[r]
    BY <1>1 DEF IInv, Ledger
  <2>2. ASSUME cmd'.at = "closed", cmd' = [c EXCEPT !.at = "closed"]
        PROVE  view[r].id \notin live /\ UNCHANGED account
    <3>1. [c EXCEPT !.at = "verify"].at = "verify"
      BY <1>0 DEF Cmd
    <3>2. ASSUME cmd' = DeleteFailed(c) PROVE FALSE
      <4>1. DeleteFailed(c).at \in {"closing", "failed", "list", "unverified"}
        BY <1>0, LeaseUnwinds DEF DeleteFailed, Unwinds, Cmd
      <4> QED BY <2>2, <3>2, <4>1
    <3> QED BY <1>3, <2>2, <3>1, <3>2
  <2> QED BY <2>1, <2>2 DEF Gone, account
<1>7. ASSUME NEW p \in {"verify", "closed"}, cmd' = [c EXCEPT !.at = p]
      PROVE  (Exactly /\ Tagwise /\ Intended /\ Deletable /\ Proven)'
  <2>1. /\ cmd'.at = p /\ cmd'.mode = cmd.mode /\ cmd'.role = cmd.role
        /\ cmd'.todo = cmd.todo /\ cmd'.failed = cmd.failed
        /\ cmd'.at \in ExactPlaces \ {"probe"}
    BY <1>0, <1>7 DEF Cmd, ExactPlaces
  <2>2. cmd'.at = "closed" => Gone(r)'
    BY <1>6, <1>7, <2>1
  <2>3. CASE cmd.mode \in CleanupMode
    BY <1>1, <1>2, <1>5, <2>1, <2>2, <2>3, SameIdFit
  <2>4. CASE cmd.mode = "acquire"
    <3>1. Exactly'
      BY <1>1, <1>2, <1>5, <2>1, <2>2 DEF Exactly, At
    <3>2. Tagwise' /\ Intended'
      BY <1>7, <2>1 DEF Tagwise, Intended, ReapPlaces, At
    <3>3. Deletable' /\ Proven'
      BY <2>1, <2>4 DEF Deletable, Proven, CleanupMode
    <3> QED BY <3>1, <3>2, <3>3
  <2> QED BY <1>4, <2>3, <2>4
<1>8. CASE cmd' = DeleteFailed(c)
  <2>1. CASE cmd.mode = "acquire"
    <3>1. cmd' = LeaseOver(FALSE)
      BY <1>0, <1>8, <2>1 DEF DeleteFailed
    <3> QED BY <1>0, <2>1, <3>1, LeaseUnwinds, UnwindFit
  <2>2. CASE cmd.mode \in CleanupMode
    <3>1. cmd' = [c EXCEPT !.at = "unverified"]
      BY <1>0, <1>8, <2>2 DEF DeleteFailed, CleanupMode
    <3>2. /\ cmd'.at = "unverified" /\ cmd'.mode = cmd.mode /\ cmd'.role = cmd.role
          /\ cmd'.todo = cmd.todo /\ cmd'.failed = cmd.failed
      BY <1>0, <3>1 DEF Cmd
    <3>3. cmd'.at \in ExactPlaces \ {"probe"} /\ cmd'.at \notin {"delete", "verify", "closed"}
      BY <3>2 DEF ExactPlaces
    <3> QED BY <1>1, <1>2, <1>5, <2>2, <3>2, <3>3, SameIdFit
  <2> QED BY <1>4, <2>1, <2>2
<1> QED BY <1>3, <1>7, <1>8

\* A reap in progress, seen by the next provider call.
Akin(c) ==
    /\ c \in Cmd /\ c.mode = cmd.mode /\ c.role = cmd.role /\ c.level = cmd.level
    /\ c.active = cmd.active /\ c.bound = cmd.bound /\ c.failed = cmd.failed
    /\ \/ c.cands \subseteq cmd.cands
       \/ At("list") /\ c.cands = Tagged(cmd.active) /\ Cardinality(c.cands) <= cmd.bound

\* Where it goes on to, and on which proof it ends.
ReapGoes(d) ==
    /\ d.mode = cmd.mode
    /\ d.at \in ReapPlaces =>
          /\ d.role = cmd.role /\ d.level = cmd.level
          /\ d.active = cmd.active /\ d.bound = cmd.bound /\ d.failed = cmd.failed
          /\ \/ d.cands \subseteq cmd.cands
             \/ At("list") /\ d.cands = Tagged(cmd.active) /\ Cardinality(d.cands) <= cmd.bound
    /\ d.at \in ReapPlaces \cup {"settled", "unproven", "closing", "failed", "file", "settle", "ok"}
    /\ d.at = "closing" => d.level \in {"lease", "bundle"}
    /\ d.at = "settled" => /\ At("assert") /\ Tagged(cmd.active) = {}
                           /\ d.role = cmd.role /\ cmd.level \in {"lease", "bundle"}
    /\ d.at \in {"file", "settle", "ok"} =>
          /\ At("assert") /\ d.failed = cmd.failed
          /\ d.at = "settle" => UnknownRoles \subseteq d.todo \cup {d.role}
          /\ d.at = "ok" => UnknownRoles = {} /\ ~cmd.failed

\* What a reap is given back goes on the way a reap goes.
LEMMA AkinGoes ==
  ASSUME cmd \in Cmd, NEW c, Akin(c)
  PROVE  /\ ReapGoes(Unproved(c)) /\ ReapGoes(NextCandidate(c))
         /\ ReapGoes([c EXCEPT !.at = "reapverify"]) /\ ReapGoes([c EXCEPT !.at = "assert"])
         /\ At("assert") /\ (cmd.level \in {"lease", "bundle"} => Tagged(cmd.active) = {})
               => ReapGoes(Proved(c))
<1>0. c \in Cmd
  BY DEF Akin
<1>1. \A p \in {"reapverify", "assert", "reap", "relist"} : ReapGoes([c EXCEPT !.at = p])
  <2> SUFFICES ASSUME NEW p \in {"reapverify", "assert", "reap", "relist"}
               PROVE  ReapGoes([c EXCEPT !.at = p])
    OBVIOUS
  <2> DEFINE d == [c EXCEPT !.at = p]
  <2>1. /\ d.at = p /\ d.mode = c.mode /\ d.role = c.role /\ d.level = c.level
        /\ d.active = c.active /\ d.bound = c.bound /\ d.failed = c.failed /\ d.cands = c.cands
    BY <1>0 DEF Cmd
  <2> HIDE DEF d
  <2> QED BY <2>1 DEF ReapGoes, Akin, ReapPlaces, d
<1>2. \A p \in {"unproven", "failed"} : ReapGoes([c EXCEPT !.at = p])
  BY <1>0 DEF ReapGoes, Akin, ReapPlaces, Cmd
<1>3. ReapGoes(RoundOver(c))
  <2>1. /\ RoundOver(c).mode = c.mode /\ RoundOver(c).at \in {"closing", "failed"}
        /\ RoundOver(c).at = "closing" => RoundOver(c).level = "bundle"
    BY <1>0 DEF RoundOver, UnwindBundle, Cmd
  <2> QED BY <2>1 DEF ReapGoes, Akin, ReapPlaces
<1>4. ReapGoes(Unproved(c))
  BY <1>2, <1>3 DEF Unproved
<1>5. ReapGoes(NextCandidate(c))
  BY <1>1 DEF NextCandidate
<1>6. ASSUME At("assert"), cmd.level \in {"lease", "bundle"} => Tagged(cmd.active) = {}
      PROVE  ReapGoes(Proved(c))
  <2>1. CASE c.level \in {"lease", "bundle"}
    <3>1. Proved(c) = [c EXCEPT !.at = "settled"]
      BY <2>1 DEF Proved
    <3>2. /\ Proved(c).at = "settled" /\ Proved(c).mode = c.mode /\ Proved(c).role = c.role
      BY <1>0, <3>1 DEF Cmd
    <3> QED BY <1>6, <2>1, <3>2 DEF ReapGoes, Akin, ReapPlaces
  <2>2. CASE c.level = "proof"
    BY <1>3, <2>2 DEF Proved
  <2>3. CASE c.level = "command" /\ c.mode = "active"
    <3>1. Proved(c) = [c EXCEPT !.at = "file"]
      BY <2>3 DEF Proved
    <3>2. Proved(c).at = "file" /\ Proved(c).mode = c.mode /\ Proved(c).failed = c.failed
      BY <1>0, <3>1 DEF Cmd
    <3> QED BY <1>6, <3>2 DEF ReapGoes, Akin, ReapPlaces
  <2>4. CASE c.level = "command" /\ c.mode # "active"
    <3>1. Proved(c) = Settling(c, UnknownRoles) /\ UnknownRoles \subseteq Role
      BY <2>4 DEF Proved, UnknownRoles
    <3>2. CASE UnknownRoles = {}
      <4>1. Proved(c) = [c EXCEPT !.at = IF c.failed THEN "failed" ELSE "ok"]
        BY <3>1, <3>2 DEF Settling, Loop
      <4>2. /\ Proved(c).at = IF c.failed THEN "failed" ELSE "ok"
            /\ Proved(c).mode = c.mode /\ Proved(c).failed = c.failed
        BY <1>0, <4>1 DEF Cmd
      <4> QED BY <1>6, <3>2, <4>2 DEF ReapGoes, Akin, ReapPlaces
    <3>3. CASE UnknownRoles # {}
      <4>1. Proved(c) = [c EXCEPT !.at = "settle", !.role = First(UnknownRoles),
                                  !.todo = UnknownRoles \ {First(UnknownRoles)}]
        BY <3>1, <3>3 DEF Settling, Loop
      <4>2. /\ Proved(c).at = "settle" /\ Proved(c).mode = c.mode /\ Proved(c).failed = c.failed
            /\ UnknownRoles \subseteq Proved(c).todo \cup {Proved(c).role}
        BY <1>0, <4>1 DEF Cmd
      <4> QED BY <1>6, <4>2 DEF ReapGoes, Akin, ReapPlaces
    <3> QED BY <3>2, <3>3
  <2>5. c.level \in {"lease", "bundle", "proof", "command"}
    BY <1>0 DEF Cmd, Level
  <2> QED BY <2>1, <2>2, <2>3, <2>4, <2>5
<1> QED BY <1>1, <1>4, <1>5, <1>6

\* Every step of a reap does.
LEMMA ReapMoves ==
  ASSUME TypeOK, Accounted, List \/ ReapDelete \/ ReapVerify \/ Relist \/ AssertAbsent
  PROVE  ReapGoes(cmd') /\ cmd.at \in ReapPlaces /\ UNCHANGED <<disk, view, created, pending>>
<1> DEFINE c == Spent(cmd)
<1>0. cmd \in Cmd
  BY DEF TypeOK, LeaseTypeOK
<1>a. cmd.at \in ReapPlaces /\ UNCHANGED <<disk, view, created, pending>>
  BY DEF List, ReapDelete, ReapVerify, Relist, AssertAbsent, At, ReapPlaces, account,
     ListServices, DeleteService
<1>b. Akin(c) /\ c.failed = cmd.failed
  BY <1>0, SpentLeads DEF Akin, Spent, Cmd
<1> HIDE DEF c
<1>1. CASE List
  <2> DEFINE d == [c EXCEPT !.cands = Tagged(cmd.active)]
  <2>1. ASSUME Cardinality(Tagged(cmd.active)) <= cmd.bound PROVE Akin(d)
    <3>1. Tagged(cmd.active) \in SUBSET ServiceId
      BY DEF Tagged, TypeOK, AccountTypeOK
    <3> QED BY <1>1, <1>b, <2>1, <3>1 DEF Akin, Cmd, List
  <2>2. \/ Cardinality(Tagged(cmd.active)) > cmd.bound /\ cmd' = Unproved(c)
        \/ ~(Cardinality(Tagged(cmd.active)) > cmd.bound) /\ cmd' = NextCandidate(d)
        \/ cmd' = Unproved(c)
    BY <1>1 DEF List, c
  <2>3. cmd.bound \in 0..2 /\ Cardinality(Tagged(cmd.active)) \in Nat
    <3>1. IsFiniteSet(Tagged(cmd.active))
      BY LiveFinite, FS_Subset DEF Tagged
    <3> QED BY <1>0, <3>1, FS_CardinalityType DEF Cmd
  <2>4. ~(Cardinality(Tagged(cmd.active)) > cmd.bound) => Akin(d)
    BY <2>1, <2>3
  <2> QED BY <1>0, <1>a, <1>b, <2>2, <2>4, AkinGoes
<1>2. CASE ReapDelete
  <2>1. PICK id \in cmd.cands :
          LET e == [c EXCEPT !.cands = @ \ {id}, !.deleted = @ \cup {id}, !.target = id]
          IN  \/ cmd' = [e EXCEPT !.at = "reapverify"]
              \/ cmd' = Unproved(e)
              \/ cmd' = NextCandidate([cmd EXCEPT !.cands = @ \ {id}])
    BY <1>2 DEF ReapDelete, c
  <2>2. id \in ServiceId
    BY <1>0 DEF Cmd
  <2>3. c.cands \subseteq cmd.cands
    BY <1>0, SpentLeads DEF c
  <2>4. Akin([c EXCEPT !.cands = @ \ {id}, !.deleted = @ \cup {id}, !.target = id])
    BY <1>b, <2>2, <2>3 DEF Akin, Cmd, Id
  <2>5. Akin([cmd EXCEPT !.cands = @ \ {id}])
    BY <1>0 DEF Akin, Cmd
  <2> QED BY <1>0, <1>a, <2>1, <2>4, <2>5, AkinGoes
<1>3. CASE ReapVerify
  <2>1. Akin([c EXCEPT !.target = NoId])
    BY <1>b DEF Akin, Cmd, Id
  <2> QED BY <1>0, <1>3, <1>a, <2>1, AkinGoes DEF ReapVerify, c
<1>4. CASE Relist
  BY <1>0, <1>4, <1>a, <1>b, AkinGoes DEF Relist, c
<1>5. CASE AssertAbsent
  <2>1. CASE cmd' = Unproved(c)
    BY <1>0, <1>a, <1>b, <2>1, AkinGoes
  <2>2. CASE cmd' # Unproved(c)
    <3>1. At("assert") /\ cmd' = Proved(c) /\ (cmd.level \in {"lease", "bundle"} => Tagged(cmd.active) = {})
      BY <1>5, <2>2 DEF AssertAbsent, c
    <3> QED BY <1>0, <1>a, <1>b, <3>1, AkinGoes
  <2> QED BY <2>1, <2>2
<1> QED BY <1>1, <1>2, <1>3, <1>4, <1>5

\* A reap selects only what is marked, and its proof leaves nothing.
LEMMA ReapFit ==
  ASSUME TypeOK, IInv, RInv, PInv, List \/ ReapDelete \/ ReapVerify \/ Relist \/ AssertAbsent
  PROVE  (Exactly /\ Tagwise /\ Intended /\ Deletable /\ Proven)'
<1>0. cmd \in Cmd /\ cmd.role \in Role
  BY CmdFields DEF TypeOK, LeaseTypeOK
<1>1. ReapGoes(cmd') /\ cmd.at \in ReapPlaces
  BY ReapMoves DEF RInv
<1>2. view' = view /\ journal' = journal /\ created' = created
  BY ReapMoves DEF RInv, disk
<1>3. live' \subseteq live /\ ProviderStep
  <2>1. ProviderStep
    BY DEF ProviderStep
  <2> QED BY <2>1, AccountMoves
<1>a. /\ cmd.level \in {"lease", "bundle"} => cmd.active = OtherIds
      /\ cmd.level = "proof" => cmd.bound = 0 /\ cmd.cands = {}
      /\ \A q \in Role : created[q] \in cmd.cands => Marked(q)
  BY <1>1 DEF PInv, Tagwise
<1>b. cmd.mode \in CleanupMode \cup {"acquire"} /\ (cmd.mode \in CleanupMode => cmd.level = "command")
      /\ (cmd.mode = "acquire" => cmd.level # "command")
  BY <1>1 DEF IInv, Control
<1>c. \A q \in Role : created[q] \notin Foreign /\ view[q].id \in {NoId, created[q]}
  BY DEF IInv, Ledger
<1>d. NoId \notin live
  BY AccountAssumption DEF TypeOK, AccountTypeOK
<1>4. cmd'.at \notin ExactPlaces /\ cmd'.at # "intent"
  BY <1>1 DEF ReapGoes, ExactPlaces, ReapPlaces
<1>5. Exactly' /\ Intended' /\ Deletable'
  BY <1>4 DEF Exactly, Intended, Deletable, At
<1>6. ASSUME cmd.level = "proof", NEW S,
             S \subseteq cmd.cands \/ (S = Tagged(cmd.active) /\ Cardinality(S) <= cmd.bound)
      PROVE  S = {}
  <2>1. CASE S \subseteq cmd.cands
    BY <1>a, <1>6, <2>1
  <2>2. CASE S = Tagged(cmd.active) /\ Cardinality(S) <= cmd.bound
    <3>1. IsFiniteSet(S)
      BY <2>2, LiveFinite, FS_Subset DEF Tagged, RInv
    <3>2. Cardinality(S) \in Nat /\ Cardinality(S) <= 0
      BY <1>a, <1>6, <2>2, <3>1, FS_CardinalityType
    <3> QED BY <3>1, <3>2, FS_EmptySet
  <2> QED BY <1>6, <2>1, <2>2
<1>7. ASSUME NEW q \in Role, created[q] \in Tagged(cmd.active), At("list"), cmd.level # "proof"
      PROVE  Marked(q)
  <2>1. created[q] \in live /\ created[q] \notin cmd.active /\ created[q] # NoId
    BY <1>7, <1>d DEF Tagged
  <2>2. CASE cmd.level = "command"
    <3>1. cmd.mode \in CleanupMode
      BY <1>b, <2>2
    <3>2. Sure(q)
      BY <1>1, <3>1, <1>7 DEF PInv, Proven, At
    <3>3. ~Verified(journal[q])
      BY <2>1 DEF PInv, Decidedly, Gone
    <3> QED BY <3>2, <3>3 DEF Sure
  <2>3. CASE cmd.level \in {"lease", "bundle"}
    <3>1. cmd.mode = "acquire"
      BY <1>b, <2>3
    <3>2. view[cmd.role].state = "deleting" /\ view[cmd.role].id = NoId
      BY <1>1, <2>3 DEF IInv, OneCreate, RInv, Named
    <3>3. Marked(cmd.role)
      BY <1>0, <3>1, <3>2 DEF PInv, Mirrored, Marked
    <3>4. ASSUME q # cmd.role PROVE FALSE
      <4>1. created[q] # view[q].id
        BY <1>a, <2>1, <2>3, <3>4 DEF OtherIds
      <4> QED BY <1>0, <3>1, <3>2, <3>4, <4>1 DEF PInv, Mirrored
    <3> QED BY <3>3, <3>4
  <2> QED BY <1>0, <1>7, <2>2, <2>3 DEF Cmd, Level
<1>8. ASSUME cmd'.at \in ReapPlaces
      PROVE  /\ cmd'.level \in {"lease", "bundle"} => cmd'.active = OtherIds'
             /\ cmd'.level = "proof" => cmd'.bound = 0 /\ cmd'.cands = {}
             /\ \A q \in Role : created'[q] \in cmd'.cands => Marked(q)'
  <2>1. /\ cmd'.role = cmd.role /\ cmd'.level = cmd.level
        /\ cmd'.active = cmd.active /\ cmd'.bound = cmd.bound
        /\ \/ cmd'.cands \subseteq cmd.cands
           \/ At("list") /\ cmd'.cands = Tagged(cmd.active) /\ Cardinality(cmd'.cands) <= cmd.bound
    BY <1>1, <1>8 DEF ReapGoes
  <2>2. OtherIds' = OtherIds
    BY <1>2, <2>1 DEF OtherIds
  <2>3. cmd.level = "proof" => cmd'.cands = {}
    BY <1>6, <2>1
  <2>4. ASSUME NEW q \in Role, created[q] \in cmd'.cands PROVE Marked(q)
    BY <1>7, <1>a, <2>1, <2>3, <2>4
  <2>5. \A q \in Role : created'[q] \in cmd'.cands => Marked(q)'
    BY <1>2, <2>4 DEF Marked
  <2> QED BY <1>a, <2>1, <2>2, <2>3, <2>5
<1>9. ASSUME cmd'.at = "settled", NEW r \in Role, r = cmd'.role PROVE Gone(r)'
  <2>1. Tagged(cmd.active) = {} /\ r = cmd.role /\ cmd.active = OtherIds
    BY <1>1, <1>9, <1>a DEF ReapGoes
  <2>2. ASSUME created[r] \in live PROVE FALSE
    <3>1. created[r] \in OtherIds /\ created[r] # NoId
      BY <1>c, <1>d, <2>1, <2>2 DEF Tagged
    <3>2. PICK q \in Role \ {r} : created[r] = view[q].id
      BY <2>1, <3>1 DEF OtherIds
    <3>3. created[r] = created[q]
      BY <1>c, <3>1, <3>2
    <3> QED BY <3>1, <3>2, <3>3 DEF PInv, Decidedly
  <2> QED BY <1>2, <1>3, <2>2 DEF Gone
<1>10. Tagwise'
  <2>1. cmd'.at = "settled" => Gone(cmd.role)'
    <3>1. cmd'.at = "settled" => cmd'.role \in Role
      BY <1>0, <1>1 DEF ReapGoes
    <3> QED BY <1>9, <3>1 DEF Gone
  <2>2. cmd'.at = "closing" => cmd'.level \in {"lease", "bundle"}
    BY <1>1 DEF ReapGoes
  <2> QED BY <1>8, <2>1, <2>2 DEF Tagwise, At
<1>11. Proven'
  <2> SUFFICES ASSUME cmd'.mode \in CleanupMode PROVE Proven'
    BY DEF Proven
  <2>0. cmd.mode \in CleanupMode /\ cmd.at \notin {"intent", "failed"}
    BY <1>1 DEF ReapGoes, ReapPlaces
  <2>1. \A q \in Role : Sure(q)'
    BY <1>2, <2>0 DEF PInv, Proven, Sure, Marked
  <2>2. /\ cmd.failed => cmd.mode = "reverify"
        /\ \A q \in Role : view[q].id # NoId => cmd.failed \/ Verified(journal[q])
    BY <1>1, <2>0 DEF PInv, Proven
  <2>3. cmd'.at \in ReapPlaces \cup {"settle", "file"} => cmd'.failed = cmd.failed
    BY <1>1 DEF ReapGoes
  <2>4. cmd'.at = "settle" => \A q \in Role \ (cmd'.todo \cup {cmd'.role}) : view[q].id # NoId
    BY <1>1 DEF ReapGoes, UnknownRoles
  <2>5. cmd'.at \in {"settle", "file", "ok"} => \A q \in Role : Gone(q)'
    <3>1. ASSUME cmd'.at \in {"settle", "file", "ok"}, NEW q \in Role PROVE created[q] \notin live
      <4>1. Tagged({}) = {}
        BY <1>3, <3>1, ProviderDecided
      <4> QED BY <1>c, <4>1 DEF Tagged
    <3> QED BY <1>2, <1>3, <3>1 DEF Gone
  <2>6. cmd'.at = "ok" => \A q \in Role : Verified(journal[q])
    <3>1. cmd'.at = "ok" => UnknownRoles = {} /\ ~cmd.failed
      BY <1>1 DEF ReapGoes
    <3> QED BY <2>2, <3>1 DEF UnknownRoles
  <2>7. cmd'.mode = cmd.mode
    BY <1>1 DEF ReapGoes
  <2> QED BY <1>2, <2>1, <2>2, <2>3, <2>4, <2>5, <2>6, <2>7 DEF Proven, At
<1> QED BY <1>5, <1>10, <1>11

-----------------------------------------------------------------------------
(* The steps of an acquisition, and the start of a cleanup. *)

\* An acquisition deletes by id, or by tag, only what it has marked.
LEMMA ClosingFit ==
  ASSUME Calm, TypeOK, IInv, RInv, PInv, Closing
  PROVE  (Exactly /\ Tagwise /\ Intended /\ Deletable /\ Proven)'
<1> PICK r \in Role : r = cmd.role
  BY CmdFields DEF TypeOK, LeaseTypeOK
<1>0. cmd \in Cmd /\ cmd.level \in {"lease", "bundle", "proof", "command"} /\ cmd.mode = "acquire"
      /\ view \in [Role -> Record]
  <2>1. cmd.mode = "acquire"
    BY DEF Closing, At, IInv, Control, AcquirePlaces
  <2> QED BY <2>1 DEF TypeOK, LeaseTypeOK, Cmd, Level
<1>1. cmd' = CloseService
  BY CalmTransition DEF Closing
<1>2. Marked(r)'
  <2>1. AcquireStep
    BY DEF AcquireStep
  <2>2. view'[r].state = "deleting"
    <3>1. CASE view[r].state = "deleting"
      BY <3>1 DEF Closing
    <3>2. CASE view[r].state # "deleting"
      <4>1. view' = [view EXCEPT ![r] = Rec("deleting", view[r].id, "none")]
        BY <3>2, CalmTransition DEF Closing
      <4> QED BY <1>0, <4>1 DEF Rec
    <3> QED BY <3>1, <3>2
  <2> QED BY <2>1, <2>2, Together DEF Marked
<1>3. created' = created /\ \A q \in Role : view'[q].id = view[q].id
  <2>1. \A q \in Role : view'[q].id = view[q].id
    <3>1. CASE view[r].state = "deleting"
      BY <3>1 DEF Closing
    <3>2. CASE view[r].state # "deleting"
      <4>1. view' = [view EXCEPT ![r] = Rec("deleting", view[r].id, "none")]
        BY <3>2, CalmTransition DEF Closing
      <4> QED BY <1>0, <4>1 DEF Rec
    <3> QED BY <3>1, <3>2
  <2> QED BY <2>1 DEF Closing, account
<1>4. CASE view[r].id # NoId
  <2>1. cmd'.at = "delete" /\ cmd'.role = r /\ cmd'.mode = "acquire"
    BY <1>0, <1>1, <1>4 DEF CloseService, To, Cmd
  <2>2. Exactly'
    BY <1>2, <1>3, <1>4, <2>1 DEF Exactly, At, Marked
  <2>3. Tagwise' /\ Intended' /\ Deletable' /\ Proven'
    BY <2>1 DEF Tagwise, Intended, Deletable, Proven, ReapPlaces, CleanupMode, At
  <2> QED BY <2>2, <2>3
<1>5. CASE view[r].id = NoId
  <2>1. /\ cmd'.at = "list" /\ cmd'.role = cmd.role /\ cmd'.mode = "acquire"
        /\ cmd'.active = OtherIds /\ cmd'.cands = {} /\ cmd'.level = cmd.level
    BY <1>0, <1>1, <1>5 DEF CloseService, Reap, Cmd
  <2>2. Exactly' /\ Intended' /\ Deletable' /\ Proven'
    BY <2>1 DEF Exactly, Intended, Deletable, Proven, ExactPlaces, CleanupMode, At
  <2>3. OtherIds' = OtherIds
    BY <1>3, <2>1 DEF OtherIds
  <2>4. cmd.level \in {"lease", "bundle"}
    BY DEF PInv, Tagwise, Closing
  <2>5. Tagwise'
    <3>1. \A q \in Role : created'[q] \notin cmd'.cands
      BY <2>1
    <3> QED BY <2>1, <2>3, <2>4, <3>1 DEF Tagwise, At
  <2> QED BY <2>2, <2>5
<1> QED BY <1>4, <1>5

\* Places that ask nothing of the records.
Aside(d) == d.at \notin ExactPlaces \cup ReapPlaces \cup {"settled", "intent", "closing"}

\* Where an acquisition goes when it neither ends a lease nor begins to close one.
LEMMA AcquireAside ==
  ASSUME Calm, TypeOK, IInv, AcquireStep,
         ~(Closing \/ AlreadyAbsent \/ LeaseClosed \/ LeaseSettled \/ LeaseUnproven)
  PROVE  Unwinds(cmd, cmd') \/ Aside(cmd')
<1>0. cmd \in Cmd
  BY DEF TypeOK, LeaseTypeOK
<1>1. \A p \in {"construct", "creating", "post", "await", "record", "ready", "healthy", "handoff",
               "issue", "install", "ok", "failed"} :
         p \notin ExactPlaces \cup ReapPlaces \cup {"settled", "intent", "closing"}
  BY DEF ExactPlaces, ReapPlaces
<1>2. \A p \in {"post", "await", "record", "ready", "healthy", "handoff", "install", "ok", "failed"} :
        cmd' = [cmd EXCEPT !.at = p] => Aside(cmd')
  BY <1>0, <1>1 DEF Cmd, Aside
<1>3. \A p \in {"creating", "issue"}, q \in Role : cmd' = [cmd EXCEPT !.at = p, !.role = q] => Aside(cmd')
  BY <1>0, <1>1 DEF Cmd, Aside
<1>4. cmd.at \in {"construct", "issue"} /\ cmd' = [cmd EXCEPT !.role = "sink"] => Aside(cmd')
  BY <1>0, <1>1 DEF Cmd, Aside
<1>5. /\ \A n : cmd' = UnwindBundle(cmd, n) => Unwinds(cmd, cmd')
      /\ cmd' = UnwindLease(cmd) => Unwinds(cmd, cmd')
  BY <1>0, RoundUnwinds
<1>j. "outline" \in Role /\ "sink" \in Role
  BY DEF Role
<1>6. CASE Construct
  <2>1. /\ cmd.at = "construct"
        /\ cmd' = IF cmd.role = "outline" THEN [cmd EXCEPT !.role = "sink"]
                  ELSE [cmd EXCEPT !.at = "creating", !.role = "outline"]
    BY <1>6, CalmAppend DEF Construct, At
  <2> QED BY <1>3, <1>4, <1>j, <2>1
<1>7. CASE Creating \/ BundleDeadline
  BY <1>2, <1>5, <1>7, CalmTransition DEF Creating, BundleDeadline, To
<1>8. CASE Post \/ CreateAnswered \/ CreateRefused \/ CreateAnswerLost
  BY <1>2, <1>5, <1>8 DEF Post, CreateAnswered, CreateRefused, CreateAnswerLost, Goto, To
<1>9. CASE RecordHandle \/ WaitUntilReady
  BY <1>2, <1>5, <1>9, CalmAppend DEF RecordHandle, WaitUntilReady, To
<1>10. CASE Healthy
  <2>1. cmd' = IF cmd.role = "outline" THEN [cmd EXCEPT !.at = "creating", !.role = "sink"]
               ELSE [cmd EXCEPT !.at = "handoff"]
    BY <1>10, CalmTransition DEF Healthy, To
  <2> QED BY <1>2, <1>3, <1>j, <2>1
<1>11. CASE HandOff
  BY <1>3, <1>5, <1>11, <1>j DEF HandOff
<1>12. CASE MarkIssued
  <2>1. CASE cmd.role = "outline"
    BY <1>4, <1>12, <2>1, CalmTransition DEF MarkIssued, At
  <2>2. CASE cmd.role # "outline"
    BY <1>2, <1>12, <2>2, CalmTransition DEF MarkIssued, To
  <2> QED BY <2>1, <2>2
<1>13. CASE InstallLease
  BY <1>2, <1>5, <1>13 DEF InstallLease, WriteLease, To
<1> QED BY <1>6, <1>7, <1>8, <1>9, <1>10, <1>11, <1>12, <1>13 DEF AcquireStep

\* Each step of an acquisition fits what its records say.
LEMMA AcquireFit ==
  ASSUME Calm, TypeOK, IInv, RInv, PInv, AcquireStep
  PROVE  (Exactly /\ Tagwise /\ Intended /\ Deletable /\ Proven)'
<1>0. cmd \in Cmd /\ cmd.mode = "acquire" /\ cmd'.mode = "acquire" /\ cmd'.mode \notin CleanupMode
  BY AcquireLeads, StepMode DEF TypeOK, LeaseTypeOK, IInv, CleanupMode
<1>1. CASE Closing
  BY <1>1, ClosingFit
<1>2. CASE AlreadyAbsent \/ LeaseClosed \/ LeaseSettled \/ LeaseUnproven
  <2>1. \E ok : cmd' = LeaseOver(ok)
    BY <1>2, CalmTransition, CalmAppend DEF AlreadyAbsent, LeaseClosed, LeaseSettled, LeaseUnproven
  <2> QED BY <1>0, <2>1, LeaseUnwinds, UnwindFit
<1>3. CASE ~(Closing \/ AlreadyAbsent \/ LeaseClosed \/ LeaseSettled \/ LeaseUnproven)
  BY <1>0, <1>3, AcquireAside, UnwindFit, AsideFit DEF Aside
<1> QED BY <1>1, <1>2, <1>3

\* The running command keeps the invariant.
LEMMA CommandKeeps ==
  ASSUME Calm, TypeOK, TypeOK', IInv, IInv', RInv, PInv, UNCHANGED step,
         AcquireStep \/ ProviderStep \/ CommandStep
  PROVE  PInv'
<1>1. (Exactly /\ Tagwise /\ Intended /\ Deletable /\ Proven)'
  <2>1. CASE AcquireStep
    BY <2>1, AcquireFit
  <2>2. CASE ProviderStep
    BY <2>2, DeleteFit, ReapFit DEF ProviderStep
  <2>3. CASE CommandStep /\ cmd.mode \in CleanupMode
    BY <2>3, CleanupWritesFit
  <2>4. CASE CommandStep /\ cmd.mode = "begin"
    <3>1. cmd'.at \in {"testing", "mark", "ok", "failed"} /\ cmd'.mode \notin CleanupMode
      BY <2>4, CommandLeads, StepMode DEF IInv, CommandGoes, CleanupMode
    <3>2. cmd'.at \notin ExactPlaces \cup ReapPlaces \cup {"settled", "intent", "closing"}
      BY <3>1 DEF ExactPlaces, ReapPlaces
    <3> QED BY <3>1, <3>2, AsideFit
  <2> QED BY <2>1, <2>2, <2>3, <2>4, StepMode
<1> QED BY <1>1, DecidedlyStep, UnusedStep, MirroredStep DEF PInv

\* What stays as it is keeps the invariant.
LEMMA SameKeeps ==
  ASSUME PInv, UNCHANGED <<live, pending, created, journal, view, cmd>>,
         step' = step \/ step' # "acquire"
  PROVE  PInv'
<1>1. Decidedly'
  BY DEF PInv, Decidedly, Gone, At
<1>2. Unused'
  BY DEF PInv, Unused, Blank, At
<1>3. Mirrored' /\ Exactly' /\ Tagwise'
  BY DEF PInv, Mirrored, Exactly, Tagwise, Marked, Gone, OtherIds, At
<1>4. Intended' /\ Deletable' /\ Proven'
  BY DEF PInv, Intended, Deletable, Proven, Sure, Marked, Gone, At
<1> QED BY <1>1, <1>2, <1>3, <1>4 DEF PInv

\* Between two commands no create is outstanding.
LEMMA RestDecided ==
  ASSUME Decidedly, ~At("await"), UNCHANGED <<live, pending, created, journal>>
  PROVE  Decidedly'
<1>1. pending' = {}
  BY DEF Decidedly
<1> QED BY <1>1 DEF Decidedly, Gone

\* The loops a cleanup starts with fit what its records say.
LEMMA CleanupFit ==
  ASSUME TypeOK, TypeOK', RInv, StartCleanup, ~UNCHANGED <<cmd, view>>
  PROVE  (Exactly /\ Tagwise /\ Intended /\ Deletable /\ Proven)'
<1> DEFINE c == [Idle EXCEPT !.mode = Branch]
           S == NeedsIntent(Branch, view')
<1>0. journal' = journal /\ journal \in [Role -> Record] /\ lease.ids \in [Role -> Id]
  BY DEF StartCleanup, disk, TypeOK, LeaseTypeOK, LeaseFile
<1>1. view' = Snapshot /\ cmd' = Intending(c, S, view') /\ Branch # "refused"
  BY DEF StartCleanup
<1>2. Branch \in CleanupMode
  BY <1>1, Branches
<1>3. c \in Cmd /\ c.mode = Branch
  <2>1. Branch \in Mode
    BY <1>2 DEF Mode
  <2> QED BY <2>1, IdleType DEF Cmd, Idle
<1>4. \A r \in Role : view'[r].state = journal[r].state /\ view'[r].result = journal[r].result
  BY <1>0, <1>1 DEF Snapshot, Record
<1>5. S \in SUBSET Role
  BY DEF NeedsIntent
<1>6. CASE Branch = "reverify"
  <2> DEFINE N == NeedsDelete(Branch, view')
  <2>1. cmd' = Deleting(c, N, view') /\ N \in SUBSET Role
    <3>1. S = {}
      BY <1>6 DEF NeedsIntent
    <3> QED BY <1>1, <1>3, <3>1 DEF Intending, Loop, NeedsDelete
  <2>2. \A r \in Role : view'[r] = journal'[r]
    BY <1>0, <1>1, <1>6 DEF Snapshot
  <2>3. \A r \in Role : Sure(r)'
    <3>1. CASE lease.state = "none"
      BY <1>0, <1>6, <3>1 DEF Branch, Sure
    <3>2. CASE lease.state # "none"
      <4>1. \A r \in Role : \/ journal[r].state = "deleting"
                            \/ journal[r].state = "absent" /\ journal[r].result = "verified"
        BY <1>6, <3>2 DEF Branch
      <4> QED BY <1>0, <4>1 DEF Sure, Marked, Verified
    <3> QED BY <3>1, <3>2
  <2>4. \A r \in N : Untried(Branch, view', journal', r)
    BY <1>6, <2>2 DEF NeedsDelete, Untried
  <2>5. \A r \in Role : view'[r].id # NoId => r \in N
    BY <1>6 DEF NeedsDelete
  <2> HIDE DEF N, c
  <2> QED BY <1>2, <1>3, <2>1, <2>3, <2>4, <2>5, DeletingFit
<1>7. CASE Branch \in {"recover", "active"}
  <2>1. ASSUME NEW r \in Role \ S
        PROVE  IF Spared(Branch, view', r) THEN Verified(journal'[r]) ELSE Marked(r)'
    <3>1. CASE Branch = "recover"
      BY <1>0, <1>4, <2>1, <3>1 DEF NeedsIntent, Spared, Marked
    <3>2. CASE Branch = "active"
      <4>1. journal[r].state \in {"deleting", "absent"}
        BY <1>4, <2>1, <3>2 DEF NeedsIntent
      <4>2. lease.state # "none"
        BY <3>2 DEF Branch
      <4>3. journal[r].state = "absent" => journal[r].result = "verified"
        BY <4>2 DEF RInv, Issued
      <4> QED BY <1>0, <1>4, <3>2, <4>1, <4>3 DEF Spared, Verified, Marked
    <3> QED BY <1>7, <3>1, <3>2
  <2>2. S \in SUBSET NeedsIntent(Branch, view')
    OBVIOUS
  <2> HIDE DEF c, S
  <2> QED BY <1>1, <1>3, <1>7, <2>1, <2>2, IntendingFit
<1> QED BY <1>2, <1>6, <1>7 DEF CleanupMode

\* A cleanup may start on whatever was left behind.
LEMMA CleanupKeeps ==
  ASSUME TypeOK, TypeOK', IInv, IInv', RInv, PInv, StartCleanup PROVE PInv'
<1>0. UNCHANGED <<live, pending, created, journal>> /\ step' = "cleanup"
  BY DEF StartCleanup, account, disk
<1>1. CASE UNCHANGED <<cmd, view>>
  BY <1>0, <1>1, SameKeeps
<1>2. CASE ~UNCHANGED <<cmd, view>>
  <2> DEFINE c == [Idle EXCEPT !.mode = Branch]
             S == NeedsIntent(Branch, Snapshot)
  <2>1. cmd' = Intending(c, S, Snapshot) /\ Branch # "refused"
    BY <1>2 DEF StartCleanup
  <2>2. Branch \in CleanupMode
    BY <2>1, Branches
  <2>3. c \in Cmd /\ c.mode = Branch
    <3>1. Branch \in Mode
      BY <2>2 DEF Mode
    <3> QED BY <3>1, IdleType DEF Cmd, Idle
  <2>4. Snapshot \in [Role -> Record]
    BY SnapshotType DEF TypeOK
  <2>5. cmd'.at \in {"failed", "intent", "probe", "delete", "list"} /\ cmd'.mode = Branch
    <3>1. Forth(c, cmd')
      BY <2>1, <2>3, IntendingLeads
    <3>2. Trims(c, cmd', Snapshot)
      BY <2>1, <2>3, <2>4, TrimsDeleting
    <3> QED BY <2>3, <3>1, <3>2 DEF Forth, Trims
  <2>6. Decidedly'
    BY <1>0, RestDecided DEF StartCleanup, At, PInv
  <2>7. Unused' /\ Mirrored'
    BY <1>0, <2>2, <2>5 DEF Unused, Mirrored, At, CreatePlaces, CleanupMode
  <2> QED BY <1>2, <2>6, <2>7, CleanupFit DEF PInv
<1> QED BY <1>1, <1>2

-----------------------------------------------------------------------------
(* The other steps, and the invariant. *)

\* Commands start on an account and a journal that are as they left them.
LEMMA StartKeeps ==
  ASSUME Calm, TypeOK, IInv, RInv, PInv, StartAcquire \/ StartBegin PROVE PInv'
<1>0. UNCHANGED <<live, pending, created, journal, view>> /\ step' # "acquire" /\ At("idle")
  BY DEF StartAcquire, StartBegin, account, disk
<1>1. Decidedly'
  BY <1>0, RestDecided DEF At, PInv
<1>2. CASE StartAcquire
  <2>1. cmd'.at = "construct" /\ cmd'.mode = "acquire"
    BY <1>2 DEF StartAcquire, Idle
  <2>2. \A r \in Role : journal[r] = NoRecord /\ view[r] = NoRecord /\ created[r] = NoId
    BY <1>2 DEF StartAcquire, PInv, Unused, Blank, IInv, OneCreate, Untouched
  <2>3. Mirrored'
    BY <1>0, <2>2 DEF Mirrored, NoRecord
  <2>4. Phase(NoRecord) = "unused"
    BY DEF Phase, NoRecord, Verified
  <2>5. Unused'
    BY <1>0, <2>1, <2>2, <2>4 DEF Unused, At, CreatePlaces
  <2>6. (Exactly /\ Tagwise /\ Intended /\ Deletable /\ Proven)'
    BY <2>1, AsideFit DEF CleanupMode, ExactPlaces, ReapPlaces
  <2> QED BY <1>1, <2>3, <2>5, <2>6 DEF PInv
<1>3. CASE StartBegin
  <2>1. cmd'.at = "testing" /\ cmd'.mode = "begin"
    <3>1. cmd' = [[Idle EXCEPT !.mode = "begin"] EXCEPT !.at = "testing", !.role = First(Role),
                                                        !.todo = Role \ {First(Role)}]
      BY <1>3 DEF StartBegin, Loop, Role
    <3> QED BY <3>1 DEF Idle
  <2>2. Unused' /\ Mirrored'
    BY <1>0, <1>3, <2>1 DEF StartBegin, Unused, Mirrored, At, CreatePlaces
  <2>3. (Exactly /\ Tagwise /\ Intended /\ Deletable /\ Proven)'
    BY <2>1, AsideFit DEF CleanupMode, ExactPlaces, ReapPlaces
  <2> QED BY <1>1, <2>2, <2>3 DEF PInv
<1> QED BY <1>2, <1>3

\* What a command leaves behind when it ends or is killed.
LEMMA EndKeeps ==
  ASSUME Calm, TypeOK, IInv, PInv, Return \/ Kill PROVE PInv'
<1>0. /\ UNCHANGED <<live, pending, created, journal, step>>
      /\ cmd'.at = "idle" /\ cmd'.mode = "idle" /\ step # "acquire"
  BY DEF Return, Kill, account, disk, Idle, IInv, Control, At
<1>1. pending' = {}
  BY DEF Return, Kill, Calm, PInv, Decidedly, At, account
<1>2. Decidedly'
  BY <1>0, <1>1 DEF PInv, Decidedly, Gone
<1>3. Unused' /\ Mirrored'
  BY <1>0 DEF Unused, Mirrored, At, CreatePlaces
<1>4. (Exactly /\ Tagwise /\ Intended /\ Deletable /\ Proven)'
  BY <1>0, AsideFit DEF CleanupMode, ExactPlaces, ReapPlaces
<1> QED BY <1>2, <1>3, <1>4 DEF PInv

\* A service comes up for the role acquire waits for, and for no other.
LEMMA AcceptKeeps ==
  ASSUME Calm, TypeOK, IInv, RInv, PInv, UNCHANGED <<disk, view, cmd, step>>,
         NEW r \in Role, AcceptCreate(r) \/ RejectCreate(r)
  PROVE  PInv'
<1>0. UNCHANGED <<journal, view, cmd, step>>
  BY DEF disk
<1>1. cmd.at = "await" /\ cmd.role = r /\ cmd.mode = "acquire" /\ r \in pending /\ created[r] = NoId
  <2>1. r \in pending
    BY DEF AcceptCreate, RejectCreate
  <2> QED BY <2>1 DEF PInv, Decidedly, At, IInv, Control, AcquirePlaces, CreatePlaces, Ledger
<1>2. (Exactly /\ Tagwise /\ Intended /\ Deletable /\ Proven)'
  BY <1>0, <1>1, AsideFit DEF CleanupMode, ExactPlaces, ReapPlaces
<1>3. Unused'
  BY <1>0 DEF PInv, Unused, Blank, At
<1>4. CASE RejectCreate(r)
  <2>1. UNCHANGED <<live, created>> /\ pending' \subseteq pending
    BY <1>4 DEF RejectCreate
  <2>2. Decidedly' /\ Mirrored'
    BY <1>0, <2>1 DEF PInv, Decidedly, Mirrored, Gone, At
  <2> QED BY <1>2, <1>3, <2>2 DEF PInv
<1>5. CASE AcceptCreate(r)
  <2>1. PICK id \in Fresh : live' = live \cup {id} /\ created' = [created EXCEPT ![r] = id]
    BY <1>5 DEF AcceptCreate
  <2>2. /\ pending' \subseteq pending /\ created \in [Role -> Id]
        /\ id \notin Owned /\ id # NoId
    BY <1>5, AccountAssumption DEF AcceptCreate, Fresh, TypeOK, AccountTypeOK
  <2>3. \A q \in Role : q # r => created'[q] = created[q] /\ id # created[q]
    BY <2>1, <2>2 DEF Owned
  <2>4. created'[r] = id
    BY <2>1, <2>2
  <2>5. view[r].state = "creating" /\ journal[r].state = "creating"
    BY <1>1 DEF IInv, OneCreate, CreatePlaces, PInv, Mirrored
  <2>6. Decidedly'
    <3>1. \A q \in pending' : At("await")' /\ cmd'.role = q
      BY <1>0, <2>2 DEF PInv, Decidedly, At
    <3>2. \A p, q \in Role : p # q /\ created'[p] # NoId => created'[p] # created'[q]
      BY <2>2, <2>3, <2>4 DEF PInv, Decidedly
    <3>3. \A q \in Role : Verified(journal'[q]) => Gone(q)'
      BY <1>0, <2>1, <2>3, <2>5 DEF PInv, Decidedly, Gone, Verified
    <3> QED BY <1>0, <3>1, <3>2, <3>3 DEF PInv, Decidedly
  <2>7. ASSUME NEW p \in Role \ {r} PROVE view[p].state = "absent" \/ view[p].id # NoId
    <3>1. CASE r = "sink"
      BY <1>1, <2>7, <3>1 DEF RInv, Named, CreatePlaces, Role
    <3>2. CASE r = "outline"
      <4>1. p = "sink" /\ Phase(journal["sink"]) = "unused" /\ journal["sink"].state # "none"
        BY <1>1, <2>7, <3>2 DEF PInv, Unused, CreatePlaces, Role, RInv, Declared, JournalUsable
      <4>2. journal["sink"] \in Record
        BY DEF TypeOK, LeaseTypeOK, Role
      <4>3. journal["sink"].state = "absent"
        BY <4>1, <4>2 DEF Phase, Record, LeaseStates
      <4> QED BY <1>1, <4>1, <4>3 DEF PInv, Mirrored, Role
    <3> QED BY <3>1, <3>2 DEF Role
  <2>8. Mirrored'
    <3>1. \A q \in Role : view'[q].state = journal'[q].state
      BY <1>0, <1>1 DEF PInv, Mirrored
    <3>2. ASSUME NEW q \in Role, NEW p \in Role, q # p, created'[q] # view'[q].id
          PROVE  view'[p].state = "absent" \/ view'[p].id # NoId
      <4>1. CASE q = r
        BY <1>0, <2>7, <3>2, <4>1
      <4>2. CASE q # r
        BY <1>0, <1>1, <2>3, <3>2, <4>2 DEF PInv, Mirrored
      <4> QED BY <4>1, <4>2
    <3> QED BY <3>1, <3>2 DEF Mirrored
  <2> QED BY <1>2, <1>3, <2>6, <2>8 DEF PInv
<1> QED BY <1>4, <1>5

\* Nothing comes up again in a calm account.
LEMMA ProviderKeeps ==
  ASSUME Calm, TypeOK, IInv, RInv, PInv, Provider PROVE PInv'
<1>1. ~\E id \in ServiceId : Resurface(id)
  <2>1. resurfaced \in 0..0 /\ MaxResurfaced = 0
    BY DEF Calm, TypeOK, AccountTypeOK
  <2> QED BY <2>1 DEF Resurface
<1> QED BY <1>1, AcceptKeeps DEF Provider, ProviderNext

\* The invariant holds of an account without leases.
LEMMA InitKeeps == Init => PInv
<1> SUFFICES ASSUME Init PROVE PInv
  OBVIOUS
<1>1. /\ pending = {} /\ cmd.at = "idle" /\ cmd.mode = "idle" /\ step = "acquire"
      /\ \A r \in Role : journal[r] = NoRecord /\ view[r] = NoRecord /\ created[r] = NoId
  BY DEF Init, AccountInit, Idle, NoView
<1>2. Decidedly
  BY <1>1 DEF Decidedly, Verified, NoRecord
<1>3. Unused /\ Mirrored
  BY <1>1 DEF Unused, Blank, Mirrored, At, CreatePlaces
<1>4. Exactly /\ Tagwise /\ Intended /\ Deletable /\ Proven
  BY <1>1 DEF Exactly, Tagwise, Intended, Deletable, Proven, ExactPlaces, ReapPlaces,
     CleanupMode, At
<1> QED BY <1>2, <1>3, <1>4 DEF PInv

\* Every step keeps it.
LEMMA NextKeeps ==
  Calm /\ TypeOK /\ TypeOK' /\ IInv /\ IInv' /\ RInv /\ PInv /\ [Next]_allVars => PInv'
<1> SUFFICES ASSUME Calm, TypeOK, TypeOK', IInv, IInv', RInv, PInv, [Next]_allVars PROVE PInv'
  OBVIOUS
<1>1. CASE StartAcquire \/ StartBegin
  BY <1>1, StartKeeps
<1>2. CASE StartCleanup
  BY <1>2, CleanupKeeps
<1>3. CASE CommandNext
  BY <1>3, CommandKeeps DEF CommandNext
<1>4. CASE Return \/ Kill
  BY <1>4, EndKeeps
<1>5. CASE Provider
  BY <1>5, ProviderKeeps
<1>6. CASE UNCHANGED allVars
  BY <1>6, SameKeeps DEF allVars, vars, account, disk, local
<1> QED BY <1>1, <1>2, <1>3, <1>4, <1>5, <1>6 DEF Next, Finished

(* In a calm account the journal, the view and the account agree at every  *)
(* place on what is marked, what is gone and what is proved (lease.py).    *)
THEOREM RecordsPromise == Calm => (Spec => []PInv)
<1> SUFFICES ASSUME Calm PROVE Spec => []PInv
  OBVIOUS
<1>1. Init => PInv
  BY InitKeeps
<1>2. TypeOK /\ TypeOK' /\ IInv /\ IInv' /\ RInv /\ PInv /\ [Next]_allVars => PInv'
  BY NextKeeps
<1> QED BY <1>1, <1>2, TypeCorrect, Invariance, RecordsAgree, PTL DEF Spec

-----------------------------------------------------------------------------
(* Every step is one that LeasePromise allows, or none that it sees. *)

\* Nothing happens to the services, and no report is made.
Keeps == UNCHANGED <<created, live>> /\ (exit' = "absent" <=> exit = "absent")

\* What the promise sees of a role that is written to, and of the others.
LEMMA SeenAccount ==
  ASSUME Keeps
  PROVE  /\ {r \in Role : created'[r] \in live'} = {r \in Role : created[r] \in live}
         /\ {r \in Role : created'[r] # NoId} = {r \in Role : created[r] # NoId}
         /\ (exit' = "absent") = (exit = "absent")
BY DEF Keeps

\* The phases change where the journal does.
LEMMA SeenJournal ==
  ASSUME NEW r \in Role, \A q \in Role \ {r} : journal'[q] = journal[q]
  PROVE  [q \in Role |-> Phase(journal'[q])]
           = [[q \in Role |-> Phase(journal[q])] EXCEPT ![r] = Phase(journal'[r])]
<1> DEFINE f == [q \in Role |-> Phase(journal[q])]
<1>1. \A q \in Role : [f EXCEPT ![r] = Phase(journal'[r])][q] = Phase(journal'[q])
  OBVIOUS
<1> QED BY <1>1

\* The phase of one role moves on.
LEMMA PhaseMoves ==
  ASSUME Keeps, NEW r \in Role, \A q \in Role \ {r} : journal'[q] = journal[q],
         \/ Phase(journal'[r]) = Phase(journal[r])
         \/ Phase(journal[r]) = "unused" /\ Phase(journal'[r]) = "held"
         \/ Phase(journal'[r]) = "closing"
         \/ Phase(journal[r]) = "closing" /\ Gone(r) /\ Phase(journal'[r]) = "closed"
  PROVE  [Promise!Next]_(Promise!vars)
<1> DEFINE f == [q \in Role |-> Phase(journal[q])]
           g == [q \in Role |-> Phase(journal'[q])]
<1>1. g = [f EXCEPT ![r] = Phase(journal'[r])] /\ f[r] = Phase(journal[r])
  BY SeenJournal
<1>2. CASE Phase(journal'[r]) = Phase(journal[r])
  <2>1. g = f
    BY <1>1, <1>2
  <2> QED BY <2>1, SeenAccount DEF Promise!vars
<1>3. CASE Phase(journal[r]) = "unused" /\ Phase(journal'[r]) = "held"
  <2>1. Promise!Declare(r)
    BY <1>1, <1>3, SeenAccount DEF Promise!Declare
  <2> QED BY <2>1 DEF Promise!Next
<1>4. CASE Phase(journal'[r]) = "closing"
  <2>1. Promise!Close(r)
    BY <1>1, <1>4, SeenAccount DEF Promise!Close
  <2> QED BY <2>1 DEF Promise!Next
<1>5. CASE Phase(journal[r]) = "closing" /\ Gone(r) /\ Phase(journal'[r]) = "closed"
  <2>1. r \notin {q \in Role : created[q] \in live}
    BY <1>5 DEF Gone
  <2>2. Promise!Settle(r)
    BY <1>1, <1>5, <2>1, SeenAccount DEF Promise!Settle
  <2> QED BY <2>2 DEF Promise!Next
<1> QED BY <1>2, <1>3, <1>4, <1>5

\* A service is deleted, if it is one of the bundle's.
LEMMA DeletionMoves ==
  ASSUME Decidedly, UNCHANGED <<journal, created, exit>>,
         NEW id, id # NoId, live' = live \ {id},
         \A r \in Role : created[r] = id => Marked(r)
  PROVE  [Promise!Next]_(Promise!vars)
<1>1. CASE \E r \in Role : created[r] = id
  <2>1. PICK r \in Role : created[r] = id
    BY <1>1
  <2>2. Phase(journal[r]) = "closing"
    BY <2>1 DEF Marked, Phase, Verified
  <2>3. \A q \in Role : created[q] = id <=> q = r
    BY <2>1 DEF Decidedly
  <2>4. {q \in Role : created'[q] \in live'} = {q \in Role : created[q] \in live} \ {r}
    BY <2>3
  <2>5. Promise!Vanish(r)
    BY <2>2, <2>4 DEF Promise!Vanish
  <2> QED BY <2>5 DEF Promise!Next
<1>2. CASE ~\E r \in Role : created[r] = id
  <2>1. {q \in Role : created'[q] \in live'} = {q \in Role : created[q] \in live}
    BY <1>2
  <2> QED BY <2>1 DEF Promise!vars
<1> QED BY <1>1, <1>2

\* A command ends, or another one begins.
LEMMA ClaimMoves ==
  ASSUME UNCHANGED <<journal, created, live>>,
         exit' = "absent" => \A r \in Role : Verified(journal[r])
  PROVE  [Promise!Next]_(Promise!vars)
<1>1. CASE exit' = "absent"
  <2>1. \A r \in Role : Phase(journal[r]) = "closed"
    BY <1>1 DEF Verified, Phase
  <2>2. Promise!Claim
    BY <1>1, <2>1 DEF Promise!Claim
  <2> QED BY <2>2 DEF Promise!Next
<1>2. CASE exit' # "absent"
  <2>1. Promise!Reopen
    BY <1>2 DEF Promise!Reopen
  <2> QED BY <2>1 DEF Promise!Next
<1> QED BY <1>1, <1>2

\* The role's record moves its phase only the way it may move.
LEMMA WriteMoves ==
  ASSUME Calm, TypeOK, IInv, RInv, PInv, AcquireStep \/ CommandStep
  PROVE  [Promise!Next]_(Promise!vars)
<1> PICK r \in Role : r = cmd.role
  BY CmdFields DEF TypeOK, LeaseTypeOK
<1>0. journal \in [Role -> Record] /\ view \in [Role -> Record]
  BY DEF TypeOK, LeaseTypeOK
<1>1. Keeps
  <2>1. exit' = exit
    BY StepMode
  <2>2. UNCHANGED <<created, live>>
    BY AccountMoves, AcquireLeads, CommandLeads DEF account, IInv
  <2> QED BY <2>1, <2>2 DEF Keeps
<1>2. /\ \A q \in Role \ {r} : journal'[q] = journal[q]
      /\ journal'[r] = journal[r] \/ Due(journal'[r])
  BY Recorded DEF RInv
<1> DEFINE old == journal[r]
           new == journal'[r]
<1>a. cmd.mode = "acquire" => view[r].state = old.state
  BY DEF PInv, Mirrored
<1>b. \A rec : rec.state \in {"creating", "healthy", "issued", "testing"} => Phase(rec) = "held"
  BY DEF Phase, Verified
<1>c. \A rec : rec.state = "deleting" => Phase(rec) = "closing"
  BY DEF Phase, Verified
<1>d. \A rec : Verified(rec) => Phase(rec) = "closed"
  BY DEF Phase, Verified
<1>3. CASE new = old
  BY <1>1, <1>2, <1>3, PhaseMoves
<1>4. CASE At("construct") /\ new = Rec("absent", NoId, "none")
  <2>1. Phase(old) = "unused"
    BY <1>4 DEF PInv, Unused
  <2>2. Phase(new) = "unused"
    BY <1>4 DEF Phase, Rec, Verified
  <2> QED BY <1>1, <1>2, <2>1, <2>2, PhaseMoves
<1>5. CASE At("creating") /\ new.state = "creating"
  <2>1. Phase(old) = "unused" /\ Phase(new) = "held"
    BY <1>b, <1>5 DEF PInv, Unused
  <2> QED BY <1>1, <1>2, <2>1, PhaseMoves
<1>6. CASE cmd.at \in {"record", "healthy"} /\ new.state \in {"creating", "healthy"}
  <2>1. old.state = "creating"
    BY <1>a, <1>6 DEF IInv, OneCreate, Control, CreatePlaces, AcquirePlaces
  <2>2. Phase(old) = "held" /\ Phase(new) = "held"
    BY <1>b, <1>6, <2>1
  <2> QED BY <1>1, <1>2, <2>2, PhaseMoves
<1>7. CASE At("issue") /\ new.state = "issued" /\ view[r].state \in {"healthy", "none"}
  <2>1. old.state \in {"healthy", "none"}
    BY <1>a, <1>7 DEF At, IInv, Control, AcquirePlaces
  <2>2. view[r].id # NoId
    BY <1>7 DEF At, RInv, Named
  <2>3. created[r] # NoId
    BY <2>2 DEF IInv, Ledger
  <2>4. old.state # "none"
    BY <2>3 DEF IInv, Ledger, Untouched
  <2>5. Phase(old) = "held" /\ Phase(new) = "held"
    BY <1>b, <1>7, <2>1, <2>4
  <2> QED BY <1>1, <1>2, <2>5, PhaseMoves
<1>8. CASE At("testing") /\ new.state = "testing"
  <2>1. old.state \in {"issued", "testing"}
    BY <1>8 DEF At, IInv, Control, PInv, Unused
  <2>2. Phase(old) = "held" /\ Phase(new) = "held"
    BY <1>b, <1>8, <2>1
  <2> QED BY <1>1, <1>2, <2>2, PhaseMoves
<1>9. CASE new.state = "deleting"
  BY <1>1, <1>2, <1>c, <1>9, PhaseMoves
<1>10. CASE cmd.at \in {"closed", "settled", "settle"} /\ Verified(new)
  <2>1. Gone(r) /\ Sure(r)
    <3>1. CASE At("closed")
      BY <3>1 DEF At, ExactPlaces, PInv, Exactly, Sure
    <3>2. CASE At("settled")
      <4>1. cmd.mode = "acquire" /\ view[r].state = "deleting"
        BY <3>2 DEF At, IInv, Control, OneCreate, AcquirePlaces
      <4>2. Gone(r)
        BY <3>2 DEF PInv, Tagwise
      <4> QED BY <1>a, <4>1, <4>2 DEF Sure, Marked
    <3>3. CASE At("settle")
      BY <3>3 DEF At, IInv, Control, CleanupPlaces, PInv, Proven
    <3> QED BY <1>10, <3>1, <3>2, <3>3 DEF At
  <2>2. Phase(new) = "closed" /\ Phase(old) \in {"closing", "closed"}
    BY <1>10, <1>c, <1>d, <2>1 DEF Sure, Marked
  <2> QED BY <1>1, <1>2, <2>1, <2>2, PhaseMoves
<1> QED
  BY <1>2, <1>3, <1>4, <1>5, <1>6, <1>7, <1>8, <1>9, <1>10 DEF Due, At

\* What a command asks of the provider deletes only what is marked.
LEMMA CallMoves ==
  ASSUME Calm, TypeOK, IInv, RInv, PInv, ProviderStep
  PROVE  [Promise!Next]_(Promise!vars)
<1> PICK r \in Role : r = cmd.role
  BY CmdFields DEF TypeOK, LeaseTypeOK
<1>1. UNCHANGED <<journal, created, exit>>
  BY AccountMoves, StepMode, ProviderDecided DEF disk
<1>2. \/ live' = live
      \/ At("delete") /\ live' = live \ {view[r].id}
      \/ At("reap") /\ \E id \in cmd.cands : live' = live \ {id}
  BY DEF ProviderStep, Delete, Verify, List, ReapDelete, ReapVerify, Relist, AssertAbsent,
     DeleteService, ListServices, account
<1>3. CASE live' = live
  BY <1>1, <1>3, PhaseMoves DEF Keeps
<1>4. CASE At("delete") /\ live' = live \ {view[r].id}
  <2>1. view[r].id # NoId /\ Marked(r)
    BY <1>4 DEF PInv, Exactly, ExactPlaces, At
  <2>2. view[r].id = created[r]
    BY <2>1 DEF IInv, Ledger
  <2>3. \A q \in Role : created[q] = view[r].id => q = r
    BY <2>1, <2>2 DEF PInv, Decidedly
  <2> QED BY <1>1, <1>4, <2>1, <2>3, DeletionMoves DEF PInv
<1>5. CASE At("reap") /\ \E id \in cmd.cands : live' = live \ {id}
  <2>1. PICK id \in cmd.cands : live' = live \ {id}
    BY <1>5
  <2>2. id # NoId
    BY AccountAssumption DEF TypeOK, LeaseTypeOK, Cmd
  <2>3. \A q \in Role : created[q] = id => Marked(q)
    BY <1>5, <2>1 DEF PInv, Tagwise, ReapPlaces, At
  <2> QED BY <1>1, <2>1, <2>2, <2>3, DeletionMoves DEF PInv
<1> QED BY <1>2, <1>3, <1>4, <1>5

\* A service appears once, for a role that is held.
LEMMA AcceptMoves ==
  ASSUME TypeOK, IInv, PInv, UNCHANGED <<journal, exit>>, NEW r \in Role, AcceptCreate(r)
  PROVE  [Promise!Next]_(Promise!vars)
<1>1. cmd.at = "await" /\ cmd.role = r /\ cmd.mode = "acquire" /\ created[r] = NoId
  <2>1. r \in pending
    BY DEF AcceptCreate
  <2> QED BY <2>1 DEF PInv, Decidedly, At, IInv, Control, AcquirePlaces, CreatePlaces, Ledger
<1>2. Phase(journal[r]) = "held"
  <2>1. journal[r].state = "creating"
    BY <1>1 DEF IInv, OneCreate, CreatePlaces, PInv, Mirrored
  <2> QED BY <2>1 DEF Phase, Verified
<1>3. PICK id \in Fresh : live' = live \cup {id} /\ created' = [created EXCEPT ![r] = id]
  BY DEF AcceptCreate
<1>4. created \in [Role -> Id] /\ id \notin Owned /\ id # NoId
  BY AccountAssumption DEF Fresh, TypeOK, AccountTypeOK
<1>5. created'[r] = id /\ \A q \in Role \ {r} : created'[q] = created[q] /\ created[q] # id
  BY <1>3, <1>4 DEF Owned
<1>6. /\ {q \in Role : created'[q] \in live'} = {q \in Role : created[q] \in live} \cup {r}
      /\ {q \in Role : created'[q] # NoId} = {q \in Role : created[q] # NoId} \cup {r}
  BY <1>3, <1>4, <1>5
<1>7. r \notin {q \in Role : created[q] # NoId}
  BY <1>1
<1>8. Promise!Appear(r)
  BY <1>2, <1>6, <1>7 DEF Promise!Appear
<1> QED BY <1>8 DEF Promise!Next

\* The provider's own steps are seen as one service that appears, or not at all.
LEMMA ProviderMoves ==
  ASSUME Calm, TypeOK, IInv, PInv, Provider PROVE [Promise!Next]_(Promise!vars)
<1>1. ~\E id \in ServiceId : Resurface(id)
  <2>1. resurfaced \in 0..0 /\ MaxResurfaced = 0
    BY DEF Calm, TypeOK, AccountTypeOK
  <2> QED BY <2>1 DEF Resurface
<1>2. UNCHANGED <<journal, exit>>
  BY DEF Provider, disk
<1>3. PICK r \in Role : AcceptCreate(r) \/ RejectCreate(r)
  BY <1>1 DEF Provider, ProviderNext
<1>4. CASE AcceptCreate(r)
  BY <1>2, <1>4, AcceptMoves
<1>5. CASE RejectCreate(r)
  BY <1>2, <1>5, PhaseMoves DEF RejectCreate, Keeps
<1> QED BY <1>3, <1>4, <1>5

\* A cleanup that reports "absent" has closed both roles.
LEMMA TurnMoves ==
  ASSUME PInv, StartAcquire \/ StartBegin \/ StartCleanup \/ Return \/ Kill
  PROVE  [Promise!Next]_(Promise!vars)
<1>1. UNCHANGED <<journal, created, live>>
  BY DEF StartAcquire, StartBegin, StartCleanup, Return, Kill, account, disk
<1>2. exit' = "absent" => Return /\ At("ok") /\ cmd.mode \in CleanupMode
  BY DEF StartAcquire, StartBegin, StartCleanup, Return, Kill, At
<1>3. exit' = "absent" => \A r \in Role : Verified(journal[r])
  BY <1>2 DEF PInv, Proven
<1> QED BY <1>1, <1>3, ClaimMoves

\* Every step of the lease is a step of the promise or a stutter.
LEMMA NextMoves ==
  Calm /\ TypeOK /\ IInv /\ RInv /\ PInv /\ [Next]_allVars => [Promise!Next]_(Promise!vars)
<1> SUFFICES ASSUME Calm, TypeOK, IInv, RInv, PInv, [Next]_allVars
             PROVE  [Promise!Next]_(Promise!vars)
  OBVIOUS
<1>1. CASE StartAcquire \/ StartBegin \/ StartCleanup \/ Return \/ Kill
  BY <1>1, TurnMoves
<1>2. CASE CommandNext
  BY <1>2, WriteMoves, CallMoves DEF CommandNext
<1>3. CASE Provider
  BY <1>3, ProviderMoves
<1>4. CASE UNCHANGED allVars
  BY <1>4 DEF allVars, vars, account, disk, local, Promise!vars
<1> QED BY <1>1, <1>2, <1>3, <1>4 DEF Next, Finished

\* An account without leases promises nothing yet.
LEMMA InitMoves == Init => Promise!Init
<1> SUFFICES ASSUME Init PROVE Promise!Init
  OBVIOUS
<1>1. \A r \in Role : Phase(journal[r]) = "unused" /\ created[r] = NoId
  BY DEF Init, AccountInit, NoRecord, Phase, Verified
<1>2. live \subseteq ServiceId /\ NoId \notin live
  BY AccountAssumption DEF Init, AccountInit
<1>3. exit = "none"
  BY DEF Init
<1> QED BY <1>1, <1>2, <1>3 DEF Promise!Init

(* The journal, the account and the reported result implement LeasePromise: *)
(* a service exists only for a declared role, is deleted only after its     *)
(* deletion was journalled, is recorded absent only when it is, and absence *)
(* is reported only of both (lease.py, lease_cli cleanup).                  *)
THEOREM PromiseKept == Calm => (Spec => ImplementsPromise)
<1> SUFFICES ASSUME Calm PROVE Spec => ImplementsPromise
  OBVIOUS
<1>1. Init => Promise!Init
  BY InitMoves
<1>2. TypeOK /\ IInv /\ RInv /\ PInv /\ [Next]_allVars => [Promise!Next]_(Promise!vars)
  BY NextMoves
<1>3. Spec => []PInv
  BY RecordsPromise
<1> QED
  BY <1>1, <1>2, <1>3, TypeCorrect, Invariance, RecordsAgree, PTL
     DEF Spec, ImplementsPromise, Promise!Spec
=============================================================================

---------------------------- MODULE ServiceProofs ----------------------------
(***************************************************************************)
(* Four invariants of ServiceLifecycle for any descendants, strangers and  *)
(* process numbers: type correctness, the currency of the sidecar, the     *)
(* containment of a Windows replacement, the permanence of a restored      *)
(* route.                                                                  *)
(*                                                                         *)
(* They hang together.  The sidecar is current because it is invalidated   *)
(* before the launch and rewritten only from an identity that was proved   *)
(* for the replacement's number; that the predecessor can not have been    *)
(* the one proved is because its number was free when the replacement got  *)
(* it (Recorded).  The route's cleanup asks only about the process that    *)
(* the sidecar names: that is enough because on macOS the predecessor is   *)
(* gone before the sidecar is touched (RouteProof).  Both need to know     *)
(* where the controller can be for what it was asked to do (Places) and    *)
(* that there is one service up to the launch (Single).  Containment needs *)
(* that nothing of the replacement's runs before it is assigned and that   *)
(* forks inherit the job (Contained).                                      *)
(***************************************************************************)
EXTENDS ServiceLifecycle, TLAPS

-----------------------------------------------------------------------------
\* The inductive invariant.

\* Where the controller is, or will be once an identity is proved.
Where == IF ctl.at \in {"verify", "stat"} THEN ctl.ret ELSE ctl.at

\* What an identity is proved for.
Verified == {"adopt", "again", "kill", "terminate", "commit", "restarted",
             "f_tree", "f_term", "w_check", "w_snap", "w_job"}
Returns == ctl.at \in {"verify", "stat"} => ctl.ret \in Verified

\* What the controller was asked to do decides where it can be.
Places ==
    /\ Returns
    /\ ctl.op = "create" => Where \in {"create", "adopt"}
    /\ ctl.op = "none" => Where \in {"idle", "exiting"}
    /\ ctl.op = "loss" => Where \in StopsPredecessor \cup Restarts
    /\ ctl.op = "undo" => Where \in StopsJob
    /\ ctl.op = "finalize" =>
          \/ platform = "linux" /\ Where \in StopsOnLinux
          \/ platform = "macos" /\ Where \in StopsOnMac
          \/ platform = "windows" /\ Where \in StopsJob \cup {"w_finalize", "w_evidence"}
    /\ ctl.op = "gone" => Where \in Ended \cup {"o_read"}
    /\ ctl.op = "outer" => Where \in Outside
    /\ Where \in Owns \cup StopsJob \cup StopsExternal => platform = "windows"
    /\ Where \in {"r_probe", "r_decide", "r_verify"} => platform = "macos"

\* Up to the launch there is one service, and the controller knows its number.
Unrestarted == \/ ctl.op \in {"create", "none"} /\ ctl.loss = "none"
               \/ ctl.op = "loss" /\ Where \in StopsPredecessor

Single ==
    /\ proc[Initial].pid = Initial /\ Exists(Initial)
    /\ ctl.op = "create" => ctl.loss = "none"
    /\ ctl.op = "finalize" => ctl.loss # "none"
    /\ Unrestarted => ctl.restarts = 0 /\ ctl.pid = Initial /\ ~ctl.handle
    /\ ctl.handle => platform = "windows"
    /\ Where = "launch" => ~ctl.handle /\ ctl.restarts = 1
    /\ ctl.restarts = 0 \/ Where = "launch" => ~Exists(Replacement)
    /\ ~Exists(Replacement) => proc[Replacement] = NoProcess /\ Lineage(Replacement) = {}

\* The sidecar follows: Pending from before the launch, then the identity of
\* what has the replacement's number.
Recorded ==
    /\ SidecarIsCurrent
    /\ Where = "launch" => sidecar = Pending
    /\ Where \in Owns => Exists(Replacement)
    /\ Exists(Replacement) /\ proc[Replacement].pid = Initial => ~Listed(Initial)
    /\ ctl.at \in {"verify", "stat"} /\ ctl.ret = "commit" =>
          Exists(Replacement) /\ ctl.pid = proc[Replacement].pid
    /\ ctl.at = "commit" =>
          /\ ctl.obs # Initial
          /\ platform # "linux" => ctl.obs = Replacement /\ Exists(Replacement)
    /\ ctl.at = "adopt" /\ platform # "linux" => ctl.obs = Initial
    /\ platform # "linux" =>
          /\ sidecar \in Services \cup {Pending}
          /\ sidecar = Replacement => Exists(Replacement)

\* On Windows nobody of the replacement's runs before it is in the job.
Contained ==
    /\ NeverUncontained
    /\ ctl.at \in {"j_create", "j_assign", "j_direct"} =>
          \A p \in Lineage(Replacement) : ~Live(p)
    /\ ctl.at = "j_assign" => job.open
    /\ ctl.at = "j_resume" => proc[Replacement].job /\ job.open

\* On macOS the predecessor is gone before its successor is launched, so that
\* the sidecar's process is the only one to ask about.
RouteProof ==
    /\ platform = "macos" /\ (Where \in {"start", "launch"} \/ Exists(Replacement)) =>
          ~Listed(Initial)
    /\ ctl.at \in {"r_decide", "r_verify"} \/ after.route = "ok" =>
          ctl.at \in Ended /\ ctl.op \in {"gone", "outer"} /\ \A s \in Services : ~Listed(s)
    /\ RouteStaysRestored

IInv == TypeOK /\ Places /\ Single /\ Recorded /\ Contained /\ RouteProof

-----------------------------------------------------------------------------
\* Helpers.

LEMMA Numbers ==
    /\ Services = {1, 2} /\ Initial = 1 /\ Replacement = 2 /\ Nobody = 0 /\ Pending = 0
    /\ Services \subseteq Procs /\ Procs \subseteq Nat \ {0}
    /\ Procs = Services \cup Descendants \cup Strangers
    /\ Descendants \cap Services = {} /\ Strangers \cap Services = {}
BY HostAssumption DEF Services, Initial, Replacement, Nobody, Pending, Procs

\* A number's holder is listed under it.
LEMMA HolderListed ==
    ASSUME NEW n
    PROVE  /\ Holder(n) \in Procs \cup {Nobody}
           /\ Holder(n) # Nobody => Holder(n) \in Procs /\ Listed(Holder(n)) /\ proc[Holder(n)].pid = n
BY DEF Holder, Listing, Nobody

\* Replacing one field of a controller by a value of its type.
LEMMA Update ==
    ASSUME NEW c \in Controllers
    PROVE  /\ \A v \in Labels : /\ [c EXCEPT !.at = v] \in Controllers
                                /\ [c EXCEPT !.ret = v] \in Controllers
           /\ \A v \in Nat : [c EXCEPT !.pid = v] \in Controllers
           /\ \A v \in {0, 1} : [c EXCEPT !.restarts = v] \in Controllers
           /\ \A v \in {"create", "none", "loss", "undo", "finalize", "gone", "outer"} :
                 [c EXCEPT !.op = v] \in Controllers
           /\ \A v \in Procs \cup {Nobody} : /\ [c EXCEPT !.obs = v] \in Controllers
                                            /\ [c EXCEPT !.init = v] \in Controllers
                                            /\ [c EXCEPT !.repl = v] \in Controllers
           /\ \A v \in SUBSET Procs : /\ [c EXCEPT !.known = v] \in Controllers
                                      /\ [c EXCEPT !.seen = v] \in Controllers
                                      /\ [c EXCEPT !.todo = v] \in Controllers
                                      /\ [c EXCEPT !.listed = v] \in Controllers
                                      /\ [c EXCEPT !.rest = v] \in Controllers
           /\ \A v \in BOOLEAN : /\ [c EXCEPT !.owned = v] \in Controllers
                                 /\ [c EXCEPT !.handle = v] \in Controllers
                                 /\ [c EXCEPT !.proven = v] \in Controllers
           /\ \A v \in {"none", "ok", "failed"} : [c EXCEPT !.loss = v] \in Controllers
           /\ \A v \in {"none", "clean", "failed"} : [c EXCEPT !.fin = v] \in Controllers
<1>1. \A v \in Labels : [c EXCEPT !.at = v] \in Controllers BY DEF Controllers
<1>2. \A v \in Labels : [c EXCEPT !.ret = v] \in Controllers BY DEF Controllers
<1>3. \A v \in Nat : [c EXCEPT !.pid = v] \in Controllers BY DEF Controllers
<1>4. \A v \in {0, 1} : [c EXCEPT !.restarts = v] \in Controllers BY DEF Controllers
<1>5. \A v \in {"create", "none", "loss", "undo", "finalize", "gone", "outer"} :
         [c EXCEPT !.op = v] \in Controllers BY DEF Controllers
<1>6. \A v \in Procs \cup {Nobody} : [c EXCEPT !.obs = v] \in Controllers BY DEF Controllers
<1>7. \A v \in Procs \cup {Nobody} : [c EXCEPT !.init = v] \in Controllers BY DEF Controllers
<1>8. \A v \in Procs \cup {Nobody} : [c EXCEPT !.repl = v] \in Controllers BY DEF Controllers
<1>9. \A v \in SUBSET Procs : [c EXCEPT !.known = v] \in Controllers BY DEF Controllers
<1>10. \A v \in SUBSET Procs : [c EXCEPT !.seen = v] \in Controllers BY DEF Controllers
<1>11. \A v \in SUBSET Procs : [c EXCEPT !.todo = v] \in Controllers BY DEF Controllers
<1>17. \A v \in SUBSET Procs : [c EXCEPT !.listed = v] \in Controllers BY DEF Controllers
<1>18. \A v \in SUBSET Procs : [c EXCEPT !.rest = v] \in Controllers BY DEF Controllers
<1>12. \A v \in BOOLEAN : [c EXCEPT !.owned = v] \in Controllers BY DEF Controllers
<1>13. \A v \in BOOLEAN : [c EXCEPT !.handle = v] \in Controllers BY DEF Controllers
<1>14. \A v \in BOOLEAN : [c EXCEPT !.proven = v] \in Controllers BY DEF Controllers
<1>15. \A v \in {"none", "ok", "failed"} : [c EXCEPT !.loss = v] \in Controllers BY DEF Controllers
<1>16. \A v \in {"none", "clean", "failed"} : [c EXCEPT !.fin = v] \in Controllers BY DEF Controllers
<1> HIDE DEF Controllers
<1>. QED BY <1>1, <1>2, <1>3, <1>4, <1>5, <1>6, <1>7, <1>8, <1>9, <1>10, <1>11, <1>12,
            <1>13, <1>14, <1>15, <1>16, <1>17, <1>18

\* What the invariant sees of a controller besides its place.
Same(c, d) ==
    /\ d \in Controllers
    /\ d.op = c.op /\ d.pid = c.pid /\ d.restarts = c.restarts
    /\ d.handle = c.handle /\ d.loss = c.loss

\* Replacing what the invariant does not see.
LEMMA AtChanges ==
    ASSUME NEW c \in Controllers, NEW l \in Labels, NEW d, d = [c EXCEPT !.at = l]
    PROVE  Same(c, d) /\ d.at = l /\ d.ret = c.ret
BY DEF Same, Controllers

LEMMA RetChanges ==
    ASSUME NEW c \in Controllers, NEW l \in Labels, NEW d, d = [c EXCEPT !.ret = l]
    PROVE  Same(c, d) /\ d.at = c.at /\ d.ret = l
BY DEF Same, Controllers

LEMMA SetChanges ==
    ASSUME NEW c \in Controllers, NEW S \in SUBSET Procs, NEW d,
           \/ d = [c EXCEPT !.known = S]
           \/ d = [c EXCEPT !.seen = S]
           \/ d = [c EXCEPT !.todo = S]
           \/ d = [c EXCEPT !.listed = S]
           \/ d = [c EXCEPT !.rest = S]
           \/ d = [c EXCEPT !.taken = S]
    PROVE  Same(c, d) /\ d.at = c.at /\ d.ret = c.ret
<1>1. CASE d = [c EXCEPT !.known = S] BY <1>1 DEF Same, Controllers
<1>2. CASE d = [c EXCEPT !.seen = S] BY <1>2 DEF Same, Controllers
<1>3. CASE d = [c EXCEPT !.todo = S] BY <1>3 DEF Same, Controllers
<1>4. CASE d = [c EXCEPT !.listed = S] BY <1>4 DEF Same, Controllers
<1>5. CASE d = [c EXCEPT !.rest = S] BY <1>5 DEF Same, Controllers
<1>6. CASE d = [c EXCEPT !.taken = S] BY <1>6 DEF Same, Controllers
<1>. QED BY <1>1, <1>2, <1>3, <1>4, <1>5, <1>6

LEMMA FlagChanges ==
    ASSUME NEW c \in Controllers, NEW b \in BOOLEAN, NEW d,
           d = [c EXCEPT !.owned = b] \/ d = [c EXCEPT !.proven = b]
    PROVE  Same(c, d) /\ d.at = c.at /\ d.ret = c.ret
<1>1. CASE d = [c EXCEPT !.owned = b] BY <1>1 DEF Same, Controllers
<1>2. CASE d = [c EXCEPT !.proven = b] BY <1>2 DEF Same, Controllers
<1>. QED BY <1>1, <1>2

LEMMA IdentityChanges ==
    ASSUME NEW c \in Controllers, NEW p \in Procs \cup {Nobody}, NEW d,
           \/ d = [c EXCEPT !.obs = p]
           \/ d = [c EXCEPT !.init = p]
           \/ d = [c EXCEPT !.repl = p]
    PROVE  Same(c, d) /\ d.at = c.at /\ d.ret = c.ret
<1>1. CASE d = [c EXCEPT !.init = p] BY <1>1 DEF Same, Controllers
<1>2. CASE d = [c EXCEPT !.repl = p] BY <1>2 DEF Same, Controllers
<1>3. CASE d = [c EXCEPT !.obs = p] BY <1>3 DEF Same, Controllers
<1>. QED BY <1>1, <1>2, <1>3

LEMMA FinChanges ==
    ASSUME NEW c \in Controllers, NEW v \in {"none", "clean", "failed"}, NEW d,
           d = [c EXCEPT !.fin = v]
    PROVE  Same(c, d) /\ d.at = c.at /\ d.ret = c.ret
BY DEF Same, Controllers

LEMMA LabelsKnown ==
    /\ {"create", "adopt", "idle", "exiting", "verify", "stat", "w_finalize", "w_evidence",
        "o_read"} \subseteq Labels
    /\ StopsPredecessor \subseteq Labels /\ Restarts \subseteq Labels /\ StopsJob \subseteq Labels
    /\ StopsOnLinux \subseteq Labels /\ StopsOnMac \subseteq Labels /\ Outside \subseteq Labels
    /\ Owns \subseteq Labels /\ StopsExternal \subseteq Labels /\ Ended \subseteq Labels
BY DEF Labels, StopsPredecessor, Restarts, Outside

\* Back in the idle state.
LEMMA IdleKeeps ==
    ASSUME NEW c \in Controllers
    PROVE  /\ Idle(c) \in Controllers
           /\ Idle(c).at = "idle" /\ Idle(c).ret = "idle" /\ Idle(c).op = "none"
           /\ Idle(c).pid = c.pid /\ Idle(c).restarts = c.restarts
           /\ Idle(c).handle = c.handle /\ Idle(c).loss = c.loss
<1>. DEFINE a == [c EXCEPT !.at = "idle", !.ret = "idle", !.op = "none"]
            b == [a EXCEPT !.obs = Nobody]
<1>1. /\ [c EXCEPT !.at = "idle"] \in Controllers
      /\ [c EXCEPT !.at = "idle", !.ret = "idle"] \in Controllers /\ a \in Controllers
  BY Update, LabelsKnown
<1>2. /\ a.at = "idle" /\ a.ret = "idle" /\ a.op = "none" /\ a.pid = c.pid
      /\ a.restarts = c.restarts /\ a.handle = c.handle /\ a.loss = c.loss
  BY DEF Controllers
<1>. HIDE DEF a
<1>3. /\ b \in Controllers /\ b.at = a.at /\ b.ret = a.ret /\ b.op = a.op /\ b.pid = a.pid
      /\ b.restarts = a.restarts /\ b.handle = a.handle /\ b.loss = a.loss
  BY <1>1 DEF Controllers
<1>. HIDE DEF b
<1>. DEFINE d == [b EXCEPT !.known = {}]
            e == [d EXCEPT !.todo = {}]
            f == [e EXCEPT !.owned = FALSE]
<1>4. /\ d \in Controllers /\ d.at = b.at /\ d.ret = b.ret /\ d.op = b.op /\ d.pid = b.pid
      /\ d.restarts = b.restarts /\ d.handle = b.handle /\ d.loss = b.loss
  BY <1>3 DEF Controllers
<1>. HIDE DEF d
<1>5. /\ e \in Controllers /\ e.at = d.at /\ e.ret = d.ret /\ e.op = d.op /\ e.pid = d.pid
      /\ e.restarts = d.restarts /\ e.handle = d.handle /\ e.loss = d.loss
  BY <1>4 DEF Controllers
<1>. HIDE DEF e
<1>6. /\ f \in Controllers /\ f.at = e.at /\ f.ret = e.ret /\ f.op = e.op /\ f.pid = e.pid
      /\ f.restarts = e.restarts /\ f.handle = e.handle /\ f.loss = e.loss
  BY <1>5 DEF Controllers
<1>. HIDE DEF f
<1>. DEFINE g == [f EXCEPT !.listed = {}]
            h == [g EXCEPT !.rest = {}]
<1>7. /\ g \in Controllers /\ g.at = f.at /\ g.ret = f.ret /\ g.op = f.op /\ g.pid = f.pid
      /\ g.restarts = f.restarts /\ g.handle = f.handle /\ g.loss = f.loss
  BY <1>6 DEF Controllers
<1>. HIDE DEF g
<1>8. /\ h \in Controllers /\ h.at = g.at /\ h.ret = g.ret /\ h.op = g.op /\ h.pid = g.pid
      /\ h.restarts = g.restarts /\ h.handle = g.handle /\ h.loss = g.loss
  BY <1>7 DEF Controllers
<1>9. Idle(c) = h BY DEF Idle, a, b, d, e, f, g
<1>. QED BY <1>2, <1>3, <1>4, <1>5, <1>6, <1>7, <1>8, <1>9

\* Where an exception leads, by what was asked for.
LEMMA RaiseLeads ==
    ASSUME NEW c \in Controllers, c.op \notin {"none", "gone"}, NEW r, r = Raise(c)
    PROVE  /\ r \in Controllers
           /\ r.pid = c.pid /\ r.restarts = c.restarts /\ r.handle = c.handle
           /\ c.op = "create" => r.op = "none" /\ r.at = "exiting" /\ r.loss = c.loss
           /\ c.op = "loss" /\ c.handle => r.op = "undo" /\ r.at = "w_job"
           /\ c.op = "undo" \/ (c.op = "loss" /\ ~c.handle) =>
                 r.op = "none" /\ r.at = "idle" /\ r.loss = "failed"
           /\ c.op = "finalize" => r.op = "none" /\ r.at = "exiting" /\ r.loss = c.loss
           /\ c.op = "outer" => r.op = "outer" /\ r.at = "o_fallback" /\ r.loss = c.loss
<1>. DEFINE i == Idle(c)
<1>0. /\ i \in Controllers /\ i.at = "idle" /\ i.op = "none" /\ i.pid = c.pid
      /\ i.restarts = c.restarts /\ i.handle = c.handle /\ i.loss = c.loss
  BY IdleKeeps
<1>. /\ c.handle \in BOOLEAN
     /\ c.op \in {"create", "none", "loss", "undo", "finalize", "gone", "outer"}
  BY DEF Controllers
<1>. HIDE DEF i
<1>1. CASE c.op = "create"
  <2>1. r = [i EXCEPT !.at = "exiting"] BY <1>1 DEF Raise, i
  <2>2. Same(i, r) /\ r.at = "exiting" BY <2>1, <1>0, AtChanges, LabelsKnown
  <2>. QED BY <2>2, <1>0, <1>1 DEF Same
<1>2. CASE c.op = "loss" /\ c.handle
  <2>. DEFINE a == [c EXCEPT !.op = "undo"]
  <2>1. r = [a EXCEPT !.at = "w_job"] BY <1>2 DEF Raise
  <2>2. /\ a \in Controllers /\ a.op = "undo" /\ a.pid = c.pid /\ a.restarts = c.restarts
        /\ a.handle = c.handle /\ a.loss = c.loss
    BY DEF Controllers
  <2>. HIDE DEF a
  <2>3. "w_job" \in Labels BY LabelsKnown DEF StopsJob
  <2>4. Same(a, r) /\ r.at = "w_job" BY <2>1, <2>2, <2>3, AtChanges
  <2>. QED BY <2>2, <2>4, <1>2 DEF Same
<1>3. CASE c.op = "undo" \/ (c.op = "loss" /\ ~c.handle)
  <2>1. r = [i EXCEPT !.loss = "failed"] BY <1>3 DEF Raise, i
  <2>2. /\ r \in Controllers /\ r.op = i.op /\ r.at = i.at /\ r.pid = i.pid
        /\ r.restarts = i.restarts /\ r.handle = i.handle /\ r.loss = "failed"
    BY <1>0, <2>1 DEF Controllers
  <2>. QED BY <2>2, <1>0, <1>3
<1>4. CASE c.op = "finalize"
  <2>. DEFINE a == [i EXCEPT !.at = "exiting"]
  <2>1. r = [a EXCEPT !.fin = "failed"] BY <1>4 DEF Raise, i
  <2>2. Same(i, a) /\ a.at = "exiting" BY <1>0, AtChanges, LabelsKnown
  <2>. HIDE DEF a
  <2>3. a \in Controllers BY <2>2 DEF Same
  <2>4. Same(a, r) /\ r.at = a.at BY <2>1, <2>3, FinChanges
  <2>. QED BY <2>2, <2>4, <1>0, <1>4 DEF Same
<1>5. CASE c.op = "outer"
  <2>1. r = [c EXCEPT !.at = "o_fallback"] BY <1>5 DEF Raise
  <2>2. "o_fallback" \in Labels BY LabelsKnown DEF Outside
  <2>3. Same(c, r) /\ r.at = "o_fallback" BY <2>1, <2>2, AtChanges
  <2>. QED BY <2>3, <1>5 DEF Same
<1>6. \/ c.op = "create"
      \/ c.op = "loss" /\ c.handle
      \/ c.op = "undo" \/ (c.op = "loss" /\ ~c.handle)
      \/ c.op = "finalize"
      \/ c.op = "outer"
  OBVIOUS
<1>. QED BY <1>1, <1>2, <1>3, <1>4, <1>5, <1>6

-----------------------------------------------------------------------------
\* Steps that leave the processes, the sidecar and the route as they are.

Kept == UNCHANGED <<platform, proc, sidecar, job>>

HostKeeps ==
    /\ born' \subseteq Procs /\ harmed' \subseteq Procs /\ pidFile' \in Nat
    /\ route' = route /\ after'.route = after.route
    /\ after' \in [service : {"none", "ok", "failed"}, blind : BOOLEAN,
                   route : {"none", "ok", "failed"}]

\* Where the invariant says more than where the controller may be.
Busy == Owns \cup {"create", "adopt", "start", "launch", "commit", "r_decide", "r_verify"}

\* A step of the controller to a place where nothing has to be remembered.
LEMMA CalmStep ==
    ASSUME IInv, Kept, HostKeeps, ctl.at \notin Ended,
           ctl' \in Controllers, Places', Where' \notin Busy,
           ctl'.pid = ctl.pid \/ ctl'.op = "outer", ctl'.handle = ctl.handle,
           ctl'.restarts = ctl.restarts \/ (ctl'.restarts = 1 /\ ~Unrestarted'),
           Unrestarted' => Unrestarted, ctl'.op = "finalize" => ctl'.loss # "none"
    PROVE  IInv'
<1>. USE DEF IInv, Kept, HostKeeps
<1>1. TypeOK'
  BY DEF TypeOK, HostTypeOK, ControlTypeOK
<1>2. Single'
  <2>1. ctl'.op = "create" => FALSE BY DEF Places, Busy
  <2>2. Unrestarted' => ctl'.pid = ctl.pid BY DEF Unrestarted
  <2>. QED BY <2>1, <2>2 DEF Single, Busy, Exists, Lineage
<1>3. Recorded'
  BY DEF Recorded, SidecarIsCurrent, Exists, Listed, Busy, Where
<1>4. Contained'
  BY DEF Contained, NeverUncontained, Lineage, Live, Busy, Where, Owns
<1>5. RouteProof'
  BY DEF RouteProof, RouteStaysRestored, Exists, Listed, Busy, Where
<1>. QED BY <1>1, <1>2, <1>3, <1>4, <1>5

\* A command that fails, when the controller has become c.
LEMMA FailStep ==
    ASSUME IInv, Kept, HostKeeps, ctl.op \notin {"none", "gone"}, ctl.at \notin Ended,
           NEW c \in Controllers, ctl' = Raise(c),
           c.op = ctl.op, c.pid = ctl.pid, c.handle = ctl.handle, c.loss = ctl.loss,
           c.restarts = ctl.restarts \/ (c.restarts = 1 /\ c.op = "loss")
    PROVE  IInv'
<1>2. /\ ctl' \in Controllers
      /\ ctl'.pid = c.pid /\ ctl'.restarts = c.restarts /\ ctl'.handle = c.handle
      /\ c.op = "create" => ctl'.op = "none" /\ ctl'.at = "exiting" /\ ctl'.loss = c.loss
      /\ c.op = "loss" /\ c.handle => ctl'.op = "undo" /\ ctl'.at = "w_job"
      /\ c.op = "undo" \/ (c.op = "loss" /\ ~c.handle) =>
            ctl'.op = "none" /\ ctl'.at = "idle" /\ ctl'.loss = "failed"
      /\ c.op = "finalize" => ctl'.op = "none" /\ ctl'.at = "exiting" /\ ctl'.loss = c.loss
      /\ c.op = "outer" => ctl'.op = "outer" /\ ctl'.at = "o_fallback" /\ ctl'.loss = c.loss
  BY RaiseLeads
<1>3. c.op \in {"create", "loss", "undo", "finalize", "outer"} /\ c.handle \in BOOLEAN
  BY DEF Controllers
<1>4. Places' /\ Where' \notin Busy
  <2>. USE <1>2 DEF Places, Returns, Where, Busy, StopsPredecessor, StopsExternal, Restarts, Owns,
                    StopsJob, StopsOnLinux, StopsOnMac, Ended, Outside, IInv, Kept
  <2>1. CASE c.op = "outer" BY <2>1
  <2>2. CASE c.op = "loss" BY <2>2, <1>3 DEF Single
  <2>3. CASE c.op \in {"create", "finalize", "undo"} BY <2>3
  <2>. QED BY <1>3, <2>1, <2>2, <2>3
<1>5. /\ Unrestarted' => Unrestarted
      /\ ctl'.restarts = ctl.restarts \/ (ctl'.restarts = 1 /\ ~Unrestarted')
  BY <1>2, <1>3 DEF IInv, Single, Unrestarted, Where, StopsPredecessor, StopsExternal
<1>. QED BY <1>2, <1>3, <1>4, <1>5, CalmStep

\* A step within what was asked for.
LEMMA MoveStep ==
    ASSUME IInv, Kept, HostKeeps, ctl.at \notin Ended,
           Same(ctl, ctl'), Places', Where' \notin Busy,
           Where' \in StopsPredecessor => Unrestarted \/ ctl.op # "loss"
    PROVE  IInv'
<1>1. ctl.op = "finalize" => ctl.loss # "none" BY DEF IInv, Single
<1>2. Unrestarted' => Unrestarted BY DEF Unrestarted, Same
<1>. QED BY <1>1, <1>2, CalmStep DEF Same

LEMMA VerifyChanges ==
    ASSUME NEW c \in Controllers, NEW l \in Labels, NEW d, d = Verify(c, l)
    PROVE  Same(c, d) /\ d.at = "verify" /\ d.ret = l
<1>. DEFINE a == [c EXCEPT !.at = "verify"]
<1>1. Same(c, a) /\ a.at = "verify" BY AtChanges, LabelsKnown
<1>2. a \in Controllers BY <1>1 DEF Same
<1>. HIDE DEF a
<1>3. d = [a EXCEPT !.ret = l] BY DEF Verify, a
<1>4. Same(a, d) /\ d.at = a.at /\ d.ret = l BY <1>2, <1>3, RetChanges
<1>. QED BY <1>1, <1>4 DEF Same

\* The end of a finalization.
LEMMA CleanedEnds ==
    ASSUME NEW c \in Controllers, NEW d, d = Cleaned(c)
    PROVE  /\ d \in Controllers /\ d.op = "none" /\ d.at = "exiting"
           /\ d.pid = c.pid /\ d.restarts = c.restarts /\ d.handle = c.handle /\ d.loss = c.loss
<1>. DEFINE i == Idle(c)
            a == [i EXCEPT !.at = "exiting"]
<1>1. /\ i \in Controllers /\ i.op = "none" /\ i.pid = c.pid
      /\ i.restarts = c.restarts /\ i.handle = c.handle /\ i.loss = c.loss
  BY IdleKeeps
<1>. HIDE DEF i
<1>2. Same(i, a) /\ a.at = "exiting" BY <1>1, AtChanges, LabelsKnown
<1>3. a \in Controllers BY <1>2 DEF Same
<1>. HIDE DEF a
<1>4. d = [a EXCEPT !.fin = "clean"] BY DEF Cleaned, a, i
<1>5. Same(a, d) /\ d.at = a.at BY <1>3, <1>4, FinChanges
<1>. QED BY <1>1, <1>2, <1>5 DEF Same

\* A finalization goes on, or ends.
LEMMA FinalizeStep ==
    ASSUME IInv, Kept, HostKeeps, ctl.op = "finalize",
           \/ /\ Same(ctl, ctl') /\ Returns'
              /\ \/ platform = "linux" /\ Where' \in StopsOnLinux
                 \/ platform = "macos" /\ Where' \in StopsOnMac
                 \/ platform = "windows" /\ Where' \in StopsJob \cup {"w_finalize", "w_evidence"}
           \/ ctl' = Cleaned(ctl)
    PROVE  IInv'
<1>1. ctl.at \notin Ended /\ ctl.loss # "none" /\ ctl \in Controllers
  BY DEF IInv, TypeOK, ControlTypeOK, Single, Places, Where, Ended, StopsOnLinux, StopsOnMac, StopsJob
<1>2. CASE ctl' = Cleaned(ctl)
  <2>1. /\ ctl' \in Controllers /\ ctl'.op = "none" /\ ctl'.at = "exiting"
        /\ ctl'.pid = ctl.pid /\ ctl'.restarts = ctl.restarts /\ ctl'.handle = ctl.handle
        /\ ctl'.loss = ctl.loss
    BY <1>1, <1>2, CleanedEnds
  <2>2. Places' /\ Where' \notin Busy /\ (Unrestarted' => Unrestarted)
    BY <2>1, <1>1 DEF Places, Returns, Where, Busy, Unrestarted, Owns, StopsJob, StopsExternal
  <2>. QED BY <1>1, <2>1, <2>2, CalmStep
<1>3. CASE Same(ctl, ctl') /\ ctl' # Cleaned(ctl)
  <2>1. Places' /\ Where' \notin Busy
    BY <1>3 DEF Same, Places, Busy, Kept, IInv, Owns, StopsJob, StopsExternal, StopsOnLinux, StopsOnMac
  <2>. QED BY <1>1, <1>3, <2>1, MoveStep
<1>. QED BY <1>2, <1>3

-----------------------------------------------------------------------------
\* Linux: the replacement's tree is stopped.

LEMMA TreeIn ==
    ASSUME NEW p \in Procs
    PROVE  Tree(p) \subseteq Procs
BY DEF Tree, Children

\* A step at one of these places belongs to a finalization.
LEMMA FinalizesOnLinux ==
    ASSUME IInv, platform = "linux", ctl.at \in StopsOnLinux
    PROVE  ctl.op = "finalize"
BY DEF IInv, Places, Where, TypeOK, ControlTypeOK, Controllers, StopsOnLinux, StopsPredecessor,
       StopsExternal, Restarts, Owns, StopsJob, Ended, Outside

LEMMA LinuxSteps ==
    ASSUME IInv, LinuxNext, UNCHANGED after
    PROVE  IInv'
<1>0. /\ ctl \in Controllers /\ born \subseteq Procs /\ harmed \subseteq Procs /\ pidFile \in Nat
      /\ after \in [service : {"none", "ok", "failed"}, blind : BOOLEAN,
                    route : {"none", "ok", "failed"}]
  BY DEF IInv, TypeOK, ControlTypeOK, HostTypeOK
<1>1. /\ Root \in Procs \cup {Nobody} /\ ctl.repl \in Procs \cup {Nobody}
      /\ ctl.known \subseteq Procs /\ ctl.seen \subseteq Procs /\ ctl.todo \subseteq Procs
  BY <1>0, HolderListed DEF Root, Controllers
<1>2. Isolated => Captured \subseteq Procs
  BY <1>1, TreeIn DEF Isolated, Captured
<1>3. StopsOnLinux \subseteq Labels BY LabelsKnown
<1>. DEFINE Goes == \/ Same(ctl, ctl') /\ Where' \in StopsOnLinux /\ Returns'
                    \/ ctl' = Cleaned(ctl)
            Still == platform = "linux" /\ ctl.at \in StopsOnLinux /\ Kept /\ HostKeeps
<1>4. SUFFICES Still /\ Goes
  BY FinalizesOnLinux, FinalizeStep
<1>5. CASE FinalizeLinux
  <2>1. Still BY <1>5, <1>0 DEF FinalizeLinux, At, Look, LinuxVars, Kept, HostKeeps, StopsOnLinux
  <2>2. Goes
    BY <1>5, <1>0, <1>3, VerifyChanges, AtChanges DEF FinalizeLinux, Goto, Where, Returns, Verified, StopsOnLinux
  <2>. QED BY <2>1, <2>2
<1>6. CASE ZombieRoot
  <2>1. Still BY <1>6, <1>0 DEF ZombieRoot, At, Look, LinuxVars, Kept, HostKeeps, StopsOnLinux
  <2>. DEFINE a == [ctl EXCEPT !.known = Captured]
              b == [a EXCEPT !.seen = Captured]
  <2>2. CASE ctl' = Verify(b, "f_tree")
    <3>1. Captured \in SUBSET Procs BY <1>2, <1>6 DEF ZombieRoot
    <3>2. Same(ctl, a) BY <1>0, <3>1, SetChanges
    <3>. HIDE DEF a
    <3>3. Same(a, b) BY <3>1, <3>2, SetChanges DEF Same
    <3>. HIDE DEF b
    <3>4. b \in Controllers /\ "f_tree" \in Labels BY <1>3, <3>3 DEF Same, StopsOnLinux
    <3>5. Same(b, ctl') /\ ctl'.at = "verify" /\ ctl'.ret = "f_tree"
      BY <2>2, <3>4, VerifyChanges
    <3>. QED BY <2>1, <3>2, <3>3, <3>5 DEF Same, Where, Returns, Verified, StopsOnLinux
  <2>. QED BY <1>6, <2>1, <2>2 DEF ZombieRoot
<1>7. CASE CaptureTree
  <2>1. Still BY <1>7, <1>0 DEF CaptureTree, At, Look, LinuxVars, Kept, HostKeeps, StopsOnLinux
  <2>. DEFINE a == [ctl EXCEPT !.known = Captured]
              b == [a EXCEPT !.seen = @ \cup Captured]
  <2>2. Captured \in SUBSET Procs BY <1>2, <1>7 DEF CaptureTree
  <2>3. Same(ctl, a) /\ a.seen \cup Captured \in SUBSET Procs
    BY <1>0, <1>1, <2>2, SetChanges DEF Controllers
  <2>4. ctl' = [b EXCEPT !.at = "f_tree2"] BY <1>7 DEF CaptureTree
  <2>. HIDE DEF a
  <2>5. Same(a, b) BY <2>3, SetChanges DEF Same
  <2>. HIDE DEF b
  <2>6. Same(b, ctl') /\ ctl'.at = "f_tree2" BY <1>3, <2>4, <2>5, AtChanges DEF Same, StopsOnLinux
  <2>. QED BY <2>1, <2>3, <2>5, <2>6 DEF Same, Where, Returns, Verified, StopsOnLinux
<1>8. CASE CaptureAgain
  <2>1. Still BY <1>8, <1>0 DEF CaptureAgain, At, Look, LinuxVars, Kept, HostKeeps, StopsOnLinux
  <2>. DEFINE a == [ctl EXCEPT !.known = Captured]
              b == [a EXCEPT !.seen = @ \cup Captured]
  <2>2. Captured \in SUBSET Procs BY <1>2, <1>8 DEF CaptureAgain
  <2>3. Same(ctl, a) /\ a.seen \cup Captured \in SUBSET Procs
    BY <1>0, <1>1, <2>2, SetChanges DEF Controllers
  <2>4. ctl' = Verify(b, "f_term") BY <1>8 DEF CaptureAgain
  <2>. HIDE DEF a
  <2>5. Same(a, b) BY <2>3, SetChanges DEF Same
  <2>. HIDE DEF b
  <2>6. b \in Controllers /\ "f_term" \in Labels BY <1>3, <2>5 DEF Same, StopsOnLinux
  <2>7. Same(b, ctl') /\ ctl'.at = "verify" /\ ctl'.ret = "f_term"
    BY <2>4, <2>6, VerifyChanges
  <2>. QED BY <2>1, <2>3, <2>5, <2>7 DEF Same, Where, Returns, Verified, StopsOnLinux
<1>9. CASE TermGroup
  <2>1. Still
    BY <1>9, <1>0 DEF TermGroup, At, Signal, InGroup, LinuxVars, Kept, HostKeeps, StopsOnLinux
  <2>2. Goes BY <1>9, <1>0, <1>3, AtChanges DEF TermGroup, Goto, Where, Returns, Verified, StopsOnLinux
  <2>. QED BY <2>1, <2>2
<1>10. CASE Grace
  <2>1. Still BY <1>10, <1>0 DEF Grace, At, Look, LinuxVars, Kept, HostKeeps, StopsOnLinux
  <2>. DEFINE a == [ctl EXCEPT !.at = "f_root"]
  <2>2. CASE ctl' = [a EXCEPT !.todo = Survivors(ctl.known)]
    <3>1. Same(ctl, a) /\ a.at = "f_root" BY <1>0, <1>3, AtChanges DEF StopsOnLinux
    <3>. HIDE DEF a
    <3>2. PICK left \in SUBSET Procs : left = Survivors(ctl.known) BY <1>1 DEF Survivors
    <3>3. ctl' = [a EXCEPT !.todo = left] /\ a \in Controllers BY <2>2, <3>1, <3>2 DEF Same
    <3>4. Same(a, ctl') /\ ctl'.at = a.at BY <3>2, <3>3, SetChanges
    <3>. QED BY <2>1, <3>1, <3>4 DEF Same, Where, Returns, Verified, StopsOnLinux
  <2>. QED BY <1>10, <2>1, <2>2 DEF Grace
<1>11. CASE Escalate
  <2>1. Still BY <1>11, <1>0 DEF Escalate, At, Look, LinuxVars, Kept, HostKeeps, StopsOnLinux
  <2>. DEFINE a == [ctl EXCEPT !.at = "f_stat"]
              b == [a EXCEPT !.owned = TRUE]
              c == [b EXCEPT !.known = Captured]
              left == {p \in Survivors(Captured) : proc[p].group # Group}
  <2>2. Same(ctl, a) /\ a.at = "f_stat" BY <1>0, <1>3, AtChanges DEF StopsOnLinux
  <2>3. CASE ctl' = [a EXCEPT !.owned = FALSE]
    <3>1. Same(a, ctl') /\ ctl'.at = a.at BY <2>2, <2>3, FlagChanges DEF Same
    <3>. QED BY <2>1, <2>2, <3>1 DEF Same, Where, Returns, Verified, StopsOnLinux
  <2>4. CASE Isolated /\ ctl' = [c EXCEPT !.todo = left]
    <3>. HIDE DEF a
    <3>1. Same(a, b) /\ b.at = a.at BY <2>2, FlagChanges DEF Same
    <3>. HIDE DEF b
    <3>2. Same(b, c) /\ c.at = b.at BY <1>2, <2>4, <3>1, SetChanges DEF Same
    <3>. HIDE DEF c
    <3>3. PICK some \in SUBSET Procs : some = left BY <1>2, <2>4 DEF Survivors
    <3>. HIDE DEF left
    <3>5. ctl' = [c EXCEPT !.todo = some] /\ c \in Controllers BY <2>4, <3>2, <3>3 DEF Same
    <3>4. Same(c, ctl') /\ ctl'.at = c.at BY <3>3, <3>5, SetChanges
    <3>. QED BY <2>1, <2>2, <3>1, <3>2, <3>4 DEF Same, Where, Returns, Verified, StopsOnLinux
  <2>. QED BY <1>11, <2>1, <2>3, <2>4 DEF Escalate
<1>12. CASE StatSurvivor
  <2>1. Still BY <1>12, <1>0 DEF StatSurvivor, At, Proved, LinuxVars, Kept, HostKeeps, StopsOnLinux
  <2>2. PICK p \in ctl.todo : ctl' = [ctl EXCEPT !.obs = p, !.at = "f_kill"]
    BY <1>12 DEF StatSurvivor
  <2>. DEFINE a == [ctl EXCEPT !.obs = p]
  <2>3. Same(ctl, a) BY <1>0, <1>1, IdentityChanges
  <2>. HIDE DEF a
  <2>4. a \in Controllers /\ "f_kill" \in Labels /\ ctl' = [a EXCEPT !.at = "f_kill"]
    BY <1>3, <2>2, <2>3 DEF Same, StopsOnLinux, a
  <2>5. Same(a, ctl') /\ ctl'.at = "f_kill" BY <2>4, AtChanges
  <2>. QED BY <2>1, <2>3, <2>5 DEF Same, Where, Returns, Verified, StopsOnLinux
<1>13. CASE KillSurvivor
  <2>1. Still
    BY <1>13, <1>0 DEF KillSurvivor, At, Signal, Listing, LinuxVars, Kept, HostKeeps, StopsOnLinux
  <2>. DEFINE a == [ctl EXCEPT !.todo = @ \ {ctl.obs}]
              b == [a EXCEPT !.obs = Nobody]
  <2>2. Same(ctl, a) BY <1>0, <1>1, SetChanges
  <2>3. ctl' = [b EXCEPT !.at = "f_stat"] BY <1>13 DEF KillSurvivor
  <2>. HIDE DEF a
  <2>4. Same(a, b) BY <2>2, IdentityChanges DEF Same
  <2>. HIDE DEF b
  <2>5. b \in Controllers /\ "f_stat" \in Labels BY <1>3, <2>4 DEF Same, StopsOnLinux
  <2>6. Same(b, ctl') /\ ctl'.at = "f_stat" BY <2>3, <2>5, AtChanges
  <2>. QED BY <2>1, <2>2, <2>4, <2>6 DEF Same, Where, Returns, Verified, StopsOnLinux
<1>14. CASE SurvivorsKilled
  <2>1. Still BY <1>14, <1>0 DEF SurvivorsKilled, At, Look, LinuxVars, Kept, HostKeeps, StopsOnLinux
  <2>2. Goes BY <1>14, <1>0, <1>3, AtChanges DEF SurvivorsKilled, Goto, Where, Returns, Verified, StopsOnLinux
  <2>. QED BY <2>1, <2>2
<1>15. CASE ProveGroup
  <2>1. Still BY <1>15, <1>0 DEF ProveGroup, At, Proved, LinuxVars, Kept, HostKeeps, StopsOnLinux
  <2>2. Goes BY <1>15, <1>0, <1>3, AtChanges DEF ProveGroup, Goto, Where, Returns, Verified, StopsOnLinux
  <2>. QED BY <2>1, <2>2
<1>16. CASE KillGroup
  <2>1. Still
    BY <1>16, <1>0 DEF KillGroup, At, Signal, InGroup, LinuxVars, Kept, HostKeeps, StopsOnLinux
  <2>2. Goes BY <1>16, <1>0, <1>3, AtChanges DEF KillGroup, Goto, Where, Returns, Verified, StopsOnLinux
  <2>. QED BY <2>1, <2>2
<1>17. CASE WaitTree
  <2>1. Still BY <1>17, <1>0 DEF WaitTree, At, Look, LinuxVars, Kept, HostKeeps, StopsOnLinux
  <2>. QED BY <1>17, <2>1 DEF WaitTree
<1>. QED
  BY <1>5, <1>6, <1>7, <1>8, <1>9, <1>10, <1>11, <1>12, <1>13, <1>14, <1>15, <1>16, <1>17
     DEF LinuxNext

-----------------------------------------------------------------------------
\* macOS: the predecessor's or the replacement's group is stopped.

Killing == StopsOnMac \ {"b_alive"}

LEMMA MacStep ==
    ASSUME IInv, platform = "macos", ctl.at \in Killing, Kept, HostKeeps,
           \/ Same(ctl, ctl') /\ Where' \in Killing /\ Returns'
           \/ ctl.op = "loss" /\ Same(ctl, ctl') /\ Where' = "wait" /\ Returns'
           \/ ctl.op # "loss" /\ ctl' = Cleaned(ctl)
    PROVE  IInv'
<1>1. ctl.op \in {"finalize", "loss"} /\ ctl.at \notin Ended
  BY DEF IInv, Places, Where, TypeOK, ControlTypeOK, Controllers, Killing, StopsOnMac, StopsJob,
         StopsOnLinux, Ended, Outside, StopsExternal
<1>2. Killing \subseteq StopsOnMac /\ Killing \subseteq StopsPredecessor
  BY DEF Killing, StopsOnMac, StopsPredecessor
<1>3. CASE ctl.op = "finalize"
  BY <1>2, <1>3, FinalizeStep
<1>4. CASE ctl.op = "loss"
  <2>1. Same(ctl, ctl') /\ Where' \in StopsPredecessor \ StopsExternal /\ Where' \notin Busy /\ Returns'
    BY <1>4 DEF Killing, StopsOnMac, StopsPredecessor, StopsExternal, Busy, Owns
  <2>2. Places'
    BY <1>4, <2>1 DEF Same, Places, StopsPredecessor, StopsExternal, Owns, StopsJob
  <2>3. Unrestarted
    BY <1>2, <1>4 DEF Unrestarted, Where, Returns, Verified, Killing, StopsOnMac
  <2>. QED BY <1>1, <2>1, <2>2, <2>3, MoveStep
<1>. QED BY <1>1, <1>3, <1>4

LEMMA MacSteps ==
    ASSUME IInv, MacNext, UNCHANGED after
    PROVE  IInv'
<1>0. /\ ctl \in Controllers /\ born \subseteq Procs /\ harmed \subseteq Procs /\ pidFile \in Nat
      /\ after \in [service : {"none", "ok", "failed"}, blind : BOOLEAN,
                    route : {"none", "ok", "failed"}]
  BY DEF IInv, TypeOK, ControlTypeOK, HostTypeOK
<1>1. /\ ctl.known \in SUBSET Procs /\ ctl.todo \in SUBSET Procs /\ ctl.listed \in SUBSET Procs
      /\ ctl.rest \in SUBSET Procs /\ ctl.taken \in SUBSET Procs
  BY <1>0 DEF Controllers
<1>2. OwnedGroup \in SUBSET Procs /\ Current \in SUBSET Procs
  <2>1. Topology \subseteq Procs BY HolderListed, TreeIn DEF Topology, Root
  <2>. QED BY <2>1 DEF OwnedGroup, InGroup, Current, Survivors
<1>3. Killing \subseteq Labels /\ "wait" \in Labels
  BY LabelsKnown DEF Killing, StopsPredecessor
<1>. DEFINE Goes == \/ Same(ctl, ctl') /\ Where' \in Killing /\ Returns'
                    \/ ctl.op = "loss" /\ Same(ctl, ctl') /\ Where' = "wait" /\ Returns'
                    \/ ctl.op # "loss" /\ ctl' = Cleaned(ctl)
            Still == platform = "macos" /\ ctl.at \in Killing /\ Kept /\ HostKeeps
<1>4. SUFFICES Still /\ Goes BY MacStep
<1>5. CASE TerminateBegins
  <2>1. Still
    BY <1>5, <1>0 DEF TerminateBegins, MacAt, Look, LinuxVars, Kept, HostKeeps, Killing, StopsOnMac
  <2>2. Goes
    BY <1>5, <1>0, <1>3, AtChanges DEF TerminateBegins, Goto, Where, Returns, Verified, Killing, StopsOnMac
  <2>. QED BY <2>1, <2>2
<1>6. CASE EstablishOwnership
  <2>1. Still
    BY <1>6, <1>0 DEF EstablishOwnership, MacAt, Look, LinuxVars, Kept, HostKeeps, Killing, StopsOnMac
  <2>. DEFINE a == [ctl EXCEPT !.at = "m_own"]
              b == [a EXCEPT !.known = {}]
  <2>2. Same(ctl, a) /\ a.at = "m_own" BY <1>0, <1>3, AtChanges DEF Killing, StopsOnMac
  <2>3. ctl' = [b EXCEPT !.listed = OwnedGroup] BY <1>6 DEF EstablishOwnership
  <2>. HIDE DEF a
  <2>4. Same(a, b) /\ b.at = a.at BY <2>2, SetChanges DEF Same
  <2>. HIDE DEF b
  <2>5. Same(b, ctl') /\ ctl'.at = b.at BY <1>2, <2>3, <2>4, SetChanges DEF Same
  <2>. QED BY <2>1, <2>2, <2>4, <2>5 DEF Same, Where, Returns, Verified, Killing, StopsOnMac
<1>14. CASE ProbeMember
  <2>1. Still
    BY <1>14, <1>0 DEF ProbeMember, MacAt, Look, LinuxVars, Kept, HostKeeps, Killing, StopsOnMac
  <2>2. PICK p \in ctl.listed :
           \/ ctl' = [ctl EXCEPT !.listed = @ \ {p}]
           \/ \E found \in Procs :
                 ctl' = [ctl EXCEPT !.listed = @ \ {p}, !.known = @ \cup {found},
                                    !.taken = @ \cup ({found} \ {p})]
    BY <1>14 DEF ProbeMember
  <2>. DEFINE a == [ctl EXCEPT !.listed = ctl.listed \ {p}]
  <2>3. ctl.listed \ {p} \in SUBSET Procs BY <1>1
  <2>4. Same(ctl, a) /\ a.at = ctl.at BY <1>0, <2>3, SetChanges
  <2>5. CASE ctl' = [ctl EXCEPT !.listed = @ \ {p}]
    BY <2>1, <2>4, <2>5 DEF Same, Where, Returns, Verified, Killing, StopsOnMac
  <2>6. ASSUME NEW found \in Procs,
               ctl' = [ctl EXCEPT !.listed = @ \ {p}, !.known = @ \cup {found},
                                  !.taken = @ \cup ({found} \ {p})]
        PROVE  Still /\ Goes
    <3>. DEFINE K == ctl.known \cup {found}
                T == ctl.taken \cup ({found} \ {p})
                b == [a EXCEPT !.known = K]
    <3>1. K \in SUBSET Procs /\ T \in SUBSET Procs BY <1>1, <2>6
    <3>2. ctl' = [b EXCEPT !.taken = T] BY <2>6, <1>0 DEF Controllers
    <3>. HIDE DEF a, K, T
    <3>3. Same(a, b) /\ b.at = a.at BY <2>4, <3>1, SetChanges DEF Same
    <3>. HIDE DEF b
    <3>4. Same(b, ctl') /\ ctl'.at = b.at BY <3>1, <3>2, <3>3, SetChanges DEF Same
    <3>. QED BY <2>1, <2>4, <3>3, <3>4 DEF Same, Where, Returns, Verified, Killing, StopsOnMac
  <2>. QED BY <2>2, <2>5, <2>6
<1>15. CASE OwnershipProven
  <2>1. Still
    BY <1>15, <1>0 DEF OwnershipProven, MacAt, Look, LinuxVars, Kept, HostKeeps, Killing, StopsOnMac
  <2>2. Goes
    BY <1>15, <1>0, <1>3, AtChanges DEF OwnershipProven, Goto, Where, Returns, Verified, Killing, StopsOnMac
  <2>. QED BY <2>1, <2>2
<1>7. CASE Pass
  <2>1. Still
    BY <1>7, <1>0 DEF Pass, MacAt, Look, LinuxVars, Kept, HostKeeps, Killing, StopsOnMac
  <2>. DEFINE R == Unlisted(Current)
              o == OwnedGroup # {} /\ OwnedGroup \subseteq Topology
              a == [ctl EXCEPT !.at = "m_probe"]
              b == [a EXCEPT !.listed = Current]
              c == [b EXCEPT !.rest = R]
              d == [c EXCEPT !.owned = o]
              e == [d EXCEPT !.todo = {}]
  <2>2. ctl' = [e EXCEPT !.obs = Nobody] BY <1>7 DEF Pass
  <2>3. R \in SUBSET Procs BY <1>1 DEF Unlisted
  <2>4. o \in BOOLEAN OBVIOUS
  <2>. HIDE DEF R, o
  <2>5. Same(ctl, a) /\ a.at = "m_probe" BY <1>0, <1>3, AtChanges DEF Killing, StopsOnMac
  <2>. HIDE DEF a
  <2>6. Same(a, b) /\ b.at = a.at BY <1>2, <2>5, SetChanges DEF Same
  <2>. HIDE DEF b
  <2>7. Same(b, c) /\ c.at = b.at BY <2>3, <2>6, SetChanges DEF Same
  <2>. HIDE DEF c
  <2>8. Same(c, d) /\ d.at = c.at BY <2>4, <2>7, FlagChanges DEF Same
  <2>. HIDE DEF d
  <2>9. Same(d, e) /\ e.at = d.at BY <2>8, SetChanges DEF Same
  <2>. HIDE DEF e
  <2>10. Same(e, ctl') /\ ctl'.at = e.at BY <2>2, <2>9, IdentityChanges DEF Same
  <2>11. Same(ctl, ctl') /\ ctl'.at = "m_probe"
    BY <2>5, <2>6, <2>7, <2>8, <2>9, <2>10 DEF Same
  <2>. QED BY <2>1, <2>11 DEF Where, Returns, Verified, Killing, StopsOnMac
<1>16. ASSUME NEW a \in Controllers, Same(ctl, a), a.at = ctl.at, ctl.at = "m_probe",
              NEW found \in Procs, NEW inGroup \in BOOLEAN, ctl' = Survives(a, found, inGroup)
       PROVE  Goes
  <2>. DEFINE D == IF ctl.owned /\ inGroup THEN a.todo ELSE a.todo \cup {found}
              b == [a EXCEPT !.obs = found]
  <2>1. ctl' = [b EXCEPT !.todo = D] BY <1>16 DEF Survives, Controllers
  <2>2. D \in SUBSET Procs BY <1>16 DEF Controllers
  <2>. HIDE DEF D
  <2>3. Same(a, b) /\ b.at = a.at BY <1>16, IdentityChanges
  <2>. HIDE DEF b
  <2>4. Same(b, ctl') /\ ctl'.at = b.at BY <2>1, <2>2, <2>3, SetChanges DEF Same
  <2>. QED BY <1>16, <2>3, <2>4 DEF Same, Where, Returns, Verified, Killing, StopsOnMac
<1>17. CASE ProbeCurrent
  <2>1. Still /\ ctl.at = "m_probe"
    BY <1>17, <1>0 DEF ProbeCurrent, MacAt, Look, LinuxVars, Kept, HostKeeps, Killing, StopsOnMac
  <2>2. PICK p \in ctl.listed :
           \/ ctl' = [ctl EXCEPT !.listed = @ \ {p}]
           \/ \E found \in Procs :
                 ctl' = Survives([ctl EXCEPT !.listed = @ \ {p}, !.known = @ \cup {found},
                                             !.taken = @ \cup ({found} \ {p})],
                                 found, proc[p].group = ctl.pid)
    BY <1>17 DEF ProbeCurrent
  <2>. DEFINE a == [ctl EXCEPT !.listed = ctl.listed \ {p}]
  <2>3. ctl.listed \ {p} \in SUBSET Procs BY <1>1
  <2>4. Same(ctl, a) /\ a.at = ctl.at BY <1>0, <2>3, SetChanges
  <2>5. CASE ctl' = [ctl EXCEPT !.listed = @ \ {p}]
    BY <2>1, <2>4, <2>5 DEF Same, Where, Returns, Verified, Killing, StopsOnMac
  <2>6. ASSUME NEW found \in Procs,
               ctl' = Survives([ctl EXCEPT !.listed = @ \ {p}, !.known = @ \cup {found},
                                           !.taken = @ \cup ({found} \ {p})],
                               found, proc[p].group = ctl.pid)
        PROVE  Still /\ Goes
    <3>. DEFINE K == ctl.known \cup {found}
                T == ctl.taken \cup ({found} \ {p})
                b == [a EXCEPT !.known = K]
                c == [b EXCEPT !.taken = T]
                inGroup == proc[p].group = ctl.pid
    <3>1. K \in SUBSET Procs /\ T \in SUBSET Procs /\ inGroup \in BOOLEAN BY <1>1, <2>6
    <3>2. ctl' = Survives(c, found, inGroup) BY <2>6, <1>0 DEF Controllers
    <3>. HIDE DEF a, K, T, inGroup
    <3>3. Same(a, b) /\ b.at = a.at BY <2>4, <3>1, SetChanges DEF Same
    <3>. HIDE DEF b
    <3>4. Same(b, c) /\ c.at = b.at BY <3>1, <3>3, SetChanges DEF Same
    <3>. HIDE DEF c
    <3>5. c \in Controllers /\ Same(ctl, c) /\ c.at = ctl.at BY <2>4, <3>3, <3>4 DEF Same
    <3>. QED BY <1>16, <2>1, <3>1, <3>2, <3>5
  <2>. QED BY <2>2, <2>5, <2>6
<1>18. CASE ProbeKnown
  <2>1. Still /\ ctl.at = "m_probe"
    BY <1>18, <1>0 DEF ProbeKnown, MacAt, Look, LinuxVars, Kept, HostKeeps, Killing, StopsOnMac
  <2>2. PICK k \in ctl.rest : \/ ctl' = [ctl EXCEPT !.rest = @ \ {k}]
                              \/ ctl' = Survives([ctl EXCEPT !.rest = @ \ {k}], k, FALSE)
    BY <1>18 DEF ProbeKnown
  <2>. DEFINE a == [ctl EXCEPT !.rest = ctl.rest \ {k}]
  <2>3. ctl.rest \ {k} \in SUBSET Procs /\ k \in Procs BY <1>1
  <2>4. Same(ctl, a) /\ a.at = ctl.at BY <1>0, <2>3, SetChanges
  <2>5. ctl' = a \/ ctl' = Survives(a, k, FALSE) BY <2>2
  <2>. HIDE DEF a
  <2>6. CASE ctl' = a BY <2>1, <2>4, <2>6 DEF Same, Where, Returns, Verified, Killing, StopsOnMac
  <2>7. CASE ctl' = Survives(a, k, FALSE) BY <1>16, <2>1, <2>3, <2>4, <2>7 DEF Same
  <2>. QED BY <2>5, <2>6, <2>7
<1>19. CASE ProbesEnd
  <2>1. Still
    BY <1>19, <1>0 DEF ProbesEnd, MacAt, Look, LinuxVars, Kept, HostKeeps, Killing, StopsOnMac
  <2>2. PICK l \in {"m_census", "m_rootid", "m_each"} : ctl' = Goto(l)
    BY <1>19 DEF ProbesEnd
  <2>3. Goes
    BY <2>2, <1>0, <1>3, AtChanges DEF Goto, Where, Returns, Verified, Killing, StopsOnMac
  <2>. QED BY <2>1, <2>3
<1>8. CASE ProveRoot
  <2>1. Still
    BY <1>8, <1>0 DEF ProveRoot, MacAt, Proved, LinuxVars, Kept, HostKeeps, Killing, StopsOnMac
  <2>2. Goes BY <1>8, <1>0, <1>3, AtChanges DEF ProveRoot, Goto, Where, Returns, Verified, Killing, StopsOnMac
  <2>. QED BY <2>1, <2>2
<1>9. CASE KillOwnedGroup
  <2>1. Still
    BY <1>9, <1>0 DEF KillOwnedGroup, MacAt, Signal, InGroup, LinuxVars, Kept, HostKeeps, Killing,
                      StopsOnMac
  <2>2. Goes BY <1>9, <1>0, <1>3, AtChanges DEF KillOwnedGroup, Goto, Where, Returns, Verified, Killing, StopsOnMac
  <2>. QED BY <2>1, <2>2
<1>10. CASE ProveOne
  <2>1. Still
    BY <1>10, <1>0 DEF ProveOne, MacAt, Proved, LinuxVars, Kept, HostKeeps, Killing, StopsOnMac
  <2>2. PICK p \in ctl.todo : \/ ctl' = [ctl EXCEPT !.todo = @ \ {p}]
                              \/ ctl' = [ctl EXCEPT !.obs = p, !.at = "m_kill"]
    BY <1>10 DEF ProveOne
  <2>3. CASE ctl' = [ctl EXCEPT !.todo = @ \ {p}]
    <3>1. ctl' = [ctl EXCEPT !.todo = ctl.todo \ {p}] /\ ctl.todo \ {p} \in SUBSET Procs
      BY <1>1, <2>3
    <3>2. Same(ctl, ctl') /\ ctl'.at = ctl.at BY <1>0, <3>1, SetChanges
    <3>. QED BY <2>1, <3>2 DEF Where, Returns, Verified, Killing, StopsOnMac
  <2>4. CASE ctl' = [ctl EXCEPT !.obs = p, !.at = "m_kill"]
    <3>. DEFINE a == [ctl EXCEPT !.obs = p]
    <3>1. Same(ctl, a) BY <1>0, <1>1, IdentityChanges
    <3>2. ctl' = [a EXCEPT !.at = "m_kill"] BY <2>4
    <3>. HIDE DEF a
    <3>3. a \in Controllers /\ "m_kill" \in Labels BY <1>3, <3>1 DEF Same, Killing, StopsOnMac
    <3>4. Same(a, ctl') /\ ctl'.at = "m_kill" BY <3>2, <3>3, AtChanges
    <3>. QED BY <2>1, <3>1, <3>4 DEF Same, Where, Returns, Verified, Killing, StopsOnMac
  <2>. QED BY <2>2, <2>3, <2>4
<1>11. CASE KillOne
  <2>1. Still
    BY <1>11, <1>0 DEF KillOne, MacAt, Signal, Listing, LinuxVars, Kept, HostKeeps, Killing, StopsOnMac
  <2>. DEFINE a == [ctl EXCEPT !.todo = @ \ {ctl.obs}]
              b == [a EXCEPT !.obs = Nobody]
  <2>2. Same(ctl, a) BY <1>0, <1>1, SetChanges
  <2>3. ctl' = [b EXCEPT !.at = "m_each"] BY <1>11 DEF KillOne
  <2>. HIDE DEF a
  <2>4. Same(a, b) BY <2>2, IdentityChanges DEF Same
  <2>. HIDE DEF b
  <2>5. b \in Controllers /\ "m_each" \in Labels BY <1>3, <2>4 DEF Same, Killing, StopsOnMac
  <2>6. Same(b, ctl') /\ ctl'.at = "m_each" BY <2>3, <2>5, AtChanges
  <2>. QED BY <2>1, <2>2, <2>4, <2>6 DEF Same, Where, Returns, Verified, Killing, StopsOnMac
<1>12. CASE PassEnds
  <2>1. Still
    BY <1>12, <1>0 DEF PassEnds, MacAt, Look, LinuxVars, Kept, HostKeeps, Killing, StopsOnMac
  <2>. DEFINE a == [ctl EXCEPT !.at = "m_pass"]
  <2>2. Same(ctl, a) /\ a.at = "m_pass" BY <1>0, <1>3, AtChanges DEF Killing, StopsOnMac
  <2>3. ctl' = [a EXCEPT !.owned = FALSE] BY <1>12 DEF PassEnds
  <2>. HIDE DEF a
  <2>4. Same(a, ctl') /\ ctl'.at = a.at BY <2>2, <2>3, FlagChanges DEF Same
  <2>. QED BY <2>1, <2>2, <2>4 DEF Same, Where, Returns, Verified, Killing, StopsOnMac
<1>13. CASE GroupEmpty
  <2>1. Still
    BY <1>13, <1>0 DEF GroupEmpty, MacAt, Look, LinuxVars, Kept, HostKeeps, Killing, StopsOnMac
  <2>2. CASE ctl' = Goto("m_pass")
    BY <2>1, <2>2, <1>0, <1>3, AtChanges DEF Goto, Where, Returns, Verified, Killing, StopsOnMac
  <2>3. CASE ctl.op = "loss" /\ ctl' = [Goto("wait") EXCEPT !.known = {}]
    <3>. DEFINE a == Goto("wait")
    <3>1. Same(ctl, a) /\ a.at = "wait" BY <1>0, <1>3, AtChanges DEF Goto
    <3>. HIDE DEF a
    <3>2. a \in Controllers /\ {} \in SUBSET Procs /\ ctl' = [a EXCEPT !.known = {}]
      BY <2>3, <3>1 DEF Same, a
    <3>3. Same(a, ctl') /\ ctl'.at = a.at BY <3>2, SetChanges
    <3>. QED BY <2>1, <2>3, <3>1, <3>3 DEF Same, Where, Returns
  <2>. QED BY <1>13, <2>1, <2>2, <2>3 DEF GroupEmpty
<1>. QED
  BY <1>5, <1>6, <1>7, <1>8, <1>9, <1>10, <1>11, <1>12, <1>13, <1>14, <1>15, <1>17, <1>18, <1>19
     DEF MacNext

-----------------------------------------------------------------------------
\* Construction, identity proofs and the process-loss scenario.

LEMMA Basics ==
    ASSUME IInv
    PROVE  /\ ctl \in Controllers /\ platform \in {"linux", "macos", "windows"}
           /\ ctl.op \in {"create", "none", "loss", "undo", "finalize", "gone", "outer"}
           /\ ctl.handle \in BOOLEAN /\ ctl.at \in Labels /\ ctl.ret \in Labels
           /\ ctl.pid \in Nat /\ ctl.restarts \in {0, 1}
           /\ ctl.obs \in Procs \cup {Nobody}
           /\ born \subseteq Procs /\ harmed \subseteq Procs /\ pidFile \in Nat
           /\ after \in [service : {"none", "ok", "failed"}, blind : BOOLEAN,
                         route : {"none", "ok", "failed"}]
BY HostAssumption DEF IInv, TypeOK, ControlTypeOK, HostTypeOK, Controllers

\* An identity proof on its way, or back where it was asked for.
LEMMA StayStep ==
    ASSUME IInv, Kept, HostKeeps, Same(ctl, ctl'), ctl.at \in {"verify", "stat"},
           \/ ctl'.at \in {"verify", "stat"} /\ ctl'.ret = ctl.ret
           \/ ctl'.at = ctl.ret,
           ctl'.at = "commit" =>
              ctl'.obs # Initial /\ (platform # "linux" => ctl'.obs = Replacement),
           ctl'.at = "adopt" /\ platform # "linux" => ctl'.obs = Initial
    PROVE  IInv'
<1>. USE DEF Kept, HostKeeps, Same
<1>1. ctl.ret \in Verified BY DEF IInv, Places, Returns
<1>2. Where' = Where /\ Returns'
  BY <1>1 DEF Where, Returns, Verified
<1>3. Places' BY <1>2 DEF IInv, Places
<1>4. TypeOK' BY DEF IInv, TypeOK, HostTypeOK, ControlTypeOK
<1>5. Single' BY <1>2 DEF IInv, Single, Unrestarted, Exists, Lineage
<1>6. Recorded'
  <2>1. ctl'.at = "commit" => Exists(Replacement)
    BY <1>1 DEF IInv, Recorded, Verified
  <2>. QED BY <1>1, <1>2, <2>1 DEF IInv, Recorded, SidecarIsCurrent, Exists, Listed, Verified
<1>7. Contained'
  BY <1>1 DEF IInv, Contained, NeverUncontained, Lineage, Live, Verified
<1>8. RouteProof'
  BY <1>1, <1>2 DEF IInv, RouteProof, RouteStaysRestored, Exists, Listed, Verified, Ended
<1>. QED BY <1>3, <1>4, <1>5, <1>6, <1>7, <1>8 DEF IInv

LEMMA CommandFailsStep ==
    ASSUME IInv, CommandFails, UNCHANGED after
    PROVE  IInv'
<1>1. ctl.op \notin {"none", "gone"} /\ ctl.at \notin Ended
  BY DEF IInv, Places, Returns, Verified, Where, CommandFails, Commands, Ended
<1>2. Kept /\ HostKeeps BY Basics DEF Kept, HostKeeps, CommandFails, hostVars
<1>3. ctl' = Raise(ctl) BY DEF CommandFails
<1>. QED BY <1>1, <1>2, <1>3, Basics, FailStep

LEMMA VerifySteps ==
    ASSUME IInv, VerifyExecutable \/ VerifyIdentity, UNCHANGED after
    PROVE  IInv'
<1>1. CASE VerifyExecutable
  <2>1. Kept /\ HostKeeps BY <1>1, Basics DEF Kept, HostKeeps, VerifyExecutable, hostVars
  <2>2. Same(ctl, ctl') /\ ctl'.at = "stat" /\ ctl'.ret = ctl.ret
    BY <1>1, Basics, AtChanges, LabelsKnown DEF VerifyExecutable, Goto
  <2>. QED BY <1>1, <2>1, <2>2, StayStep DEF VerifyExecutable
<1>2. CASE VerifyIdentity
  <2>. DEFINE found == Holder(ctl.pid)
              a == [ctl EXCEPT !.at = ctl.ret]
  <2>1. Kept /\ HostKeeps BY <1>2, Basics DEF Kept, HostKeeps, VerifyIdentity, Proved
  <2>2. found \in Procs /\ Listed(found) /\ proc[found].pid = ctl.pid
    BY <1>2, HolderListed DEF VerifyIdentity
  <2>3. Same(ctl, a) /\ a.at = ctl.ret BY Basics, AtChanges
  <2>4. ctl' = [a EXCEPT !.obs = found] BY <1>2 DEF VerifyIdentity
  <2>5. a \in Controllers BY <2>3 DEF Same
  <2>6. platform # "linux" => found \in {Initial, Replacement}
    BY <1>2 DEF VerifyIdentity, Services
  <2>7. ctl.at \in {"verify", "stat"} BY <1>2 DEF VerifyIdentity
  <2>. HIDE DEF a, found
  <2>8. Same(a, ctl') /\ ctl'.at = a.at BY <2>2, <2>4, <2>5, IdentityChanges
  <2>9. ctl'.obs = found BY <2>4, <2>5 DEF Controllers
  <2>10. ASSUME ctl.ret = "commit" PROVE found # Initial
    BY <2>2, <2>7, <2>10 DEF IInv, Recorded, Single
  <2>11. ASSUME ctl.ret = "adopt" PROVE found # Replacement
    <3>1. ctl.op = "create"
      BY <2>7, <2>11, Basics DEF IInv, Places, Where, StopsPredecessor, StopsExternal, Restarts, Owns,
                     StopsJob, StopsOnLinux, StopsOnMac, Ended, Outside
    <3>2. ~Exists(Replacement) BY <3>1 DEF IInv, Single, Unrestarted
    <3>. QED BY <2>2, <3>2 DEF Exists, Listed
  <2>12. Same(ctl, ctl') BY <2>3, <2>8 DEF Same
  <2>. QED BY <2>1, <2>3, <2>6, <2>7, <2>8, <2>9, <2>10, <2>11, <2>12, StayStep
<1>. QED BY <1>1, <1>2

LEMMA CreateStep ==
    ASSUME IInv, Create, UNCHANGED after
    PROVE  IInv'
<1>. DEFINE a == Verify(ctl, "adopt")
<1>1. Same(ctl, a) /\ a.at = "verify" /\ a.ret = "adopt"
  BY Basics, VerifyChanges, LabelsKnown
<1>2. /\ Kept /\ HostKeeps /\ ctl.at = "create"
      /\ sidecar \in Services
      /\ ctl' = [a EXCEPT !.init = IF platform = "macos" THEN Nobody ELSE sidecar]
  BY Basics DEF Create, Kept, HostKeeps
<1>3. (IF platform = "macos" THEN Nobody ELSE sidecar) \in Procs \cup {Nobody}
  BY <1>2, Numbers
<1>4. a \in Controllers BY <1>1 DEF Same
<1>. HIDE DEF a
<1>5. Same(a, ctl') /\ ctl'.at = a.at /\ ctl'.ret = a.ret
  BY <1>2, <1>3, <1>4, IdentityChanges
<1>6. Same(ctl, ctl') /\ ctl'.at = "verify" /\ ctl'.ret = "adopt"
  BY <1>1, <1>5 DEF Same
<1>7. ctl.op = "create"
  BY <1>2, Basics DEF IInv, Places, Where, StopsPredecessor, StopsExternal, Restarts, Owns,
                      StopsJob, StopsOnLinux, StopsOnMac, Ended, Outside
<1>. USE <1>2, <1>6, <1>7 DEF Kept, HostKeeps, Same, Where
<1>8. Places' BY DEF Places, Returns, Verified, Owns, StopsJob, StopsExternal
<1>9. TypeOK' BY DEF IInv, TypeOK, HostTypeOK, ControlTypeOK
<1>10. Single' BY DEF IInv, Single, Unrestarted, Exists, Lineage
<1>11. Recorded' BY DEF IInv, Recorded, SidecarIsCurrent, Exists, Listed, Owns
<1>12. Contained' BY DEF IInv, Contained, NeverUncontained, Lineage, Live
<1>13. RouteProof' BY DEF IInv, RouteProof, RouteStaysRestored, Exists, Listed, Ended
<1>. QED BY <1>8, <1>9, <1>10, <1>11, <1>12, <1>13 DEF IInv

LEMMA AdoptStep ==
    ASSUME IInv, Adopt, UNCHANGED after
    PROVE  IInv'
<1>. DEFINE a == [ctl EXCEPT !.init = ctl.obs]
            c == Idle(a)
<1>1. Same(ctl, a) BY Basics, IdentityChanges
<1>2. a \in Controllers BY <1>1 DEF Same
<1>3. /\ ctl.at = "adopt"
      /\ HostKeeps /\ UNCHANGED <<platform, proc, job>>
      /\ \/ UNCHANGED sidecar /\ ctl' = c
         \/ platform # "linux" /\ sidecar' = ctl.obs /\ ctl' = c
         \/ UNCHANGED sidecar /\ ctl' = Raise(ctl)
  BY Basics DEF Adopt, HostKeeps
<1>. HIDE DEF a
<1>4. /\ c \in Controllers /\ c.op = "none" /\ c.at = "idle" /\ c.pid = ctl.pid
      /\ c.restarts = ctl.restarts /\ c.handle = ctl.handle /\ c.loss = ctl.loss
  BY <1>1, <1>2, IdleKeeps DEF Same
<1>. HIDE DEF c
<1>5. ctl.op = "create" /\ ctl.loss = "none" /\ Unrestarted /\ ~Exists(Replacement)
  <2>1. ctl.op = "create"
    BY <1>3, Basics DEF IInv, Places, Where, StopsPredecessor, StopsExternal, Restarts, Owns,
                        StopsJob, StopsOnLinux, StopsOnMac, Ended, Outside
  <2>. QED BY <2>1 DEF IInv, Single, Unrestarted
<1>6. ASSUME ctl' = c PROVE Places' /\ Where' \notin Busy
  BY <1>3, <1>4, <1>6 DEF Places, Returns, Where, Busy, Owns, StopsJob, StopsExternal
<1>7. CASE UNCHANGED sidecar /\ ctl' = c
  <2>1. Kept /\ ctl.at \notin Ended BY <1>3, <1>7 DEF Kept, Ended
  <2>. QED BY <1>3, <1>4, <1>5, <1>6, <1>7, <2>1, CalmStep
<1>8. CASE UNCHANGED sidecar /\ ctl' = Raise(ctl)
  <2>1. Kept /\ ctl.at \notin Ended BY <1>3, <1>8 DEF Kept, Ended
  <2>. QED BY <1>3, <1>5, <1>8, <2>1, Basics, FailStep
<1>9. CASE platform # "linux" /\ sidecar' = ctl.obs /\ ctl' = c
  <2>1. sidecar' = Initial BY <1>3, <1>9 DEF IInv, Recorded
  <2>. USE <1>3, <1>4, <1>5, <1>9, <2>1 DEF HostKeeps, Where
  <2>2. Places' BY <1>6
  <2>3. TypeOK' BY Numbers DEF IInv, TypeOK, HostTypeOK, ControlTypeOK
  <2>4. Single' BY DEF IInv, Single, Unrestarted, Exists, Lineage
  <2>5. Recorded' BY Numbers DEF IInv, Recorded, SidecarIsCurrent, Exists, Listed, Owns
  <2>6. Contained' BY DEF IInv, Contained, NeverUncontained, Lineage, Live
  <2>7. RouteProof' BY DEF IInv, RouteProof, RouteStaysRestored, Exists, Listed, Ended
  <2>. QED BY <2>2, <2>3, <2>4, <2>5, <2>6, <2>7 DEF IInv
<1>. QED BY <1>3, <1>7, <1>8, <1>9

LEMMA LossBeginsStep ==
    ASSUME IInv, LossBegins, UNCHANGED after
    PROVE  IInv'
<1>. DEFINE l == IF platform = "linux" THEN "again" ELSE "terminate"
            a == Verify(ctl, l)
<1>1. /\ Kept /\ HostKeeps /\ ctl.at = "idle" /\ ctl.loss = "none"
      /\ ctl' = [a EXCEPT !.op = "loss"]
  BY Basics DEF LossBegins, hostVars, Kept, HostKeeps
<1>2. l \in Labels BY LabelsKnown DEF StopsPredecessor
<1>3. l \in {"again", "terminate"} OBVIOUS
<1>. HIDE DEF l
<1>4. Same(ctl, a) /\ a.at = "verify" /\ a.ret = l BY <1>2, Basics, VerifyChanges
<1>5. a \in Controllers BY <1>4 DEF Same
<1>. HIDE DEF a
<1>6. /\ ctl' \in Controllers /\ ctl'.op = "loss" /\ ctl'.at = a.at /\ ctl'.ret = a.ret
      /\ ctl'.pid = a.pid /\ ctl'.restarts = a.restarts /\ ctl'.handle = a.handle
  BY <1>1, <1>5 DEF Controllers
<1>7. ctl.op = "none"
  BY <1>1, Basics DEF IInv, Places, Where, StopsPredecessor, StopsExternal, Restarts, Owns,
                      StopsJob, StopsOnLinux, StopsOnMac, Ended, Outside
<1>8. Where' = l BY <1>4, <1>6 DEF Where
<1>9. Places' /\ Where' \notin Busy /\ ctl.at \notin Ended
  BY <1>1, <1>3, <1>4, <1>6, <1>8
     DEF Places, Returns, Verified, StopsPredecessor, StopsExternal, Owns, StopsJob, Busy, Ended
<1>10. Unrestarted BY <1>1, <1>7 DEF Unrestarted
<1>. QED BY <1>1, <1>4, <1>6, <1>9, <1>10, CalmStep DEF Same

\* What the controller does to the predecessor belongs to the scenario.
LEMMA LossGoesOn ==
    ASSUME IInv, ctl.at \in {"again", "kill", "wait", "start", "launch", "commit", "pid", "ready",
                             "restarted"} \cup Owns
    PROVE  ctl.op = "loss" /\ ctl.at \notin Ended
BY Basics DEF IInv, Places, Where, StopsPredecessor, StopsExternal, Restarts, Owns,
              StopsJob, StopsOnLinux, StopsOnMac, Ended, Outside

LEMMA PredecessorSteps ==
    ASSUME IInv, VerifyAgain \/ KillPredecessor, UNCHANGED after
    PROVE  IInv'
<1>1. CASE VerifyAgain
  <2>1. Kept /\ HostKeeps BY <1>1, Basics DEF VerifyAgain, hostVars, Kept, HostKeeps
  <2>2. Same(ctl, ctl') /\ ctl'.at = "verify" /\ ctl'.ret = "kill"
    <3>1. "kill" \in Labels BY LabelsKnown DEF StopsPredecessor
    <3>. QED BY <1>1, <3>1, Basics, VerifyChanges DEF VerifyAgain
  <2>3. ctl.op = "loss" /\ ctl.at \notin Ended /\ Unrestarted
    BY <1>1, LossGoesOn DEF VerifyAgain, Unrestarted, Where, StopsPredecessor
  <2>4. Places' /\ Where' \notin Busy
    BY <2>2, <2>3 DEF Same, Places, Returns, Verified, Where, StopsPredecessor, StopsExternal,
                      Owns, StopsJob, Busy
  <2>. QED BY <2>1, <2>2, <2>3, <2>4, MoveStep
<1>2. CASE KillPredecessor
  <2>1. Kept /\ HostKeeps
    BY <1>2, Basics DEF KillPredecessor, Signal, Listing, Kept, HostKeeps
  <2>2. Same(ctl, ctl') /\ ctl'.at = "wait"
    <3>1. "wait" \in Labels BY LabelsKnown DEF StopsPredecessor
    <3>. QED BY <1>2, <3>1, Basics, AtChanges DEF KillPredecessor, Goto
  <2>3. ctl.op = "loss" /\ ctl.at \notin Ended /\ Unrestarted
    BY <1>2, LossGoesOn DEF KillPredecessor, Unrestarted, Where, StopsPredecessor
  <2>4. Places' /\ Where' \notin Busy
    BY <2>2, <2>3 DEF Same, Places, Returns, Where, StopsPredecessor, StopsExternal,
                      Owns, StopsJob, Busy
  <2>. QED BY <2>1, <2>2, <2>3, <2>4, MoveStep
<1>. QED BY <1>1, <1>2

\* On macOS the predecessor's number is gone when the wait ends.
LEMMA WaitDeadStep ==
    ASSUME IInv, WaitDead, UNCHANGED after
    PROVE  IInv'
<1>1. Kept /\ HostKeeps /\ ctl.at = "wait"
  BY Basics DEF WaitDead, hostVars, Kept, HostKeeps
<1>2. Same(ctl, ctl') /\ ctl'.at = "start"
  <2>1. "start" \in Labels BY LabelsKnown DEF StopsPredecessor
  <2>. QED BY <2>1, Basics, AtChanges DEF WaitDead, Goto
<1>3. ctl.op = "loss" /\ Unrestarted
  BY <1>1, LossGoesOn DEF Unrestarted, Where, StopsPredecessor
<1>4. platform = "macos" => ~Listed(Initial)
  BY <1>3, Numbers DEF WaitDead, IInv, Single, Listing
<1>. USE <1>1, <1>2, <1>3, <1>4 DEF Kept, HostKeeps, Same, Where
<1>5. Places' BY DEF Places, Returns, StopsPredecessor, StopsExternal, Owns, StopsJob
<1>6. TypeOK' BY DEF IInv, TypeOK, HostTypeOK, ControlTypeOK
<1>7. Single' BY DEF IInv, Single, Unrestarted, Exists, Lineage
<1>8. Recorded' BY DEF IInv, Recorded, SidecarIsCurrent, Exists, Listed, Owns
<1>9. Contained' BY DEF IInv, Contained, NeverUncontained, Lineage, Live
<1>10. RouteProof' BY DEF IInv, RouteProof, RouteStaysRestored, Exists, Listed, Ended
<1>. QED BY <1>5, <1>6, <1>7, <1>8, <1>9, <1>10 DEF IInv

LEMMA StartBeginsStep ==
    ASSUME IInv, StartBegins, UNCHANGED after
    PROVE  IInv'
<1>. DEFINE a == [ctl EXCEPT !.restarts = @ + 1]
            b == [a EXCEPT !.proven = FALSE]
<1>1. /\ ctl.at = "start" /\ HostKeeps /\ UNCHANGED <<platform, proc, job>>
      /\ \/ sidecar' = Pending /\ ctl' = [b EXCEPT !.at = "launch"]
         \/ UNCHANGED sidecar /\ ctl' = Raise(b)
  BY Basics DEF StartBegins, Persist, HostKeeps
<1>2. ctl.op = "loss" /\ ctl.at \notin Ended /\ Unrestarted
  BY <1>1, LossGoesOn DEF Unrestarted, Where, StopsPredecessor
<1>3. ctl.restarts = 0 /\ ~ctl.handle /\ ~Exists(Replacement)
  BY <1>2 DEF IInv, Single
<1>4. /\ a \in Controllers /\ a.restarts = 1 /\ a.op = ctl.op /\ a.pid = ctl.pid
      /\ a.handle = ctl.handle /\ a.loss = ctl.loss
  BY <1>3, Basics DEF Controllers
<1>. HIDE DEF a
<1>5. Same(a, b) /\ b.at = a.at BY <1>4, FlagChanges
<1>6. b \in Controllers BY <1>5 DEF Same
<1>. HIDE DEF b
<1>7. CASE UNCHANGED sidecar /\ ctl' = Raise(b)
  <2>1. Kept BY <1>1, <1>7 DEF Kept
  <2>. QED BY <1>1, <1>2, <1>4, <1>5, <1>6, <1>7, <2>1, FailStep DEF Same
<1>8. CASE sidecar' = Pending /\ ctl' = [b EXCEPT !.at = "launch"]
  <2>1. Same(b, ctl') /\ ctl'.at = "launch"
    <3>1. "launch" \in Labels BY LabelsKnown DEF Restarts
    <3>. QED BY <1>6, <1>8, <3>1, AtChanges
  <2>. USE <1>1, <1>2, <1>3, <1>4, <1>5, <1>8, <2>1 DEF HostKeeps, Same, Where
  <2>2. Places' BY DEF Places, Returns, Restarts, StopsExternal, Owns, StopsJob
  <2>3. TypeOK' BY Numbers DEF IInv, TypeOK, HostTypeOK, ControlTypeOK
  <2>4. Single' BY DEF IInv, Single, Unrestarted, Exists, Lineage, StopsPredecessor, StopsExternal
  <2>5. Recorded' BY Numbers DEF IInv, Recorded, SidecarIsCurrent, Exists, Listed, Owns
  <2>6. Contained' BY DEF IInv, Contained, NeverUncontained, Lineage, Live
  <2>7. RouteProof' BY DEF IInv, RouteProof, RouteStaysRestored, Exists, Listed, Ended
  <2>. QED BY <2>2, <2>3, <2>4, <2>5, <2>6, <2>7 DEF IInv
<1>. QED BY <1>1, <1>7, <1>8

LEMMA LaunchedIs ==
    ASSUME NEW c \in Controllers, c = ctl, NEW n \in Nat, NEW d, d = Launched(n)
    PROVE  /\ d \in Controllers /\ d.at = "verify" /\ d.ret = "commit" /\ d.pid = n
           /\ d.op = c.op /\ d.restarts = c.restarts /\ d.handle = c.handle /\ d.loss = c.loss
<1>. DEFINE e == [c EXCEPT !.pid = n]
            f == [e EXCEPT !.init = Nobody]
            g == [f EXCEPT !.repl = Nobody]
<1>1. d = Verify(g, "commit") BY DEF Launched
<1>2. /\ e \in Controllers /\ e.pid = n /\ e.op = c.op /\ e.restarts = c.restarts
      /\ e.handle = c.handle /\ e.loss = c.loss
  BY DEF Controllers
<1>. HIDE DEF e
<1>3. Same(e, f) BY <1>2, IdentityChanges
<1>. HIDE DEF f
<1>4. Same(f, g) BY <1>3, IdentityChanges DEF Same
<1>. HIDE DEF g
<1>5. g \in Controllers /\ "commit" \in Labels BY <1>4, LabelsKnown DEF Same, Restarts
<1>6. Same(g, d) /\ d.at = "verify" /\ d.ret = "commit" BY <1>1, <1>5, VerifyChanges
<1>. QED BY <1>2, <1>3, <1>4, <1>6 DEF Same

\* What is known of a process table with a newborn replacement.
LEMMA ReplacementBorn ==
    ASSUME IInv, Where = "launch",
           NEW n \in {Initial, Replacement}, Free(n), NEW g \in Nat,
           NEW s \in {"live", "suspended"},
           proc' = [proc EXCEPT ![Replacement] = Newborn(s, n, g, FALSE)]
    PROVE  /\ proc' \in [Procs -> Processes]
           /\ proc'[Replacement].pid = n /\ proc'[Replacement].st = s /\ Exists(Replacement)'
           /\ \A p \in Procs \ {Replacement} : proc'[p] = proc[p]
           /\ Lineage(Replacement)' = {Replacement}
           /\ n = Initial => ~Listed(Initial)
           /\ born \cup {Replacement} \subseteq Procs
<1>1. /\ proc \in [Procs -> Processes] /\ Replacement \in Procs /\ Initial \in Procs
      /\ born \subseteq Procs /\ n \in Nat
  BY Numbers DEF IInv, TypeOK, HostTypeOK
<1>2. Newborn(s, n, g, FALSE) \in Processes
  BY <1>1, Numbers DEF Newborn, Processes
<1>3. /\ proc' \in [Procs -> Processes]
      /\ proc'[Replacement] = Newborn(s, n, g, FALSE)
      /\ \A p \in Procs \ {Replacement} : proc'[p] = proc[p]
  BY <1>1, <1>2
<1>4. Lineage(Replacement) = {} BY DEF IInv, Single
<1>5. Lineage(Replacement)' = {Replacement}
  <2>1. \A p \in Procs : proc[p].root # Replacement BY <1>4 DEF Lineage
  <2>2. proc'[Replacement].root = Replacement BY <1>3 DEF Newborn
  <2>. QED BY <1>1, <1>3, <2>1, <2>2 DEF Lineage
<1>6. n = Initial => ~Listed(Initial) BY <1>1 DEF Free, IInv, Single
<1>. QED BY <1>1, <1>3, <1>5, <1>6 DEF Newborn, Exists

LEMMA LaunchDetachedStep ==
    ASSUME IInv, LaunchDetached, UNCHANGED after
    PROVE  IInv'
<1>1. PICK n \in {Initial, Replacement} :
         /\ Free(n)
         /\ proc' = [proc EXCEPT ![Replacement] =
                       Newborn("live", n, IF platform = "linux" THEN LauncherGroup ELSE n, FALSE)]
         /\ ctl' \in {Launched(n), Raise(ctl)}
  BY DEF LaunchDetached
<1>2. /\ ctl.at = "launch" /\ platform # "windows" /\ born' = born \cup {Replacement}
      /\ UNCHANGED <<job, platform, harmed, sidecar, pidFile, route, after>>
  BY DEF LaunchDetached, POSIX
<1>3. ctl.op = "loss" /\ ctl.at \notin Ended BY <1>2, LossGoesOn
<1>4. /\ Where = "launch" /\ sidecar = Pending /\ ~ctl.handle /\ ctl.restarts = 1
      /\ after.route # "ok"
  BY <1>2, <1>3 DEF Where, IInv, Recorded, Single, RouteProof
<1>5. /\ n \in Nat
      /\ (IF platform = "linux" THEN LauncherGroup ELSE n) \in Nat
  BY Numbers DEF LauncherGroup
<1>6. /\ proc' \in [Procs -> Processes]
      /\ proc'[Replacement].pid = n /\ proc'[Replacement].st = "live" /\ Exists(Replacement)'
      /\ \A p \in Procs \ {Replacement} : proc'[p] = proc[p]
      /\ n = Initial => ~Listed(Initial)
      /\ born' \subseteq Procs
  BY <1>1, <1>2, <1>4, <1>5, ReplacementBorn
<1>7. /\ ctl' \in Controllers /\ ctl'.handle = ctl.handle /\ ctl'.restarts = ctl.restarts
      /\ \/ ctl'.op = "loss" /\ ctl'.at = "verify" /\ ctl'.ret = "commit" /\ ctl'.pid = n
         \/ ctl'.op = "none" /\ ctl'.at = "idle" /\ ctl'.loss = "failed"
  <2>1. CASE ctl' = Launched(n) BY <1>3, <1>5, <2>1, Basics, LaunchedIs
  <2>2. CASE ctl' = Raise(ctl) BY <1>3, <1>4, <2>2, Basics, RaiseLeads
  <2>. QED BY <1>1, <2>1, <2>2
<1>8. proc'[Initial] = proc[Initial] BY <1>6, Numbers
<1>. USE <1>2, <1>4, <1>6, <1>7, <1>8
<1>9. Places'
  BY DEF Places, Returns, Verified, Where, Restarts, StopsExternal, Owns, StopsJob
<1>10. TypeOK' BY DEF IInv, TypeOK, HostTypeOK, ControlTypeOK
<1>11. Single'
  BY DEF IInv, Single, Unrestarted, Exists, Where, StopsPredecessor, StopsExternal
<1>12. Recorded'
  BY Numbers DEF IInv, Recorded, SidecarIsCurrent, Exists, Listed, Where, Owns
<1>13. Contained' BY DEF IInv, Contained, NeverUncontained
<1>14. RouteProof'
  BY DEF IInv, RouteProof, RouteStaysRestored, Exists, Listed, Where, Ended
<1>. QED BY <1>9, <1>10, <1>11, <1>12, <1>13, <1>14 DEF IInv

LEMMA CommitStep ==
    ASSUME IInv, Commit, UNCHANGED after
    PROVE  IInv'
<1>. DEFINE a == [ctl EXCEPT !.repl = ctl.obs]
<1>1. /\ ctl.at = "commit" /\ HostKeeps /\ UNCHANGED <<platform, proc, job>>
      /\ \/ sidecar' = ctl.obs /\ ctl' = [a EXCEPT !.at = "pid"]
         \/ UNCHANGED sidecar /\ ctl' = Raise(a)
  BY Basics DEF Commit, Persist, HostKeeps
<1>2. ctl.op = "loss" /\ ctl.at \notin Ended BY <1>1, LossGoesOn
<1>3. Same(ctl, a) BY Basics, IdentityChanges
<1>4. a \in Controllers BY <1>3 DEF Same
<1>5. ctl.obs # Initial /\ (platform # "linux" => ctl.obs = Replacement /\ Exists(Replacement))
  BY <1>1 DEF IInv, Recorded
<1>. HIDE DEF a
<1>6. CASE UNCHANGED sidecar /\ ctl' = Raise(a)
  <2>1. Kept BY <1>1, <1>6 DEF Kept
  <2>. QED BY <1>1, <1>2, <1>3, <1>4, <1>6, <2>1, FailStep DEF Same
<1>7. CASE sidecar' = ctl.obs /\ ctl' = [a EXCEPT !.at = "pid"]
  <2>1. Same(a, ctl') /\ ctl'.at = "pid"
    <3>1. "pid" \in Labels BY LabelsKnown DEF Restarts
    <3>. QED BY <1>4, <1>7, <3>1, AtChanges
  <2>. USE <1>1, <1>2, <1>3, <1>5, <1>7, <2>1 DEF HostKeeps, Same, Where
  <2>2. Places' BY DEF Places, Returns, Restarts, StopsExternal, Owns, StopsJob
  <2>3. TypeOK' BY Basics, Numbers DEF IInv, TypeOK, HostTypeOK, ControlTypeOK
  <2>4. Single' BY DEF IInv, Single, Unrestarted, Exists, Lineage, StopsPredecessor, StopsExternal
  <2>5. Recorded' BY Numbers DEF IInv, Recorded, SidecarIsCurrent, Exists, Listed, Owns
  <2>6. Contained' BY DEF IInv, Contained, NeverUncontained, Lineage, Live
  <2>7. RouteProof' BY DEF IInv, RouteProof, RouteStaysRestored, Exists, Listed, Ended
  <2>. QED BY <2>2, <2>3, <2>4, <2>5, <2>6, <2>7 DEF IInv
<1>. QED BY <1>1, <1>6, <1>7

LEMMA ReadySteps ==
    ASSUME IInv, WritePid \/ Ready \/ Restarted, UNCHANGED after
    PROVE  IInv'
<1>. DEFINE L == {"pid", "ready", "restarted"}
<1>1. ctl.at \in L BY DEF WritePid, Ready, Restarted
<1>2. ctl.op = "loss" /\ ctl.at \notin Ended BY <1>1, LossGoesOn
<1>3. Kept /\ HostKeeps
  BY Basics DEF WritePid, Ready, Restarted, Kept, HostKeeps, hostVars
<1>4. {"ready", "restarted"} \subseteq Labels BY LabelsKnown DEF Restarts
<1>5. CASE WritePid \/ Ready
  <2>1. Same(ctl, ctl') /\ Where' \in {"ready", "restarted"} /\ Returns'
    <3>1. CASE WritePid
      <4>1. Same(ctl, ctl') /\ ctl'.at = "ready"
        BY <1>4, <3>1, Basics, AtChanges DEF WritePid, Goto
      <4>. QED BY <4>1 DEF Where, Returns
    <3>2. CASE Ready
      <4>1. Same(ctl, ctl') /\ ctl'.at = "verify" /\ ctl'.ret = "restarted"
        BY <1>4, <3>2, Basics, VerifyChanges DEF Ready
      <4>. QED BY <4>1 DEF Where, Returns, Verified
    <3>. QED BY <1>5, <3>1, <3>2
  <2>2. Places' /\ Where' \notin Busy /\ Where' \notin StopsPredecessor
    BY <1>2, <2>1 DEF Same, Places, Restarts, StopsPredecessor, StopsExternal, Owns, StopsJob, Busy
  <2>. QED BY <1>2, <1>3, <2>1, <2>2, MoveStep
<1>6. CASE Restarted
  <2>. DEFINE i == Idle(ctl)
  <2>1. /\ i \in Controllers /\ i.at = "idle" /\ i.op = "none" /\ i.pid = ctl.pid
        /\ i.restarts = ctl.restarts /\ i.handle = ctl.handle
    BY Basics, IdleKeeps
  <2>2. ctl' = [i EXCEPT !.loss = "ok"] BY <1>6 DEF Restarted
  <2>. HIDE DEF i
  <2>3. /\ ctl' \in Controllers /\ ctl'.at = "idle" /\ ctl'.op = "none" /\ ctl'.pid = ctl.pid
        /\ ctl'.restarts = ctl.restarts /\ ctl'.handle = ctl.handle /\ ctl'.loss = "ok"
    BY <2>1, <2>2 DEF Controllers
  <2>4. Places' /\ Where' \notin Busy /\ ~Unrestarted'
    BY <2>3 DEF Places, Returns, Where, Unrestarted, Owns, StopsJob, StopsExternal, Busy
  <2>. QED BY <1>2, <1>3, <2>3, <2>4, CalmStep
<1>. QED BY <1>5, <1>6

LEMMA FinalizeBeginsStep ==
    ASSUME IInv, FinalizeBegins, UNCHANGED after
    PROVE  IInv'
<1>1. Kept /\ HostKeeps /\ ctl.at = "idle"
  BY Basics DEF FinalizeBegins, Kept, HostKeeps, hostVars
<1>2. ctl.op = "none" /\ ctl.at \notin Ended
  BY <1>1, Basics DEF IInv, Places, Where, StopsPredecessor, StopsExternal, Restarts, Owns,
                      StopsJob, StopsOnLinux, StopsOnMac, Ended, Outside
<1>3. ASSUME ctl' \in Controllers, ctl'.op = "none", ctl'.at = "exiting", ctl'.pid = ctl.pid,
             ctl'.restarts = ctl.restarts, ctl'.handle = ctl.handle, ctl'.loss = ctl.loss
      PROVE  IInv'
  <2>1. Places' /\ Where' \notin Busy /\ (Unrestarted' => Unrestarted)
    BY <1>2, <1>3 DEF Places, Returns, Where, Unrestarted, Owns, StopsJob, StopsExternal, Busy
  <2>. QED BY <1>1, <1>2, <1>3, <2>1, CalmStep
<1>4. CASE ctl' = [Idle(ctl) EXCEPT !.at = "exiting", !.fin = "failed"]
  <2>. DEFINE i == Idle(ctl)
              a == [i EXCEPT !.at = "exiting"]
  <2>1. /\ i \in Controllers /\ i.op = "none" /\ i.pid = ctl.pid
        /\ i.restarts = ctl.restarts /\ i.handle = ctl.handle /\ i.loss = ctl.loss
    BY Basics, IdleKeeps
  <2>. HIDE DEF i
  <2>2. Same(i, a) /\ a.at = "exiting" BY <2>1, AtChanges, LabelsKnown
  <2>3. a \in Controllers /\ ctl' = [a EXCEPT !.fin = "failed"] BY <1>4, <2>2 DEF Same, i
  <2>. HIDE DEF a
  <2>4. Same(a, ctl') /\ ctl'.at = a.at BY <2>3, FinChanges
  <2>. QED BY <1>3, <2>1, <2>2, <2>4 DEF Same
<1>5. CASE ctl' = Cleaned(ctl)
  BY <1>3, <1>5, Basics, CleanedEnds
<1>6. CASE /\ ctl.restarts > 0
           /\ ctl' = [ctl EXCEPT !.op = "finalize",
                                 !.at = CASE platform = "linux" -> "f_alive"
                                          [] platform = "macos" -> "b_alive"
                                          [] platform = "windows" -> "w_finalize"]
  <2>. DEFINE l == CASE platform = "linux" -> "f_alive"
                     [] platform = "macos" -> "b_alive"
                     [] platform = "windows" -> "w_finalize"
              a == [ctl EXCEPT !.op = "finalize"]
  <2>1. /\ platform = "linux" => l = "f_alive"
        /\ platform = "macos" => l = "b_alive"
        /\ platform = "windows" => l = "w_finalize"
    OBVIOUS
  <2>2. ctl' = [a EXCEPT !.at = l] BY <1>6
  <2>3. l \in Labels BY <2>1, Basics, LabelsKnown DEF StopsOnLinux, StopsOnMac
  <2>4. /\ a \in Controllers /\ a.op = "finalize" /\ a.pid = ctl.pid
        /\ a.restarts = ctl.restarts /\ a.handle = ctl.handle /\ a.loss = ctl.loss
    BY Basics DEF Controllers
  <2>. HIDE DEF a, l
  <2>5. Same(a, ctl') /\ ctl'.at = l BY <2>2, <2>3, <2>4, AtChanges
  <2>6. ctl.loss # "none" BY <1>2, <1>6 DEF IInv, Single, Unrestarted
  <2>7. Places' /\ Where' \notin Busy /\ ~Unrestarted'
    BY <1>1, <2>1, <2>4, <2>5, Basics
       DEF Same, Kept, Places, Returns, Where, Unrestarted, StopsOnLinux, StopsOnMac, Owns, StopsJob,
           StopsExternal, Busy
  <2>. QED BY <1>1, <1>2, <2>4, <2>5, <2>6, <2>7, CalmStep DEF Same
<1>. QED BY <1>4, <1>5, <1>6 DEF FinalizeBegins

LEMMA BaseFinalizeStep ==
    ASSUME IInv, BaseFinalize, UNCHANGED after
    PROVE  IInv'
<1>1. Kept /\ HostKeeps /\ ctl.at = "b_alive"
  BY Basics DEF BaseFinalize, Kept, HostKeeps, hostVars
<1>2. ctl.op = "finalize" /\ platform = "macos"
  BY <1>1, Basics DEF IInv, Places, Where, StopsPredecessor, StopsExternal, Restarts, Owns,
                      StopsJob, StopsOnLinux, StopsOnMac, Ended, Outside
<1>3. "terminate" \in Labels BY LabelsKnown DEF StopsOnMac
<1>4. CASE ctl' = Verify(ctl, "terminate")
  <2>1. Same(ctl, ctl') /\ ctl'.at = "verify" /\ ctl'.ret = "terminate"
    BY <1>3, <1>4, Basics, VerifyChanges
  <2>2. Where' \in StopsOnMac /\ Returns' BY <2>1 DEF Where, Returns, Verified, StopsOnMac
  <2>. QED BY <1>1, <1>2, <2>1, <2>2, FinalizeStep
<1>5. CASE ctl' = Goto("terminate")
  <2>1. Same(ctl, ctl') /\ ctl'.at = "terminate"
    BY <1>3, <1>5, Basics, AtChanges DEF Goto
  <2>2. Where' \in StopsOnMac /\ Returns' BY <2>1 DEF Where, Returns, StopsOnMac
  <2>. QED BY <1>1, <1>2, <2>1, <2>2, FinalizeStep
<1>. QED BY <1>4, <1>5 DEF BaseFinalize

-----------------------------------------------------------------------------
\* The end of the lane, and the replacement's job on Windows.

\* Processes may end; nothing else becomes of the table.
Shrinks ==
    /\ proc' \in [Procs -> Processes]
    /\ \A p \in Procs :
          /\ proc'[p].pid = proc[p].pid /\ proc'[p].root = proc[p].root
          /\ Listed(p)' => Listed(p)
    /\ \A s \in Services : Exists(s)' <=> Exists(s)
    /\ ~Exists(Replacement) => proc'[Replacement] = proc[Replacement]

\* The members of a closed job are gone.
LEMMA ClosedTable ==
    ASSUME IInv, proc' = Closed(proc)
    PROVE  /\ Shrinks
           /\ \A p \in Procs : /\ proc'[p].job = proc[p].job
                               /\ Live(p)' => Live(p) /\ ~proc[p].job
<1>1. proc \in [Procs -> Processes] BY DEF IInv, TypeOK, HostTypeOK
<1>2. \A p \in Procs : proc'[p] = IF proc[p].job THEN [proc[p] EXCEPT !.st = "gone"] ELSE proc[p]
  BY DEF Closed
<1>3. ASSUME NEW p \in Procs
      PROVE  /\ proc'[p] \in Processes
             /\ proc'[p].pid = proc[p].pid /\ proc'[p].root = proc[p].root
             /\ proc'[p].job = proc[p].job
             /\ proc'[p].st = IF proc[p].job THEN "gone" ELSE proc[p].st
  BY <1>1, <1>2 DEF Processes
<1>4. proc' \in [Procs -> Processes]
  <2>1. proc' = [p \in Procs |-> proc'[p]] BY DEF Closed
  <2>. QED BY <1>3, <2>1
<1>5. ~Exists(Replacement) => ~proc[Replacement].job
  BY DEF IInv, Single, NoProcess
<1>6. Exists(Initial) BY DEF IInv, Single
<1>7. \A p \in Procs : Listed(p)' => Listed(p) BY <1>3 DEF Listed
<1>8. \A p \in Procs : Live(p)' => Live(p) /\ ~proc[p].job BY <1>3 DEF Live
<1>9. \A s \in Services : Exists(s)' <=> Exists(s)
  BY <1>3, <1>5, <1>6, Numbers DEF Exists
<1>10. ~Exists(Replacement) => proc'[Replacement] = proc[Replacement]
  BY <1>2, <1>5, Numbers
<1>. QED BY <1>3, <1>4, <1>7, <1>8, <1>9, <1>10 DEF Shrinks

\* The table can shrink under the invariant's other parts.
LEMMA ShrinkStep ==
    ASSUME IInv, Shrinks,
           UNCHANGED <<platform, sidecar, route>>, after'.route = after.route,
           born' \subseteq Procs, harmed' \subseteq Procs, pidFile' \in Nat,
           job' \in [attached : BOOLEAN, open : BOOLEAN],
           after' \in [service : {"none", "ok", "failed"}, blind : BOOLEAN,
                       route : {"none", "ok", "failed"}],
           ctl.at \notin Ended, ctl' \in Controllers, Places', ~Unrestarted',
           ctl'.handle => platform = "windows",
           ctl'.op \notin {"create", "finalize"} \/ ctl'.loss # "none",
           ctl'.restarts = ctl.restarts \/ (ctl'.restarts = 1 /\ Where' \notin {"start"}),
           Where' \notin {"create", "adopt", "start", "launch", "commit"},
           Where' \in Owns => Exists(Replacement),
           ctl'.at \notin {"r_decide", "r_verify"},
           Contained'
    PROVE  IInv'
<1>. USE DEF IInv, Shrinks
<1>1. TypeOK' BY DEF TypeOK, HostTypeOK, ControlTypeOK
<1>2. Lineage(Replacement)' = Lineage(Replacement) BY DEF Lineage
<1>3. Single'
  <2>1. ctl'.op # "create"
    BY DEF Places
  <2>. QED BY <1>2, <2>1, Numbers DEF Single
<1>4. Recorded' BY Numbers DEF Recorded, SidecarIsCurrent, Where
<1>5. RouteProof' BY Numbers DEF RouteProof, RouteStaysRestored
<1>. QED BY <1>1, <1>3, <1>4, <1>5

LEMMA LaneEndsStep ==
    ASSUME IInv, LaneEnds, UNCHANGED after
    PROVE  IInv'
<1>1. /\ ctl.op \notin {"gone", "outer"} /\ proc' = Closed(proc)
      /\ job' = [attached |-> FALSE, open |-> FALSE]
      /\ ctl' = [Idle(ctl) EXCEPT !.at = "o_read", !.op = "gone", !.init = Nobody,
                                  !.repl = Nobody, !.handle = FALSE]
      /\ UNCHANGED <<platform, born, harmed, sidecar, pidFile, route, after>>
  BY DEF LaneEnds, InLane, Closed
<1>2. ctl.at \notin Ended
  BY <1>1, Basics DEF IInv, Places, Where, StopsPredecessor, StopsExternal, Restarts, Owns,
                      StopsJob, StopsOnLinux, StopsOnMac, Ended
<1>3. /\ ctl' \in Controllers /\ ctl'.op = "gone" /\ ctl'.at = "o_read" /\ ~ctl'.handle
      /\ ctl'.restarts = ctl.restarts
  <2>. DEFINE i == Idle(ctl)
              a == [i EXCEPT !.at = "o_read"]
              b == [a EXCEPT !.op = "gone"]
              c == [b EXCEPT !.init = Nobody]
              d == [c EXCEPT !.repl = Nobody]
  <2>1. ctl' = [d EXCEPT !.handle = FALSE] BY <1>1
  <2>2. i \in Controllers /\ i.restarts = ctl.restarts BY Basics, IdleKeeps
  <2>. HIDE DEF i
  <2>3. Same(i, a) /\ a.at = "o_read" BY <2>2, AtChanges, LabelsKnown
  <2>. HIDE DEF a
  <2>4. b \in Controllers /\ b.op = "gone" /\ b.at = a.at /\ b.restarts = a.restarts
    BY <2>3 DEF Same, Controllers
  <2>. HIDE DEF b
  <2>5. Same(b, c) /\ c.at = b.at BY <2>4, IdentityChanges
  <2>. HIDE DEF c
  <2>6. Same(c, d) /\ d.at = c.at BY <2>5, IdentityChanges DEF Same
  <2>. HIDE DEF d
  <2>7. /\ ctl' \in Controllers /\ ctl'.op = d.op /\ ctl'.at = d.at /\ ctl'.restarts = d.restarts
        /\ ctl'.handle = FALSE
    BY <2>1, <2>6 DEF Same, Controllers
  <2>. QED BY <2>2, <2>3, <2>4, <2>5, <2>6, <2>7 DEF Same
<1>4. /\ Shrinks
      /\ \A p \in Procs : Live(p)' => Live(p) /\ ~proc[p].job
  BY <1>1, ClosedTable
<1>5. Contained'
  BY <1>1, <1>3, <1>4 DEF IInv, Contained, NeverUncontained, Lineage, Shrinks
<1>6. Places' /\ ~Unrestarted'
  BY <1>3 DEF Places, Returns, Where, Unrestarted, Owns, StopsJob, StopsExternal
<1>. QED BY <1>1, <1>2, <1>3, <1>4, <1>5, <1>6, Basics, ShrinkStep DEF Where, Owns

LEMMA CreateSuspendedStep ==
    ASSUME IInv, CreateSuspended, UNCHANGED after
    PROVE  IInv'
<1>1. PICK n \in {Initial, Replacement} :
         Free(n) /\ proc' = [proc EXCEPT ![Replacement] = Newborn("suspended", n, n, FALSE)]
  BY DEF CreateSuspended
<1>2. /\ ctl.at = "launch" /\ platform = "windows" /\ born' = born \cup {Replacement}
      /\ UNCHANGED <<job, platform, harmed, sidecar, pidFile, route, after>>
      /\ ctl' = Goto("j_create")
  BY DEF CreateSuspended, WindowsAt
<1>3. ctl.op = "loss" /\ ctl.at \notin Ended BY <1>2, LossGoesOn
<1>4. /\ Where = "launch" /\ sidecar = Pending /\ ~ctl.handle /\ ctl.restarts = 1
      /\ after.route # "ok"
  BY <1>2, <1>3 DEF Where, IInv, Recorded, Single, RouteProof
<1>5. n \in Nat BY Numbers
<1>6. /\ proc' \in [Procs -> Processes]
      /\ proc'[Replacement].pid = n /\ proc'[Replacement].st = "suspended" /\ Exists(Replacement)'
      /\ \A p \in Procs \ {Replacement} : proc'[p] = proc[p]
      /\ Lineage(Replacement)' = {Replacement}
      /\ n = Initial => ~Listed(Initial)
      /\ born' \subseteq Procs
  BY <1>1, <1>2, <1>4, <1>5, ReplacementBorn
<1>7. Same(ctl, ctl') /\ ctl'.at = "j_create"
  <2>1. "j_create" \in Labels BY LabelsKnown DEF Owns
  <2>. QED BY <1>2, <2>1, Basics, AtChanges DEF Goto
<1>8. proc'[Initial] = proc[Initial] BY <1>6, Numbers
<1>. USE <1>2, <1>3, <1>4, <1>6, <1>7, <1>8 DEF Same
<1>9. Places' BY DEF Places, Returns, Where, Restarts, Owns
<1>10. TypeOK' BY DEF IInv, TypeOK, HostTypeOK, ControlTypeOK
<1>11. Single'
  BY DEF IInv, Single, Unrestarted, Exists, Where, StopsPredecessor, StopsExternal
<1>12. Recorded'
  BY Numbers DEF IInv, Recorded, SidecarIsCurrent, Exists, Listed, Where, Owns
<1>13. Contained' BY DEF IInv, Contained, NeverUncontained, Live
<1>14. RouteProof'
  BY DEF IInv, RouteProof, RouteStaysRestored, Exists, Listed, Where, Ended
<1>. QED BY <1>9, <1>10, <1>11, <1>12, <1>13, <1>14 DEF IInv

\* A step on the way into the job, or out of it again.
LEMMA OwnsStep ==
    ASSUME IInv, platform = "windows", ctl.at \in Owns,
           UNCHANGED <<platform, born, harmed, sidecar, pidFile, route, after>>,
           Shrinks, job' \in [attached : BOOLEAN, open : BOOLEAN], Contained',
           \/ /\ ctl' \in Controllers /\ ctl'.op = "loss" /\ ctl'.at \in Owns
              /\ ctl'.restarts = ctl.restarts
           \/ ctl' = Raise(ctl)
    PROVE  IInv'
<1>1. ctl.op = "loss" /\ ctl.at \notin Ended BY LossGoesOn
<1>2. Exists(Replacement) BY DEF IInv, Recorded, Where, Owns
<1>3. /\ ctl' \in Controllers /\ ctl'.restarts = ctl.restarts
      /\ \/ ctl'.op = "loss" /\ ctl'.at \in Owns
         \/ ctl'.op = "undo" /\ ctl'.at = "w_job"
         \/ ctl'.op = "none" /\ ctl'.at = "idle" /\ ctl'.loss = "failed"
  BY <1>1, Basics, RaiseLeads
<1>4. Places' /\ ~Unrestarted'
  BY <1>3 DEF Places, Returns, Where, Unrestarted, StopsPredecessor, StopsExternal, Restarts, Owns,
              StopsJob
<1>5. /\ Where' \notin {"create", "adopt", "start", "launch", "commit"}
      /\ ctl'.at \notin {"r_decide", "r_verify"}
      /\ ctl'.op \notin {"create", "finalize"}
  BY <1>3 DEF Where, Owns
<1>. QED BY <1>1, <1>2, <1>3, <1>4, <1>5, Basics, ShrinkStep

LEMMA OwnsSteps ==
    ASSUME IInv, CreateJob \/ AssignJob \/ Resume \/ UndoJob \/ TerminateUnassigned, UNCHANGED after
    PROVE  IInv'
<1>1. /\ platform = "windows" /\ ctl.at \in Owns
      /\ UNCHANGED <<platform, born, harmed, sidecar, pidFile, route, after>>
  BY DEF CreateJob, AssignJob, Resume, UndoJob, TerminateUnassigned, WindowsAt, JobVars, Owns
<1>2. ctl.op = "loss" BY <1>1, LossGoesOn
<1>3. /\ proc \in [Procs -> Processes] /\ job \in [attached : BOOLEAN, open : BOOLEAN]
      /\ Replacement \in Procs /\ Exists(Replacement)
  BY <1>1, Numbers DEF IInv, TypeOK, HostTypeOK, ControlTypeOK, Recorded, Where, Owns
<1>4. ASSUME NEW l \in Owns, ctl' = Goto(l)
      PROVE  /\ ctl' \in Controllers /\ ctl'.op = "loss" /\ ctl'.at = l
             /\ ctl'.restarts = ctl.restarts
  BY <1>2, <1>4, Basics, LabelsKnown, AtChanges DEF Goto, Same
<1>5. UNCHANGED proc => Shrinks BY <1>3 DEF Shrinks, Listed, Exists
<1>6. {"j_assign", "j_direct", "j_resume", "j_undo", "popened"} \subseteq Owns BY DEF Owns
<1>7. ctl' = Raise(ctl) => ctl'.at \in {"w_job", "idle"}
  BY <1>2, Basics, RaiseLeads
<1>8. CASE CreateJob
  <2>1. /\ ctl.at = "j_create" /\ UNCHANGED proc
        /\ \/ job' = [job EXCEPT !.open = TRUE] /\ ctl' = Goto("j_assign")
           \/ UNCHANGED job /\ ctl' = Goto("j_direct")
    BY <1>8 DEF CreateJob, WindowsAt
  <2>2. /\ job' \in [attached : BOOLEAN, open : BOOLEAN]
        /\ job.open => job'.open
        /\ ctl' = Goto("j_assign") => job'.open
    BY <1>3, <2>1, <1>4, <1>6
  <2>3. Contained'
    BY <1>1, <1>4, <1>6, <2>1, <2>2 DEF IInv, Contained, NeverUncontained, Lineage, Live
  <2>. QED BY <1>1, <1>4, <1>5, <1>6, <2>1, <2>2, <2>3, OwnsStep
<1>9. CASE AssignJob
  <2>1. /\ ctl.at = "j_assign" /\ job.open
        /\ \A p \in Lineage(Replacement) : ~Live(p)
    BY <1>9 DEF AssignJob, WindowsAt, IInv, Contained
  <2>2. CASE UNCHANGED <<proc, job>> /\ ctl' = Goto("j_direct")
    <3>1. Contained'
      BY <1>1, <1>4, <1>6, <2>1, <2>2 DEF IInv, Contained, NeverUncontained, Lineage, Live
    <3>. QED BY <1>1, <1>3, <1>4, <1>5, <1>6, <2>2, <3>1, OwnsStep
  <2>3. CASE /\ proc' = [proc EXCEPT ![Replacement].job = TRUE]
             /\ \/ job' = [job EXCEPT !.attached = TRUE] /\ ctl' = Goto("j_resume")
                \/ UNCHANGED job /\ ctl' = Goto("j_undo")
    <3>1. /\ proc' \in [Procs -> Processes]
          /\ \A p \in Procs : /\ proc'[p].st = proc[p].st /\ proc'[p].pid = proc[p].pid
                              /\ proc'[p].root = proc[p].root
          /\ proc'[Replacement].job
      BY <1>3, <2>3 DEF Processes
    <3>2. job' \in [attached : BOOLEAN, open : BOOLEAN] /\ job'.open
      BY <1>3, <2>1, <2>3
    <3>3. Shrinks BY <1>3, <3>1, Numbers DEF Shrinks, Listed, Exists
    <3>4. Contained'
      BY <1>1, <1>4, <1>6, <2>1, <2>3, <3>1, <3>2 DEF Contained, NeverUncontained, Lineage, Live
    <3>. QED BY <1>1, <1>4, <1>6, <2>3, <3>2, <3>3, <3>4, OwnsStep
  <2>. QED BY <1>9, <2>2, <2>3 DEF AssignJob
<1>10. CASE Resume
  <2>1. ctl.at = "j_resume" /\ proc[Replacement].job /\ job.open /\ UNCHANGED job
    BY <1>10 DEF Resume, WindowsAt, IInv, Contained
  <2>2. CASE UNCHANGED proc /\ ctl' = Goto("j_undo")
    <3>1. Contained'
      BY <1>1, <1>4, <1>6, <2>1, <2>2 DEF IInv, Contained, NeverUncontained, Lineage, Live
    <3>. QED BY <1>1, <1>3, <1>4, <1>5, <1>6, <2>1, <2>2, <3>1, OwnsStep
  <2>3. CASE /\ proc[Replacement].st = "suspended"
             /\ proc' = [proc EXCEPT ![Replacement].st = "live"]
             /\ ctl' \in {[Goto("popened") EXCEPT !.handle = TRUE], Goto("j_undo")}
    <3>1. /\ proc' \in [Procs -> Processes]
          /\ \A p \in Procs : /\ proc'[p].job = proc[p].job /\ proc'[p].pid = proc[p].pid
                              /\ proc'[p].root = proc[p].root
          /\ \A p \in Procs \ {Replacement} : proc'[p] = proc[p]
          /\ proc'[Replacement].st = "live"
      BY <1>3, <2>3 DEF Processes
    <3>2. Shrinks BY <1>3, <2>3, <3>1, Numbers DEF Shrinks, Listed, Exists
    <3>3. /\ ctl' \in Controllers /\ ctl'.op = "loss" /\ ctl'.at \in {"popened", "j_undo"}
          /\ ctl'.restarts = ctl.restarts
      <4>1. CASE ctl' = Goto("j_undo") BY <1>4, <1>6, <4>1
      <4>2. CASE ctl' = [Goto("popened") EXCEPT !.handle = TRUE]
        <5>. DEFINE a == Goto("popened")
        <5>1. Same(ctl, a) /\ a.at = "popened"
          BY <1>6, Basics, LabelsKnown, AtChanges DEF Goto
        <5>2. ctl' = [a EXCEPT !.handle = TRUE] BY <4>2
        <5>. HIDE DEF a
        <5>3. /\ ctl' \in Controllers /\ ctl'.op = a.op /\ ctl'.at = a.at
              /\ ctl'.restarts = a.restarts
          BY <5>1, <5>2 DEF Same, Controllers
        <5>. QED BY <1>2, <5>1, <5>3 DEF Same
      <4>. QED BY <2>3, <4>1, <4>2
    <3>4. Contained'
      BY <1>1, <2>1, <3>1, <3>3 DEF IInv, Contained, NeverUncontained, Lineage, Live
    <3>. QED BY <1>1, <1>3, <1>6, <2>1, <3>2, <3>3, <3>4, OwnsStep
  <2>. QED BY <1>10, <2>2, <2>3 DEF Resume
<1>11. CASE UndoJob
  <2>1. ctl' = Raise(ctl) BY <1>11 DEF UndoJob
  <2>2. CASE proc' = Closed(proc) /\ job' = NoJob
    <3>1. /\ Shrinks
          /\ \A p \in Procs : Live(p)' => Live(p) /\ ~proc[p].job
      BY <2>2, ClosedTable
    <3>2. job' \in [attached : BOOLEAN, open : BOOLEAN] BY <2>2 DEF NoJob
    <3>3. Contained'
      BY <1>1, <1>7, <2>1, <3>1 DEF IInv, Contained, NeverUncontained, Lineage, Shrinks
    <3>. QED BY <1>1, <2>1, <3>1, <3>2, <3>3, OwnsStep
  <2>3. CASE UNCHANGED <<proc, job>>
    <3>1. Contained'
      BY <1>1, <1>7, <2>1, <2>3 DEF IInv, Contained, NeverUncontained, Lineage, Live
    <3>. QED BY <1>1, <1>3, <1>5, <2>1, <2>3, <3>1, OwnsStep
  <2>. QED BY <1>11, <2>2, <2>3 DEF UndoJob
<1>12. CASE TerminateUnassigned
  <2>1. /\ ctl' = Raise(ctl) /\ job' = NoJob
        /\ \A p \in Lineage(Replacement) : ~Live(p)
    BY <1>12 DEF TerminateUnassigned, WindowsAt, IInv, Contained
  <2>2. job' \in [attached : BOOLEAN, open : BOOLEAN] BY <2>1 DEF NoJob
  <2>3. /\ Shrinks
        /\ \A p \in Procs : proc'[p].root = proc[p].root /\ (Live(p)' => Live(p))
    <3>1. CASE UNCHANGED proc BY <1>5, <3>1 DEF Live
    <3>2. CASE proc' = [proc EXCEPT ![Replacement].st = "gone"]
      <4>1. /\ proc' \in [Procs -> Processes]
            /\ \A p \in Procs : proc'[p].pid = proc[p].pid /\ proc'[p].root = proc[p].root
            /\ \A p \in Procs \ {Replacement} : proc'[p] = proc[p]
            /\ proc'[Replacement].st = "gone"
        BY <1>3, <3>2 DEF Processes
      <4>. QED BY <1>3, <4>1, Numbers DEF Shrinks, Listed, Live, Exists
    <3>. QED BY <1>12, <3>1, <3>2 DEF TerminateUnassigned
  <2>4. Contained'
    BY <1>1, <1>7, <2>1, <2>3 DEF Contained, NeverUncontained, Lineage
  <2>. QED BY <1>1, <2>1, <2>2, <2>3, <2>4, OwnsStep
<1>. QED BY <1>8, <1>9, <1>10, <1>11, <1>12

-----------------------------------------------------------------------------
\* Windows: the predecessor is stopped by identity, the replacement by its job.

\* The predecessor's tree, stopped in the scenario or after the lane.
LEMMA ExternalStep ==
    ASSUME IInv, platform = "windows", ctl.at \in StopsExternal \cup {"terminate"}, Kept, HostKeeps,
           Same(ctl, ctl'), Returns',
           \/ Where' \in StopsExternal
           \/ ctl.op = "outer" /\ Where' = "o_stopped"
           \/ ctl.op # "outer" /\ Where' = "wait"
    PROVE  IInv'
<1>1. /\ ctl.op \in {"loss", "outer"} /\ ctl.at \notin Ended
      /\ ctl.op = "loss" => Unrestarted
  BY Basics DEF IInv, Places, Where, Unrestarted, StopsPredecessor, StopsExternal, Restarts, Owns,
                StopsJob, StopsOnLinux, Ended, Outside
<1>2. Places' /\ Where' \notin Busy
  BY <1>1 DEF Same, Places, Kept, Busy, StopsPredecessor, StopsExternal, Owns, StopsJob, Outside
<1>. QED BY <1>1, <1>2, MoveStep

LEMMA ExternalSteps ==
    ASSUME IInv, UNCHANGED after,
           \/ TerminateOnWindows \/ SnapshotTree \/ StopScriptChecks \/ StopScriptStops
           \/ VerifyTreeGone \/ LateDescendants
    PROVE  IInv'
<1>1. /\ platform = "windows" /\ ctl.at \in StopsExternal \cup {"terminate"} /\ Kept /\ HostKeeps
  BY Basics DEF TerminateOnWindows, SnapshotTree, StopScriptChecks, StopScriptStops, VerifyTreeGone,
                LateDescendants, WindowsAt, StopsExternal, Watch, Proved, Signal, Listing, Kept,
                HostKeeps
<1>2. StopsExternal \subseteq Labels /\ "o_stopped" \in Labels /\ "wait" \in Labels
  BY LabelsKnown DEF Outside, StopsPredecessor
<1>. DEFINE Goes == /\ Same(ctl, ctl') /\ Returns'
                    /\ \/ Where' \in StopsExternal
                       \/ ctl.op = "outer" /\ Where' = "o_stopped"
                       \/ ctl.op # "outer" /\ Where' = "wait"
<1>3. SUFFICES Goes BY <1>1, ExternalStep
<1>4. ASSUME NEW l \in StopsExternal \cup {"o_stopped", "wait"}, ctl' = Goto(l)
      PROVE  Same(ctl, ctl') /\ Returns' /\ Where' = l
  <2>1. Same(ctl, ctl') /\ ctl'.at = l BY <1>2, <1>4, Basics, AtChanges DEF Goto
  <2>. QED BY <2>1 DEF Where, Returns, StopsExternal
<1>5. {"w_snap", "w_stop", "w_verify", "w_late", "w_check"} \subseteq StopsExternal
  BY DEF StopsExternal
<1>6. CASE TerminateOnWindows
  <2>1. ~ctl.handle
    BY <1>6, Basics DEF TerminateOnWindows, WindowsAt, IInv, Places, Single, Unrestarted, Where,
                        StopsPredecessor, StopsExternal, Restarts, Owns, StopsJob, Outside, Ended
  <2>2. ctl' = Goto("w_snap") BY <1>6, <2>1 DEF TerminateOnWindows
  <2>. QED BY <1>4, <1>5, <2>2
<1>7. CASE SnapshotTree
  <2>. DEFINE S == {ctl.init} \cup TreeOfPid(ctl.pid)
              a == [ctl EXCEPT !.known = S]
  <2>1. ctl' = Verify(a, "w_check") BY <1>7 DEF SnapshotTree
  <2>2. S \in SUBSET Procs
    <3>1. ctl.init \in Procs BY <1>7, Basics DEF SnapshotTree, Controllers
    <3>2. TreeOfPid(ctl.pid) \subseteq Procs BY DEF TreeOfPid, ChildrenOfPid
    <3>. QED BY <3>1, <3>2
  <2>. HIDE DEF S
  <2>3. Same(ctl, a) BY <2>2, Basics, SetChanges
  <2>4. a \in Controllers /\ "w_check" \in Labels BY <1>2, <1>5, <2>3 DEF Same
  <2>. HIDE DEF a
  <2>5. Same(a, ctl') /\ ctl'.at = "verify" /\ ctl'.ret = "w_check"
    BY <2>1, <2>4, VerifyChanges
  <2>. QED BY <1>5, <2>3, <2>5 DEF Same, Where, Returns, Verified
<1>8. CASE StopScriptChecks BY <1>4, <1>5, <1>8 DEF StopScriptChecks
<1>9. CASE StopScriptStops BY <1>4, <1>5, <1>9 DEF StopScriptStops
<1>10. CASE VerifyTreeGone BY <1>4, <1>5, <1>10 DEF VerifyTreeGone
<1>11. CASE LateDescendants
  <2>1. CASE ctl.op = "outer" /\ ctl' = Goto("o_stopped") BY <1>4, <2>1
  <2>2. CASE ctl.op # "outer" /\ ctl' = [Goto("wait") EXCEPT !.known = {}]
    <3>. DEFINE a == Goto("wait")
    <3>1. Same(ctl, a) /\ a.at = "wait" BY <1>2, Basics, AtChanges DEF Goto
    <3>. HIDE DEF a
    <3>2. a \in Controllers /\ {} \in SUBSET Procs /\ ctl' = [a EXCEPT !.known = {}]
      BY <2>2, <3>1 DEF Same, a
    <3>3. Same(a, ctl') /\ ctl'.at = a.at BY <3>2, SetChanges
    <3>. QED BY <2>2, <3>1, <3>3 DEF Same, Where, Returns
  <2>. QED BY <1>11, <2>1, <2>2 DEF LateDescendants
<1>. QED BY <1>6, <1>7, <1>8, <1>9, <1>10, <1>11

\* The launch is over; the process that came of it is to be proved.
LEMMA PopenedStep ==
    ASSUME IInv, Popened, UNCHANGED after
    PROVE  IInv'
<1>1. /\ ctl.at = "popened" /\ Kept /\ HostKeeps
      /\ ctl' = Launched(proc[Replacement].pid) \/ ctl' = Raise(ctl)
  BY Basics DEF Popened, WindowsAt, Watch, Kept, HostKeeps
<1>2. ctl.op = "loss" /\ ctl.at \notin Ended BY <1>1, LossGoesOn DEF Owns
<1>3. CASE ctl' = Raise(ctl) BY <1>1, <1>2, <1>3, Basics, FailStep
<1>4. CASE ctl' = Launched(proc[Replacement].pid)
  <2>1. proc[Replacement].pid \in Nat
    BY Numbers DEF IInv, TypeOK, HostTypeOK, Processes
  <2>2. /\ ctl' \in Controllers /\ ctl'.at = "verify" /\ ctl'.ret = "commit"
        /\ ctl'.pid = proc[Replacement].pid
        /\ ctl'.op = "loss" /\ ctl'.restarts = ctl.restarts /\ ctl'.handle = ctl.handle
    BY <1>2, <1>4, <2>1, Basics, LaunchedIs
  <2>. USE <1>1, <1>2, <2>2 DEF Kept, HostKeeps, Where
  <2>3. Places' BY DEF Places, Returns, Verified, Restarts, StopsExternal, Owns, StopsJob
  <2>4. TypeOK' BY DEF IInv, TypeOK, HostTypeOK, ControlTypeOK
  <2>5. Single' BY DEF IInv, Single, Unrestarted, Exists, Lineage, StopsPredecessor, StopsExternal
  <2>6. Recorded' BY Numbers DEF IInv, Recorded, SidecarIsCurrent, Exists, Listed, Owns
  <2>7. Contained' BY DEF IInv, Contained, NeverUncontained, Lineage, Live
  <2>8. RouteProof' BY DEF IInv, RouteProof, RouteStaysRestored, Exists, Listed, Ended
  <2>. QED BY <2>3, <2>4, <2>5, <2>6, <2>7, <2>8 DEF IInv
<1>. QED BY <1>1, <1>3, <1>4

\* What stops the job belongs to a finalization or to a failed start.
LEMMA JobStopped ==
    ASSUME IInv, ctl.at \in StopsJob \cup {"w_finalize", "w_evidence"}
    PROVE  /\ platform = "windows" /\ ctl.at \notin Ended
           /\ ctl.op = "finalize" \/ (ctl.op = "undo" /\ ctl.at \in StopsJob)
BY Basics DEF IInv, Places, Where, StopsPredecessor, StopsExternal, Restarts, Owns,
              StopsJob, StopsOnLinux, StopsOnMac, Ended, Outside

LEMMA JobSteps ==
    ASSUME IInv, UNCHANGED after,
           \/ TerminateJob \/ ProveJobEmpty \/ LeaderOnly \/ ReapLeader
           \/ TerminatedReplacement \/ FinalizeWindows \/ FinalizeEvidence
    PROVE  IInv'
<1>1. ctl.at \in StopsJob \cup {"w_finalize", "w_evidence"} /\ Kept /\ HostKeeps
  BY Basics DEF TerminateJob, ProveJobEmpty, LeaderOnly, ReapLeader, TerminatedReplacement,
                FinalizeWindows, FinalizeEvidence, WindowsAt, StopsJob, Watch, JobVars, Kept, HostKeeps
<1>2. /\ platform = "windows" /\ ctl.at \notin Ended
      /\ ctl.op = "finalize" \/ (ctl.op = "undo" /\ ctl.at \in StopsJob)
  BY <1>1, JobStopped
<1>3. ASSUME ctl' = Raise(ctl) PROVE IInv'
  BY <1>1, <1>2, <1>3, Basics, FailStep
<1>4. ASSUME Same(ctl, ctl'), Returns',
             Where' \in StopsJob \/ (ctl.op = "finalize" /\ Where' = "w_evidence")
      PROVE  IInv'
  <2>1. Places' /\ Where' \notin Busy /\ Where' \notin StopsPredecessor
    BY <1>1, <1>2, <1>4 DEF Same, Places, Kept, Busy, StopsPredecessor, StopsExternal, Owns, StopsJob
  <2>. QED BY <1>1, <1>2, <1>4, <2>1, MoveStep
<1>5. StopsJob \subseteq Labels /\ "w_evidence" \in Labels BY LabelsKnown
<1>6. ASSUME NEW l \in StopsJob \cup {"w_evidence"}, ctl' = Goto(l),
             l \in StopsJob \/ ctl.op = "finalize"
      PROVE  IInv'
  <2>1. Same(ctl, ctl') /\ ctl'.at = l BY <1>5, <1>6, Basics, AtChanges DEF Goto
  <2>2. Where' = l /\ Returns' BY <2>1 DEF Where, Returns, StopsJob
  <2>. QED BY <1>4, <1>6, <2>1, <2>2
<1>7. CASE TerminateJob \/ ProveJobEmpty \/ ReapLeader
  BY <1>6, <1>7 DEF TerminateJob, ProveJobEmpty, ReapLeader, StopsJob
<1>8. CASE LeaderOnly BY <1>3, <1>8 DEF LeaderOnly
<1>9. CASE TerminatedReplacement
  <2>1. CASE ctl.op = "undo" BY <1>3, <1>9, <2>1 DEF TerminatedReplacement
  <2>2. CASE ctl.op # "undo" BY <1>2, <1>6, <1>9, <2>2 DEF TerminatedReplacement
  <2>. QED BY <2>1, <2>2
<1>10. CASE FinalizeWindows
  <2>1. ctl.op = "finalize" BY <1>2, <1>10 DEF FinalizeWindows, WindowsAt, StopsJob
  <2>2. ctl.handle \in BOOLEAN /\ ctl.proven \in BOOLEAN BY Basics DEF Controllers
  <2>3. \/ ctl' = Goto("w_job") \/ ctl' = Verify(ctl, "w_job")
        \/ ctl' = Goto("w_evidence") \/ ctl' = Raise(ctl)
    BY <1>10, <2>2 DEF FinalizeWindows
  <2>4. "w_job" \in StopsJob BY DEF StopsJob
  <2>5. CASE ctl' = Verify(ctl, "w_job")
    <3>1. Same(ctl, ctl') /\ ctl'.at = "verify" /\ ctl'.ret = "w_job"
      BY <1>5, <2>4, <2>5, Basics, VerifyChanges
    <3>2. Where' = "w_job" /\ Returns' BY <3>1 DEF Where, Returns, Verified
    <3>. QED BY <1>4, <2>4, <3>1, <3>2
  <2>. QED BY <1>3, <1>6, <2>1, <2>3, <2>4, <2>5
<1>11. CASE FinalizeEvidence
  <2>1. ctl.op = "finalize" BY <1>2, <1>11 DEF FinalizeEvidence, WindowsAt, StopsJob
  <2>2. ctl' = Cleaned(ctl) \/ ctl' = Raise(ctl) BY <1>11 DEF FinalizeEvidence
  <2>. QED BY <1>1, <1>3, <2>1, <2>2, FinalizeStep
<1>. QED BY <1>7, <1>8, <1>9, <1>10, <1>11

LEMMA CloseJobStep ==
    ASSUME IInv, CloseJob, UNCHANGED after
    PROVE  IInv'
<1>1. /\ ctl.at = "w_close"
      /\ UNCHANGED <<platform, born, harmed, sidecar, pidFile, route, after>>
  BY DEF CloseJob, WindowsAt, JobVars
<1>2. /\ platform = "windows" /\ ctl.at \notin Ended /\ ctl.op \in {"finalize", "undo"}
  BY <1>1, JobStopped DEF StopsJob
<1>3. CASE UNCHANGED <<proc, job>> /\ ctl' = Raise(ctl)
  <2>1. Kept /\ HostKeeps BY <1>1, <1>3, Basics DEF Kept, HostKeeps
  <2>. QED BY <1>2, <1>3, <2>1, Basics, FailStep
<1>4. CASE /\ proc' = Closed(proc) /\ job' = NoJob
           /\ ctl' \in {[ctl EXCEPT !.handle = FALSE, !.proven = TRUE, !.at = "w_closed"],
                        Raise(ctl)}
  <2>1. /\ ctl' \in Controllers /\ ctl'.restarts = ctl.restarts
        /\ \/ ctl'.op = ctl.op /\ ctl'.at = "w_closed" /\ ctl'.loss = ctl.loss
           \/ /\ ctl'.op = "none" /\ ctl'.at \in {"idle", "exiting"}
              /\ ctl'.loss = "failed" \/ (ctl'.loss = ctl.loss /\ ctl.op = "finalize")
    <3>1. CASE ctl' = Raise(ctl)
      <4>1. /\ ctl' \in Controllers /\ ctl'.restarts = ctl.restarts
            /\ ctl.op = "undo" => ctl'.op = "none" /\ ctl'.at = "idle" /\ ctl'.loss = "failed"
            /\ ctl.op = "finalize" =>
                  ctl'.op = "none" /\ ctl'.at = "exiting" /\ ctl'.loss = ctl.loss
        BY <1>2, <3>1, Basics, RaiseLeads
      <4>. QED BY <1>2, <4>1
    <3>2. CASE ctl' = [ctl EXCEPT !.handle = FALSE, !.proven = TRUE, !.at = "w_closed"]
      <4>. DEFINE a == [ctl EXCEPT !.handle = FALSE]
                  b == [a EXCEPT !.proven = TRUE]
      <4>1. /\ a \in Controllers /\ a.op = ctl.op /\ a.restarts = ctl.restarts
            /\ a.loss = ctl.loss
        BY Basics DEF Controllers
      <4>2. ctl' = [b EXCEPT !.at = "w_closed"] BY <3>2
      <4>. HIDE DEF a
      <4>3. Same(a, b) BY <4>1, FlagChanges
      <4>4. b \in Controllers /\ "w_closed" \in Labels BY <4>3, LabelsKnown DEF Same, StopsJob
      <4>. HIDE DEF b
      <4>5. Same(b, ctl') /\ ctl'.at = "w_closed" BY <4>2, <4>4, AtChanges
      <4>. QED BY <4>1, <4>3, <4>5 DEF Same
    <3>. QED BY <1>4, <3>1, <3>2
  <2>2. ctl.op = "finalize" => ctl.loss # "none" BY DEF IInv, Single
  <2>3. /\ Shrinks
        /\ \A p \in Procs : Live(p)' => Live(p) /\ ~proc[p].job
    BY <1>4, ClosedTable
  <2>4. job' \in [attached : BOOLEAN, open : BOOLEAN] BY <1>4 DEF NoJob
  <2>5. Contained'
    BY <1>1, <1>2, <2>1, <2>3 DEF IInv, Contained, NeverUncontained, Lineage, Shrinks
  <2>6. Places' /\ ~Unrestarted'
    BY <1>1, <1>2, <2>1, <2>2
       DEF Places, Returns, Where, Unrestarted, StopsPredecessor, StopsExternal, StopsJob, Owns
  <2>7. Where' \in {"w_closed", "idle", "exiting"} /\ ctl'.at \notin {"r_decide", "r_verify"}
    BY <2>1 DEF Where
  <2>. QED BY <1>1, <1>2, <2>1, <2>2, <2>3, <2>4, <2>5, <2>6, <2>7, Basics, ShrinkStep DEF Owns
<1>. QED BY <1>3, <1>4 DEF CloseJob

-----------------------------------------------------------------------------
\* The cleanup after the lane.

LEMMA CleanupStep ==
    ASSUME IInv, Kept, HostKeeps, ctl.op \in {"gone", "outer"}, ctl.at \notin Ended,
           Same(ctl, ctl'),
           \/ ctl'.at \in {"o_id", "o_id2", "o_term", "o_kill", "o_stop", "o_stop2", "o_children",
                           "o_leader"} /\ ctl.op = "outer"
           \/ ctl'.at = "done"
           \/ ctl'.at = "r_probe" /\ platform = "macos"
    PROVE  IInv'
<1>1. Places' /\ Where' \notin Busy /\ Where' \notin StopsPredecessor
  BY DEF Same, Places, Returns, Where, Kept, Busy, StopsPredecessor, StopsExternal, Owns, StopsJob,
         Ended, Outside
<1>. QED BY <1>1, MoveStep

LEMMA NextIs ==
    ASSUME IInv, NEW v \in {"ok", "failed"}, Next3(v)
    PROVE  /\ Same(ctl, ctl')
           /\ ctl'.at = "done" \/ (ctl'.at = "r_probe" /\ platform = "macos")
           /\ after'.route = after.route
           /\ after' \in [service : {"none", "ok", "failed"}, blind : BOOLEAN,
                          route : {"none", "ok", "failed"}]
<1>. DEFINE l == IF platform = "macos" THEN "r_probe" ELSE "done"
<1>1. ctl' = [ctl EXCEPT !.at = l] /\ after' = [after EXCEPT !.service = v]
  BY DEF Next3, Goto
<1>2. l \in Labels /\ (l = "done" \/ (l = "r_probe" /\ platform = "macos"))
  BY LabelsKnown DEF Ended
<1>. HIDE DEF l
<1>3. Same(ctl, ctl') /\ ctl'.at = l BY <1>1, <1>2, Basics, AtChanges
<1>. QED BY <1>1, <1>2, <1>3, Basics

LEMMA ReadSidecarStep ==
    ASSUME IInv, ReadSidecar
    PROVE  IInv'
<1>1. ctl.at = "o_read" /\ Kept BY DEF ReadSidecar, Quiet, Kept
<1>2. ctl.op = "gone" /\ ctl.at \notin Ended
  BY <1>1, Basics DEF IInv, Places, Where, StopsPredecessor, StopsExternal, Restarts, Owns,
                      StopsJob, StopsOnLinux, StopsOnMac, Ended, Outside
<1>3. CASE Next3("failed") /\ sidecar = Pending
  <2>1. HostKeeps BY <1>3, Basics, NextIs DEF ReadSidecar, Quiet, HostKeeps
  <2>. QED BY <1>1, <1>2, <1>3, <2>1, NextIs, CleanupStep
<1>4. CASE sidecar # Pending
  <2>. DEFINE l == IF platform = "windows" THEN "verify" ELSE "o_live"
              k == IF platform = "windows" THEN "w_snap" ELSE "o_live"
              a == [ctl EXCEPT !.op = "outer"]
              b == [a EXCEPT !.pid = proc[Target].pid]
              c == [b EXCEPT !.init = Target]
              d == [c EXCEPT !.at = l]
  <2>1. HostKeeps BY <1>4, Basics DEF ReadSidecar, Target, Quiet, HostKeeps
  <2>2. ctl' = [d EXCEPT !.ret = k] BY <1>4 DEF ReadSidecar, Target
  <2>3. sidecar \in Procs /\ proc[Target].pid \in Nat
    BY <1>4 DEF IInv, TypeOK, HostTypeOK, Processes, Target
  <2>4. /\ l \in Labels /\ k \in Labels
        /\ \/ platform = "windows" /\ l = "verify" /\ k = "w_snap"
           \/ l = "o_live" /\ k = "o_live"
    BY LabelsKnown DEF StopsExternal, Outside
  <2>5. /\ b \in Controllers /\ b.op = "outer" /\ b.restarts = ctl.restarts
        /\ b.handle = ctl.handle
    <3>1. /\ a \in Controllers /\ a.op = "outer" /\ a.restarts = ctl.restarts
          /\ a.handle = ctl.handle
      BY Basics DEF Controllers
    <3>. HIDE DEF a
    <3>. QED BY <2>3, <3>1 DEF Controllers
  <2>. HIDE DEF b, l, k
  <2>6. Same(b, c) BY <2>3, <2>5, IdentityChanges DEF Target
  <2>7. c \in Controllers BY <2>6 DEF Same
  <2>. HIDE DEF c
  <2>8. Same(c, d) /\ d.at = l BY <2>4, <2>7, AtChanges
  <2>9. d \in Controllers BY <2>8 DEF Same
  <2>. HIDE DEF d
  <2>10. Same(d, ctl') /\ ctl'.at = d.at /\ ctl'.ret = k BY <2>2, <2>4, <2>9, RetChanges
  <2>11. /\ ctl' \in Controllers /\ ctl'.op = "outer" /\ ctl'.restarts = ctl.restarts
         /\ ctl'.handle = ctl.handle /\ ctl'.at = l /\ ctl'.ret = k
    BY <2>5, <2>6, <2>8, <2>10 DEF Same
  <2>12. Places' /\ Where' \notin Busy /\ ~Unrestarted'
    BY <1>1, <2>4, <2>11
       DEF Kept, Places, Returns, Verified, Where, Unrestarted, Busy, StopsExternal, Owns, StopsJob,
           Outside
  <2>. QED BY <1>1, <1>2, <2>1, <2>11, <2>12, CalmStep
<1>. QED BY <1>3, <1>4 DEF ReadSidecar, Target

LEMMA OutsideSteps ==
    ASSUME IInv,
           \/ LookForService \/ MatchIdentity \/ SignalService \/ AwaitStop \/ CountChildren
           \/ WindowsStopped \/ Fallback \/ StopLeader
    PROVE  IInv'
<1>. DEFINE Places2 == {"o_id", "o_id2", "o_term", "o_kill", "o_stop", "o_stop2", "o_children",
                        "o_leader"}
            Typed == [service : {"none", "ok", "failed"}, blind : BOOLEAN,
                      route : {"none", "ok", "failed"}]
<1>1. /\ ctl.at \in Places2 \cup {"o_live", "o_stopped", "o_fallback"}
      /\ Kept /\ born' \subseteq Procs /\ harmed' \subseteq Procs /\ pidFile' \in Nat
      /\ route' = route
  BY Basics DEF LookForService, MatchIdentity, SignalService, AwaitStop, CountChildren,
                WindowsStopped, Fallback, StopLeader, Quiet, Proved, Signal, Listing, Kept
<1>2. ctl.op = "outer" /\ ctl.at \notin Ended
  BY <1>1, Basics DEF IInv, Places, Where, StopsPredecessor, StopsExternal, Restarts, Owns,
                      StopsJob, StopsOnLinux, StopsOnMac, Ended, Outside
<1>3. ASSUME NEW v \in {"ok", "failed"}, Next3(v) PROVE IInv'
  <2>1. HostKeeps BY <1>1, <1>3, NextIs DEF HostKeeps
  <2>. QED BY <1>1, <1>2, <1>3, <2>1, NextIs, CleanupStep
<1>4. ASSUME NEW l \in Places2 \cup {"done"}, ctl' = Goto(l),
             UNCHANGED after \/ after' = [after EXCEPT !.blind = TRUE]
                             \/ after' = [after EXCEPT !.service = "ok", !.blind = TRUE]
      PROVE  IInv'
  <2>1. l \in Labels BY LabelsKnown DEF Outside, Ended
  <2>2. Same(ctl, ctl') /\ ctl'.at = l BY <1>4, <2>1, Basics, AtChanges DEF Goto
  <2>3. after' \in Typed /\ after'.route = after.route
    <3>1. CASE UNCHANGED after \/ after' = [after EXCEPT !.blind = TRUE] BY <3>1, Basics
    <3>2. CASE after' = [after EXCEPT !.service = "ok", !.blind = TRUE]
      <4>. DEFINE a == [after EXCEPT !.service = "ok"]
      <4>1. a \in Typed /\ a.route = after.route BY Basics
      <4>2. after' = [a EXCEPT !.blind = TRUE] BY <3>2
      <4>. HIDE DEF a
      <4>. QED BY <4>1, <4>2
    <3>. QED BY <1>4, <3>1, <3>2
  <2>4. HostKeeps BY <1>1, <2>3 DEF HostKeeps
  <2>. QED BY <1>1, <1>2, <2>2, <2>4, CleanupStep
<1>5. CASE LookForService BY <1>3, <1>4, <1>5 DEF LookForService
<1>6. CASE MatchIdentity BY <1>3, <1>4, <1>6 DEF MatchIdentity
<1>7. CASE SignalService BY <1>3, <1>4, <1>7 DEF SignalService
<1>8. CASE AwaitStop BY <1>3, <1>4, <1>8 DEF AwaitStop
<1>9. CASE CountChildren BY <1>3, <1>9 DEF CountChildren
<1>10. CASE WindowsStopped BY <1>3, <1>10 DEF WindowsStopped
<1>11. CASE Fallback BY <1>3, <1>4, <1>11 DEF Fallback
<1>12. CASE StopLeader BY <1>3, <1>12 DEF StopLeader
<1>. QED BY <1>5, <1>6, <1>7, <1>8, <1>9, <1>10, <1>11, <1>12

-----------------------------------------------------------------------------
\* macOS: the route is restored over a service that is dead.

LEMMA RouteStep ==
    ASSUME IInv, Kept, ctl.at \in {"r_probe", "r_decide", "r_verify"},
           UNCHANGED <<born, harmed, pidFile>>, Same(ctl, ctl'),
           route' \in {"baseline", "away", "foreign"},
           after' \in [service : {"none", "ok", "failed"}, blind : BOOLEAN,
                       route : {"none", "ok", "failed"}],
           ctl'.at \in {"r_decide", "r_verify", "done"},
           ctl'.at \in {"r_decide", "r_verify"} \/ after'.route = "ok" =>
              \A s \in Services : ~Listed(s),
           after'.route = "ok" => route' = "baseline"
    PROVE  IInv'
<1>1. /\ platform = "macos" /\ ctl.op \in {"gone", "outer"}
  BY Basics DEF IInv, Places, Where, StopsPredecessor, StopsExternal, Restarts, Owns, StopsJob,
                StopsOnLinux, StopsOnMac
<1>. USE <1>1 DEF IInv, Kept, Same
<1>2. Places' BY DEF Places, Returns, Where, Owns, StopsJob, StopsExternal, Ended, Outside
<1>3. TypeOK' BY DEF TypeOK, HostTypeOK, ControlTypeOK
<1>4. Single' BY DEF Single, Unrestarted, Exists, Lineage, Where
<1>5. Recorded' BY DEF Recorded, SidecarIsCurrent, Exists, Listed, Where, Owns
<1>6. Contained' BY DEF Contained, NeverUncontained
<1>7. RouteProof' BY DEF RouteProof, RouteStaysRestored, Exists, Listed, Where, Ended
<1>. QED BY <1>2, <1>3, <1>4, <1>5, <1>6, <1>7

LEMMA RouteSteps ==
    ASSUME IInv, ServiceIsDead \/ Restore \/ VerifyRoute
    PROVE  IInv'
<1>. DEFINE Typed == [service : {"none", "ok", "failed"}, blind : BOOLEAN,
                      route : {"none", "ok", "failed"}]
<1>1. /\ ctl.at \in {"r_probe", "r_decide", "r_verify"}
      /\ Kept /\ UNCHANGED <<born, harmed, pidFile>>
  BY DEF ServiceIsDead, Restore, VerifyRoute, Quiet, Kept
<1>2. {"r_decide", "r_verify", "done"} \subseteq Labels BY LabelsKnown DEF Ended
<1>3. ASSUME NEW l \in {"r_decide", "r_verify", "done"}, ctl' = Goto(l)
      PROVE  Same(ctl, ctl') /\ ctl'.at = l
  BY <1>2, <1>3, Basics, AtChanges DEF Goto
<1>4. route \in {"baseline", "away", "foreign"} /\ after \in Typed
  BY Basics DEF IInv, TypeOK, HostTypeOK
<1>5. /\ ctl.at \in {"r_decide", "r_verify"} \/ after.route = "ok" =>
            \A s \in Services : ~Listed(s)
      /\ after.route = "ok" => route = "baseline"
  BY DEF IInv, RouteProof, RouteStaysRestored
<1>6. ASSUME RouteFails, UNCHANGED route PROVE IInv'
  <2>1. after' \in Typed /\ after'.route = "failed" BY <1>4, <1>6 DEF RouteFails
  <2>2. ctl' = Goto("done") BY <1>6 DEF RouteFails
  <2>. QED BY <1>1, <1>3, <1>4, <1>6, <2>1, <2>2, RouteStep
<1>7. CASE ServiceIsDead /\ ~RouteFails
  <2>1. /\ ctl.at = "r_probe" /\ sidecar # Pending /\ Listing(proc[sidecar].pid) = {}
        /\ ctl' = Goto("r_decide") /\ UNCHANGED <<route, after>>
    BY <1>7 DEF ServiceIsDead, Target
  <2>2. platform = "macos"
    BY <2>1 DEF IInv, Places, Where
  <2>3. sidecar \in Services /\ sidecar \in Procs /\ ~Listed(sidecar)
    BY <2>1, <2>2, Numbers DEF IInv, Recorded, Listing
  <2>4. \A s \in Services : ~Listed(s)
    <3>1. CASE sidecar = Initial
      <4>1. ~Listed(Replacement)
        BY <3>1 DEF IInv, Recorded, SidecarIsCurrent, Exists, Listed
      <4>. QED BY <2>3, <3>1, <4>1, Numbers
    <3>2. CASE sidecar = Replacement
      <4>1. ~Listed(Initial)
        BY <2>2, <3>2 DEF IInv, Recorded, RouteProof
      <4>. QED BY <2>3, <3>2, <4>1, Numbers
    <3>. QED BY <2>3, <3>1, <3>2, Numbers
  <2>. QED BY <1>1, <1>3, <1>4, <1>5, <2>1, <2>4, RouteStep
<1>8. CASE Restore /\ ~RouteFails
  <2>1. /\ ctl.at = "r_decide" /\ route' = "baseline" /\ ctl' = Goto("r_verify")
        /\ UNCHANGED after
    BY <1>8 DEF Restore
  <2>. QED BY <1>1, <1>3, <1>4, <1>5, <2>1, RouteStep
<1>9. CASE VerifyRoute /\ ~RouteFails
  <2>1. /\ ctl.at = "r_verify" /\ route = "baseline" /\ UNCHANGED route
        /\ ctl' = Goto("done") /\ after' = [after EXCEPT !.route = "ok"]
    BY <1>9 DEF VerifyRoute
  <2>2. after' \in Typed BY <1>4, <2>1
  <2>. QED BY <1>1, <1>3, <1>4, <1>5, <2>1, <2>2, RouteStep
<1>10. CASE RouteFails
  <2>1. UNCHANGED route \/ ctl' = Goto("r_verify")
    BY DEF ServiceIsDead, Restore, VerifyRoute
  <2>2. ctl' = Goto("r_verify") => FALSE
    BY <1>3, <1>10 DEF RouteFails
  <2>. QED BY <1>6, <1>10, <2>1, <2>2
<1>. QED BY <1>7, <1>8, <1>9, <1>10

-----------------------------------------------------------------------------
\* Steps of the machine.

\* A service is not born by itself, and what runs of the replacement's lineage
\* is in the job of what ran of it before.
Runs ==
    /\ proc' \in [Procs -> Processes]
    /\ \A s \in Services : /\ proc'[s].pid = proc[s].pid
                           /\ proc'[s].job = proc[s].job
                           /\ Listed(s)' => Listed(s)
                           /\ Exists(s)' <=> Exists(s)
    /\ ~Exists(Replacement) => proc'[Replacement] = proc[Replacement] /\ Lineage(Replacement)' = {}
    /\ \A p \in Lineage(Replacement)' :
          Live(p)' => \E q \in Lineage(Replacement) : Live(q) /\ proc'[p].job = proc[q].job

LEMMA RunStep ==
    ASSUME IInv, Runs, UNCHANGED <<ctl, job, after, platform, harmed, sidecar, pidFile, route>>,
           born' \subseteq Procs
    PROVE  IInv'
<1>. USE Numbers DEF IInv, Runs
<1>1. Places' /\ Where' = Where BY DEF Places, Returns, Where
<1>2. TypeOK' BY DEF TypeOK, HostTypeOK, ControlTypeOK
<1>3. Single' BY <1>1 DEF Single, Unrestarted
<1>4. Recorded' BY <1>1 DEF Recorded, SidecarIsCurrent
<1>5. Contained' BY DEF Contained, NeverUncontained
<1>6. RouteProof' BY <1>1 DEF RouteProof, RouteStaysRestored
<1>. QED BY <1>1, <1>2, <1>3, <1>4, <1>5, <1>6

LEMMA MachineSteps ==
    ASSUME IInv, MachineNext
    PROVE  IInv'
<1>0. /\ proc \in [Procs -> Processes] /\ born \subseteq Procs
      /\ ~Exists(Replacement) =>
            proc[Replacement] = NoProcess /\ Lineage(Replacement) = {}
      /\ UNCHANGED <<ctl, job, after>>
  BY DEF IInv, TypeOK, HostTypeOK, Single, MachineNext, controlVars
<1>1. ASSUME NEW x \in Procs, Exit(x) PROVE IInv'
  <2>1. PICK st \in {"zombie", "gone"} :
          proc' = [q \in Procs |->
                     IF q = x THEN [proc[x] EXCEPT !.st = st]
                     ELSE IF POSIX /\ proc[q].parent = x
                          THEN [proc[q] EXCEPT !.parent = Nobody]
                          ELSE proc[q]]
    BY <1>1 DEF Exit
  <2>2. proc[x].st = "live" BY <1>1 DEF Exit, Live
  <2>3. ASSUME NEW p \in Procs
        PROVE  /\ proc'[p] \in Processes
               /\ proc'[p].pid = proc[p].pid /\ proc'[p].root = proc[p].root
               /\ proc'[p].job = proc[p].job
               /\ proc'[p].st = IF p = x THEN st ELSE proc[p].st
    <3>1. proc[p] \in Processes BY <1>0
    <3>2. \/ p = x /\ proc'[p] = [proc[p] EXCEPT !.st = st]
          \/ p # x /\ proc'[p] = [proc[p] EXCEPT !.parent = Nobody]
          \/ p # x /\ proc'[p] = proc[p]
      BY <2>1
    <3>. QED BY <3>1, <3>2 DEF Processes
  <2>4. proc' \in [Procs -> Processes]
    <3>1. proc' = [p \in Procs |-> proc'[p]] BY <2>1
    <3>. QED BY <2>3, <3>1
  <2>5. Lineage(Replacement)' = Lineage(Replacement) BY <2>3 DEF Lineage
  <2>6. \A p \in Procs : (Live(p)' => Live(p)) /\ (Listed(p)' => Listed(p)) /\ (Exists(p)' <=> Exists(p))
    BY <2>2, <2>3 DEF Live, Listed, Exists
  <2>7. ~Exists(Replacement) => proc'[Replacement] = proc[Replacement]
    <3>1. ~Exists(Replacement) => Replacement # x /\ proc[Replacement].parent = Nobody
      BY <1>0, <2>2 DEF Exists, NoProcess
    <3>2. Nobody # x BY Numbers
    <3>. QED BY <2>1, <3>1, <3>2, Numbers
  <2>8. Runs BY <1>0, <2>3, <2>4, <2>5, <2>6, <2>7, Numbers DEF Runs, Lineage
  <2>. QED BY <1>0, <1>1, <2>8, RunStep DEF Exit
<1>2. ASSUME NEW x \in Procs, Collected(x) PROVE IInv'
  <2>1. proc' = [proc EXCEPT ![x].st = "gone"] /\ proc[x].st = "zombie"
    BY <1>2 DEF Collected
  <2>2. ASSUME NEW p \in Procs
        PROVE  /\ proc'[p] \in Processes
               /\ proc'[p].pid = proc[p].pid /\ proc'[p].root = proc[p].root
               /\ proc'[p].job = proc[p].job
               /\ proc'[p].st = IF p = x THEN "gone" ELSE proc[p].st
               /\ p # x => proc'[p] = proc[p]
    BY <1>0, <2>1 DEF Processes
  <2>3. proc' \in [Procs -> Processes] BY <1>0, <2>1, <2>2
  <2>4. Lineage(Replacement)' = Lineage(Replacement) BY <2>2 DEF Lineage
  <2>5. \A p \in Procs : (Live(p)' => Live(p)) /\ (Listed(p)' => Listed(p)) /\ (Exists(p)' <=> Exists(p))
    BY <2>1, <2>2 DEF Live, Listed, Exists
  <2>6. ~Exists(Replacement) => Replacement # x BY <2>1 DEF Exists
  <2>7. Runs BY <1>0, <2>2, <2>3, <2>4, <2>5, <2>6, Numbers DEF Runs, Lineage
  <2>. QED BY <1>0, <1>2, <2>7, RunStep DEF Collected
<1>3. ASSUME NEW x \in Procs, NEW c \in Descendants, Fork(x, c) PROVE IInv'
  <2>1. /\ proc[x].st = "live" /\ proc[x].root # Nobody /\ proc[c].st = "unborn"
        /\ x \in Procs /\ c \in Procs /\ c \notin Services
    BY <1>3, Numbers DEF Fork, Live
  <2>2. PICK g \in {proc[x].group, c} :
          proc' = [proc EXCEPT ![c] =
                     [st |-> "live", pid |-> c, parent |-> x, group |-> g,
                      root |-> proc[x].root, job |-> proc[x].job]]
    BY <1>3 DEF Fork
  <2>3. proc[x] \in Processes /\ c \in Nat BY <1>0, <2>1, Numbers
  <2>4. proc'[c] \in Processes /\ proc' \in [Procs -> Processes]
    <3>1. g \in Nat /\ proc[x].root \in Services \cup {Nobody} /\ proc[x].job \in BOOLEAN
      BY <2>3 DEF Processes
    <3>2. proc'[c] \in Processes BY <1>0, <2>1, <2>2, <2>3, <3>1 DEF Processes
    <3>. QED BY <1>0, <2>1, <2>2, <3>2
  <2>5. /\ proc'[c].root = proc[x].root /\ proc'[c].job = proc[x].job
        /\ \A p \in Procs : p # c => proc'[p] = proc[p]
    BY <1>0, <2>1, <2>2
  <2>6. \A s \in Services : s \in Procs /\ proc'[s] = proc[s] BY <2>1, <2>5, Numbers
  <2>7. \A p \in Lineage(Replacement)' :
          Live(p)' => \E q \in Lineage(Replacement) : Live(q) /\ proc'[p].job = proc[q].job
    <3>1. SUFFICES ASSUME NEW p \in Procs, proc'[p].root = Replacement, proc'[p].st = "live"
                   PROVE  \E q \in Procs : /\ proc[q].root = Replacement /\ proc[q].st = "live"
                                           /\ proc'[p].job = proc[q].job
      BY DEF Lineage, Live
    <3>2. CASE p = c BY <2>1, <2>5, <3>1, <3>2
    <3>3. CASE p # c BY <2>5, <3>1, <3>3
    <3>. QED BY <3>2, <3>3
  <2>8. ~Exists(Replacement) => Lineage(Replacement)' = {}
    <3>1. ASSUME ~Exists(Replacement), NEW p \in Procs, proc'[p].root = Replacement PROVE FALSE
      <4>1. \A q \in Procs : proc[q].root # Replacement BY <1>0, <3>1 DEF Lineage
      <4>. QED BY <2>1, <2>5, <3>1, <4>1
    <3>. QED BY <3>1 DEF Lineage
  <2>9. Runs
    <3>1. \A s \in Services : /\ proc'[s].pid = proc[s].pid
                              /\ proc'[s].job = proc[s].job
                              /\ Listed(s)' => Listed(s)
                              /\ Exists(s)' <=> Exists(s)
      BY <2>6 DEF Listed, Exists
    <3>. QED BY <2>4, <2>6, <2>7, <2>8, <3>1, Numbers DEF Runs
  <2>. QED BY <1>0, <1>3, <2>1, <2>9, RunStep DEF Fork
<1>4. ASSUME NEW x \in Strangers, NEW n \in Pids, StrangerStarts(x, n) PROVE IInv'
  <2>1. /\ proc' = [proc EXCEPT ![x] = [NoProcess EXCEPT !.st = "live", !.pid = n, !.group = n]]
        /\ x \in Procs /\ x \notin Services /\ n \in Nat
    BY <1>4, Numbers, HostAssumption DEF StrangerStarts
  <2>2. /\ proc'[x] \in Processes /\ proc'[x].root = Nobody
        /\ \A p \in Procs : p # x => proc'[p] = proc[p]
    BY <1>0, <2>1, Numbers DEF NoProcess, Processes
  <2>3. proc' \in [Procs -> Processes] BY <1>0, <2>1, <2>2
  <2>4. \A s \in Services : s \in Procs /\ proc'[s] = proc[s] BY <2>1, <2>2, Numbers
  <2>5. \A p \in Lineage(Replacement)' : p \in Lineage(Replacement) /\ proc'[p] = proc[p]
    BY <2>2, Numbers DEF Lineage
  <2>6. Runs
    <3>1. \A s \in Services : /\ proc'[s].pid = proc[s].pid
                              /\ proc'[s].job = proc[s].job
                              /\ Listed(s)' => Listed(s)
                              /\ Exists(s)' <=> Exists(s)
      BY <2>4 DEF Listed, Exists
    <3>2. \A p \in Lineage(Replacement)' : Live(p)' => Live(p) BY <2>5 DEF Live
    <3>3. ~Exists(Replacement) => Lineage(Replacement)' = {} BY <1>0, <2>5
    <3>. QED BY <2>3, <2>4, <2>5, <3>1, <3>2, <3>3, Numbers DEF Runs
  <2>. QED BY <1>0, <1>4, <2>1, <2>6, RunStep DEF StrangerStarts
<1>5. ASSUME NEW x \in Services, NEW r \in {"away", "foreign"}, RouteChanges(x, r)
      PROVE  IInv'
  <2>1. /\ platform = "macos" /\ Listed(x) /\ route' = r
        /\ UNCHANGED <<platform, proc, born, harmed, sidecar, pidFile, ctl, job, after>>
    BY <1>0, <1>5 DEF RouteChanges, Live, Listed
  <2>2. ctl.at \notin {"r_decide", "r_verify"} /\ after.route # "ok"
    BY <2>1 DEF IInv, RouteProof
  <2>. USE <2>1, <2>2 DEF IInv
  <2>3. Places' /\ Where' = Where BY DEF Places, Returns, Where
  <2>4. TypeOK' BY DEF TypeOK, HostTypeOK, ControlTypeOK
  <2>5. Single' BY <2>3 DEF Single, Unrestarted, Exists, Lineage
  <2>6. Recorded' BY <2>3 DEF Recorded, SidecarIsCurrent, Exists, Listed
  <2>7. Contained' BY DEF Contained, NeverUncontained, Lineage, Live
  <2>8. RouteProof' BY <2>3 DEF RouteProof, RouteStaysRestored, Exists, Listed
  <2>. QED BY <2>3, <2>4, <2>5, <2>6, <2>7, <2>8
<1>. QED BY <1>1, <1>2, <1>3, <1>4, <1>5 DEF MachineNext

-----------------------------------------------------------------------------
\* The invariant holds at the start and under every step.

LEMMA InitIInv == Init => IInv
<1>. SUFFICES ASSUME Init PROVE IInv OBVIOUS
<1>. USE DEF Init, HostInit, ControlInit, CleanupInit
<1>1. /\ ctl.at = "create" /\ ctl.ret = "idle" /\ ctl.op = "create" /\ ctl.pid = Initial
      /\ ctl.obs = Nobody /\ ctl.init = Nobody /\ ctl.repl = Nobody /\ ctl.restarts = 0
      /\ ctl.loss = "none" /\ ~ctl.handle
  OBVIOUS
<1>2. ctl \in Controllers
  <2>1. "create" \in Labels /\ "idle" \in Labels BY LabelsKnown
  <2>. QED BY <2>1, Numbers DEF Controllers
<1>3. /\ NoProcess \in Processes /\ NoProcess.st = "unborn" /\ NoProcess.root = Nobody
      /\ ~NoProcess.job /\ NoProcess.parent = Nobody
  BY Numbers DEF NoProcess, Processes
<1>4. /\ proc[Initial].st = "live" /\ proc[Initial].pid = Initial
      /\ proc[Initial].root = Initial /\ proc[Initial] \in Processes
  BY Numbers DEF NoProcess, Processes
<1>5. \A p \in Procs : p # Initial => proc[p] = NoProcess
  OBVIOUS
<1>6. proc \in [Procs -> Processes] BY <1>3, <1>4, <1>5
<1>7. \A p \in Procs : proc[p].root # Replacement BY <1>3, <1>4, <1>5, Numbers
<1>8. ~Exists(Replacement) /\ Exists(Initial) /\ Lineage(Replacement) = {}
  BY <1>3, <1>4, <1>5, <1>7, Numbers DEF Exists, Lineage
<1>9. Where = "create" BY <1>1 DEF Where
<1>10. TypeOK
  BY <1>2, <1>6, Numbers DEF TypeOK, HostTypeOK, ControlTypeOK
<1>11. Places
  BY <1>1, <1>9 DEF Places, Returns, Owns, StopsJob, StopsExternal
<1>12. Single
  BY <1>1, <1>4, <1>5, <1>8, <1>9, Numbers DEF Single, Unrestarted
<1>13. Recorded
  BY <1>1, <1>8, <1>9, Numbers DEF Recorded, SidecarIsCurrent, Owns
<1>14. Contained
  BY <1>1, <1>8 DEF Contained, NeverUncontained
<1>15. RouteProof
  BY <1>1, <1>8, <1>9 DEF RouteProof, RouteStaysRestored
<1>. QED BY <1>10, <1>11, <1>12, <1>13, <1>14, <1>15 DEF IInv

LEMMA UnchangedStep ==
    ASSUME IInv, UNCHANGED vars
    PROVE  IInv'
BY DEF IInv, TypeOK, HostTypeOK, ControlTypeOK, Places, Returns, Where, Single, Unrestarted, Exists,
       Lineage, Recorded, SidecarIsCurrent, Listed, Contained, NeverUncontained, Live, RouteProof,
       RouteStaysRestored, vars, hostVars, controlVars

LEMMA ControlSteps ==
    ASSUME IInv, ControlNext, UNCHANGED after
    PROVE  IInv'
BY CommandFailsStep, VerifySteps, CreateStep, AdoptStep, LossBeginsStep, PredecessorSteps,
   WaitDeadStep, StartBeginsStep, LaunchDetachedStep, CommitStep, ReadySteps, FinalizeBeginsStep,
   BaseFinalizeStep, LaneEndsStep
   DEF ControlNext

LEMMA WindowsSteps ==
    ASSUME IInv, WindowsNext, UNCHANGED after
    PROVE  IInv'
BY PopenedStep, ExternalSteps, JobSteps, CreateSuspendedStep, OwnsSteps, CloseJobStep
   DEF WindowsNext, JobNext

LEMMA NextIInv ==
    ASSUME IInv, [Next]_vars
    PROVE  IInv'
<1>1. CASE MachineNext BY <1>1, MachineSteps
<1>2. CASE ControlNext /\ UNCHANGED after BY <1>2, ControlSteps
<1>3. CASE LinuxNext /\ UNCHANGED after BY <1>3, LinuxSteps
<1>4. CASE MacNext /\ UNCHANGED after BY <1>4, MacSteps
<1>5. CASE WindowsNext /\ UNCHANGED after BY <1>5, WindowsSteps
<1>6. CASE CleanupNext BY <1>6, ReadSidecarStep, OutsideSteps, RouteSteps DEF CleanupNext
<1>7. CASE UNCHANGED vars BY <1>7, UnchangedStep
<1>. QED BY <1>1, <1>2, <1>3, <1>4, <1>5, <1>6, <1>7 DEF Next

\* The invariant is inductive: whatever the machine, the lane and the cleanup
\* after it do, in any order.
THEOREM Invariance == Spec => []IInv
BY InitIInv, NextIInv, PTL DEF Spec

\* The state keeps its type: what the controllers of hosted/linux.py,
\* hosted/macos.py and hosted/windows.py store is what they may store, for
\* every number of descendants, strangers and free process numbers.
THEOREM TypeCorrect == Spec => []TypeOK
<1>1. IInv => TypeOK BY DEF IInv
<1>. QED BY <1>1, Invariance, PTL

\* The identity file never names the predecessor once a replacement exists
\* (_start of hosted/cli.py), wherever the restart fails or is cut off.
THEOREM SidecarStaysCurrent == Spec => []SidecarIsCurrent
<1>1. IInv => SidecarIsCurrent BY DEF IInv, Recorded
<1>. QED BY <1>1, Invariance, PTL

\* On Windows nothing of a replacement's runs outside an open kill-on-close
\* job (windows_job.py), however many processes it forks.
THEOREM AlwaysContained == Spec => []NeverUncontained
<1>1. IInv => NeverUncontained BY DEF IInv, Contained
<1>. QED BY <1>1, Invariance, PTL

\* A default route that macos_route.py has reported restored stays restored:
\* neither service is left to change it.
THEOREM RestoredRouteStays == Spec => []RouteStaysRestored
<1>1. IInv => RouteStaysRestored BY DEF IInv, RouteProof
<1>. QED BY <1>1, Invariance, PTL
=============================================================================

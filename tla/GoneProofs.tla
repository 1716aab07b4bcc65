------------------------------ MODULE GoneProofs ------------------------------
(***************************************************************************)
(* CleanMeansGone and CleanupMeansGone of ServiceLifecycle, for any        *)
(* descendants, strangers and process numbers.                             *)
(*                                                                         *)
(* The initial service is dead before its successor is launched (Former),  *)
(* so a report is about the replacement.  What is committed carries the    *)
(* replacement's number (Paired): on Linux and macOS nobody alive under    *)
(* the number, or in the group, is no replacement alive, even if the       *)
(* identity committed was a stranger's.  On Windows a job that was empty   *)
(* and is closed leaves nobody (Emptied), because nothing of the           *)
(* replacement's ever ran outside it (NeverUncontained of ServiceProofs).  *)
(* The cleanup after the lane reads the number from the sidecar, which     *)
(* names what has the replacement's number once there is one (Paired).     *)
(***************************************************************************)
EXTENDS SignalProofs

-----------------------------------------------------------------------------
\* The inductive invariant, on top of ServiceProofs' and SignalProofs'.

\* A process that is created suspended is the replacement, on Windows.
Suspended == \A p \in Procs : proc[p].st = "suspended" => p = Replacement /\ platform = "windows"

\* The predecessor is dead before its successor is launched.
Former == ctl.restarts > 0 \/ Where = "start" => Dead(Initial)

\* The replacement's tree is its own; on macOS it leads a group of its own,
\* which nobody else can be given.
Grouped ==
    /\ Exists(Replacement) => proc[Replacement].root = Replacement
    /\ platform = "macos" /\ Exists(Replacement) =>
          proc[Replacement].group = proc[Replacement].pid /\ proc[Replacement].pid \in Services

\* What is committed, and what the sidecar names, carries the replacement's
\* number, so that nobody under the number means no replacement.
Succeeds(c) ==
    /\ c.repl # Nobody \/ c.at = "commit" =>
          Exists(Replacement) /\ c.pid = proc[Replacement].pid
    /\ c.repl # Initial
    /\ c.at = "commit" => c.obs \in Procs /\ Exists(c.obs) /\ proc[c.obs].pid = c.pid
Names(s) ==
    s # Pending =>
        /\ Exists(s)
        /\ IF Exists(Replacement) THEN proc[s].pid = proc[Replacement].pid ELSE s = Initial
Paired ==
    /\ Succeeds(ctl) /\ Names(sidecar)
    /\ ctl.op = "outer" => ctl.init = sidecar /\ ctl.pid = proc[sidecar].pid

\* The stops look at the replacement: its identity is committed, and on Linux it
\* is among the captured.
Begun == (StopsOnLinux \cup StopsOnMac) \ {"f_alive", "b_alive"}
CapturedAt == Stopping \ {"f_tree"}
Watched ==
    /\ ctl.op = "finalize" /\ Where \in Begun => ctl.repl # Nobody
    /\ ctl.at \in CapturedAt \/ (Proving /\ ctl.ret = "f_term") => ctl.repl \in ctl.known
    /\ Where \in {"w_check", "w_stop", "w_verify"} => ctl.init \in ctl.known
    /\ ctl.op = "outer" /\ ctl.at \in {"w_late", "o_stopped"} =>
          platform = "windows" /\ ~Listed(sidecar)

\* Windows: a job proved empty and closed leaves nobody behind.
Emptied ==
    /\ ctl.proven => \A p \in Lineage(Replacement) : Dead(p)
    /\ Where = "launch" => ~ctl.proven
    /\ ctl.at = "w_close" => ~Listed(Replacement)

\* The reports.
NoService == \A s \in Services : Dead(s)
Reported ==
    /\ ctl.at = "o_children" /\ ~after.blind => NoService
    /\ after.service = "ok" => ctl.op \in {"gone", "outer"}
    /\ ctl.fin = "clean" => ctl.op \in {"gone", "outer"} \/ (ctl.op = "none" /\ ctl.at = "exiting")
    /\ CleanMeansGone /\ CleanupMeansGone

Departed == Suspended /\ Former /\ Grouped /\ Paired /\ Watched /\ Emptied /\ Reported

-----------------------------------------------------------------------------
\* Who is gone stays gone.

\* A step of the process table in which nobody of the services is born: what
\* exists keeps its number, group and root and does not come back; what is new
\* is live, and the child of a live parent if it descends from the replacement.
Older(p) ==
    /\ Exists(p)' <=> Exists(p)
    /\ proc'[p].pid = proc[p].pid /\ proc'[p].group = proc[p].group
    /\ proc'[p].root = proc[p].root
    /\ Dead(p) => Dead(p)'
    /\ Listed(p)' => Listed(p)
    /\ proc'[p].st = "suspended" => proc[p].st = "suspended"
Newer(p) ==
    /\ ~Exists(p) /\ p \notin Services /\ proc'[p].st = "live"
    /\ proc'[p].root = Replacement =>
          \E q \in Lineage(Replacement) :
             Live(q) /\ (proc'[p].group = proc[q].group \/ proc'[p].group \notin Services)
Ages == \A p \in Procs : Older(p) \/ Newer(p)

\* What a finalization certifies.
Cleared ==
    /\ NoService
    /\ platform = "windows" => \A p \in Lineage(Replacement) : Dead(p)
    /\ platform = "macos" =>
          \A p \in Lineage(Replacement) :
             proc[p].group = proc[Replacement].group => Dead(p)

LEMMA AgesKeeps ==
    ASSUME IInv, Departed, Ages, UNCHANGED platform
    PROVE  /\ Suspended' /\ Grouped'
           /\ \A p \in Procs : Exists(p) => Older(p)
           /\ \A s \in Services : Older(s)
           /\ NoService => NoService'
           /\ (\A p \in Lineage(Replacement) : Dead(p)) =>
                 (\A p \in Lineage(Replacement) : Dead(p))'
           /\ Cleared => Cleared'
<1>. USE DEF Departed
<1>0. Initial \in Services /\ Replacement \in Services /\ Services \subseteq Procs
  BY Numbers DEF Services
<1>1. \A p \in Procs : Exists(p) => Older(p) BY DEF Ages, Newer
<1>2. \A s \in Services : Older(s) BY <1>0 DEF Ages, Newer
<1>3. Suspended'
  <2>1. ASSUME NEW p \in Procs, proc'[p].st = "suspended" PROVE proc[p].st = "suspended"
    BY <2>1 DEF Ages, Older, Newer
  <2>. QED BY <2>1 DEF Suspended
<1>4. Grouped'
  BY <1>0, <1>2 DEF Grouped, Older
<1>5. NoService => NoService' BY <1>2 DEF NoService, Older
<1>6. ASSUME \A p \in Lineage(Replacement) : Dead(p), NEW p \in Procs, proc'[p].root = Replacement
      PROVE  Dead(p)'
  <2>1. ~Newer(p) BY <1>6 DEF Newer, Dead, Live
  <2>2. Older(p) BY <2>1 DEF Ages
  <2>. QED BY <1>6, <2>2 DEF Older, Lineage
<1>7. ASSUME Cleared, platform = "macos", NEW p \in Procs, proc'[p].root = Replacement,
             proc'[p].group = proc'[Replacement].group
      PROVE  Dead(p)'
  <2>1. CASE Older(p)
    <3>1. Older(Replacement) BY <1>0, <1>2
    <3>. QED BY <1>7, <2>1, <3>1 DEF Older, Lineage, Cleared
  <2>2. CASE Newer(p)
    <3>1. PICK q \in Lineage(Replacement) :
             Live(q) /\ (proc'[p].group = proc[q].group \/ proc'[p].group \notin Services)
      BY <1>7, <2>2 DEF Newer
    <3>2. Older(Replacement) BY <1>0, <1>2
    <3>3. Exists(Replacement) => proc[Replacement].group \in Services BY <1>7 DEF Grouped
    <3>4. Exists(Replacement) BY <3>1 DEF IInv, Single
    <3>5. proc'[p].group = proc[Replacement].group BY <1>7, <3>2 DEF Older
    <3>. QED BY <1>7, <3>1, <3>3, <3>4, <3>5 DEF Cleared, Dead, Live
  <2>. QED BY <2>1, <2>2 DEF Ages
<1>8. Cleared => Cleared'
  <2>1. platform' = platform OBVIOUS
  <2>. QED BY <1>5, <1>6, <1>7, <2>1 DEF Cleared, Lineage
<1>9. (\A p \in Lineage(Replacement) : Dead(p)) => (\A p \in Lineage(Replacement) : Dead(p))'
  BY <1>6 DEF Lineage
<1>. QED BY <1>1, <1>2, <1>3, <1>4, <1>5, <1>8, <1>9

-----------------------------------------------------------------------------
\* Steps of the controller.

LEMMA GoneStep ==
    ASSUME IInv, IInv', Departed, Ages, UNCHANGED platform,
           Succeeds(ctl'), Names(sidecar'),
           ctl'.restarts > 0 \/ Where' = "start" =>
              ctl.restarts > 0 \/ Where = "start" \/ Dead(Initial),
           ctl'.op = "outer" => /\ sidecar # Pending /\ sidecar' = sidecar
                                /\ ctl'.init = sidecar /\ ctl'.pid = proc[sidecar].pid,
           ctl'.proven => ctl.proven \/ (\A p \in Lineage(Replacement) : Dead(p))',
           Where' = "launch" => ~ctl'.proven, ctl'.at = "w_close" => ~Listed(Replacement),
           Watched', Reported'
    PROVE  Departed'
<1>. USE DEF Departed
<1>0. Initial \in Services /\ Replacement \in Services /\ Services \subseteq Procs
  BY Numbers DEF Services
<1>1. /\ Suspended' /\ Grouped'
      /\ \A p \in Procs : Exists(p) => Older(p)
      /\ \A s \in Services : Older(s)
      /\ (\A p \in Lineage(Replacement) : Dead(p)) =>
            (\A p \in Lineage(Replacement) : Dead(p))'
  BY AgesKeeps
<1>2. Former' BY <1>0, <1>1 DEF Former, Older
<1>3. Paired'
  <2>1. Older(Replacement) BY <1>0, <1>1
  <2>2. Succeeds(ctl)' BY <1>1, <2>1 DEF Succeeds, Older
  <2>3. PICK s \in Procs \cup {Pending} : s = sidecar' BY DEF IInv, TypeOK, HostTypeOK
  <2>4. s # Pending => Older(s) BY <1>1, <2>3 DEF Names
  <2>5. Names(sidecar)' BY <2>1, <2>3, <2>4 DEF Names, Older
  <2>6. ctl'.op = "outer" => ctl'.init = sidecar' /\ ctl'.pid = proc'[sidecar'].pid
    BY <2>3, <2>4 DEF Older
  <2>. QED BY <2>2, <2>5, <2>6 DEF Paired
<1>4. Emptied'
  <2>1. Older(Replacement) BY <1>0, <1>1
  <2>2. ctl'.at = "w_close" => ~Listed(Replacement)' BY <2>1 DEF Older
  <2>. QED BY <1>1, <2>2 DEF Emptied
<1>. QED BY <1>1, <1>2, <1>3, <1>4

\* A lane at work has not reported anything yet.
LEMMA Unreported ==
    ASSUME Departed, InLane, ctl.at # "exiting"
    PROVE  ctl.fin # "clean" /\ after.service # "ok"
BY DEF Departed, Reported, InLane

LEMMA LaneReports ==
    ASSUME Departed, InLane, ctl.at # "exiting", UNCHANGED after,
           ctl'.fin # "clean", ctl'.at # "o_children"
    PROVE  Reported'
BY Unreported DEF Reported, CleanMeansGone, CleanupMeansGone

\* What the invariant sees of a controller besides its place and what it knows.
Steady(c, d) ==
    /\ d.pid = c.pid /\ d.op = c.op /\ d.restarts = c.restarts
    /\ d.init = c.init /\ d.repl = c.repl /\ d.proven = c.proven /\ d.fin = c.fin

LEMMA GotoSteady ==
    ASSUME NEW c \in Controllers, NEW l \in Labels, NEW d, d = [c EXCEPT !.at = l]
    PROVE  Steady(c, d) /\ d.known = c.known /\ d.at = l /\ d.ret = c.ret
BY DEF Steady, Controllers

LEMMA VerifySteady ==
    ASSUME NEW c \in Controllers, NEW l \in Labels, NEW d, d = Verify(c, l)
    PROVE  Steady(c, d) /\ d.known = c.known /\ d.at = "verify" /\ d.ret = l
BY DEF Steady, Controllers, Verify

\* What a rest, a success and an exception leave of it.
LEMMA IdleSteady ==
    ASSUME NEW c \in Controllers, NEW d, d = Idle(c)
    PROVE  /\ d \in Controllers /\ d.pid = c.pid /\ d.restarts = c.restarts
           /\ d.init = c.init /\ d.repl = c.repl /\ d.proven = c.proven /\ d.fin = c.fin
           /\ d.at = "idle" /\ d.op = "none"
<1>1. d \in Controllers /\ d.at = "idle" /\ d.op = "none" /\ d.pid = c.pid
      /\ d.restarts = c.restarts
  BY IdleKeeps
<1>. DEFINE e == [c EXCEPT !.at = "idle", !.ret = "idle", !.op = "none", !.obs = Nobody]
            f == [e EXCEPT !.known = {}, !.todo = {}, !.owned = FALSE]
<1>2. e.init = c.init /\ e.repl = c.repl /\ e.proven = c.proven /\ e.fin = c.fin
  BY DEF Controllers
<1>3. DOMAIN e = DOMAIN c OBVIOUS
<1>4. d = [f EXCEPT !.listed = {}, !.rest = {}] BY DEF Idle
<1>. HIDE DEF e
<1>5. f.init = e.init /\ f.repl = e.repl /\ f.proven = e.proven /\ f.fin = e.fin
  BY <1>3 DEF Controllers
<1>6. DOMAIN f = DOMAIN c BY <1>3
<1>. HIDE DEF f
<1>7. d.init = f.init /\ d.repl = f.repl /\ d.proven = f.proven /\ d.fin = f.fin
  BY <1>4, <1>6 DEF Controllers
<1>. QED BY <1>1, <1>2, <1>5, <1>7

LEMMA CleanedSteady ==
    ASSUME NEW c \in Controllers, NEW d, d = Cleaned(c)
    PROVE  /\ d.pid = c.pid /\ d.restarts = c.restarts
           /\ d.init = c.init /\ d.repl = c.repl /\ d.proven = c.proven /\ d.fin = "clean"
           /\ d.at = "exiting" /\ d.op = "none"
<1>. DEFINE i == Idle(c)
<1>1. /\ i \in Controllers /\ i.pid = c.pid /\ i.restarts = c.restarts
      /\ i.init = c.init /\ i.repl = c.repl /\ i.proven = c.proven
      /\ i.at = "idle" /\ i.op = "none"
  BY IdleSteady
<1>2. d = [i EXCEPT !.at = "exiting", !.fin = "clean"] BY DEF Cleaned
<1>. HIDE DEF i
<1>. QED BY <1>1, <1>2 DEF Controllers

LEMMA RaiseSteady ==
    ASSUME NEW c \in Controllers, c.op \notin {"none", "gone"}, NEW d, d = Raise(c)
    PROVE  /\ d.pid = c.pid /\ d.restarts = c.restarts
           /\ d.init = c.init /\ d.repl = c.repl /\ d.proven = c.proven
           /\ d.fin \in {c.fin, "failed"}
           /\ d.at \in {"exiting", "idle", "w_job", "o_fallback"}
           /\ c.op = "outer" => d.op = "outer" /\ d.at = "o_fallback" /\ d.fin = c.fin
           /\ c.op # "outer" => d.op \in {"none", "undo"} /\ d.at # "o_fallback"
<1>. DEFINE i == Idle(c)
<1>1. /\ i \in Controllers /\ i.pid = c.pid /\ i.restarts = c.restarts
      /\ i.init = c.init /\ i.repl = c.repl /\ i.proven = c.proven /\ i.fin = c.fin
      /\ i.at = "idle" /\ i.op = "none"
  BY IdleSteady
<1>. HIDE DEF i
<1>. c.handle \in BOOLEAN /\ c.op \in {"create", "none", "loss", "undo", "finalize", "gone", "outer"}
  BY DEF Controllers
<1>2. CASE c.op = "create"
  <2>1. d = [i EXCEPT !.at = "exiting"] BY <1>2 DEF Raise, i
  <2>. QED BY <1>1, <1>2, <2>1 DEF Controllers
<1>3. CASE c.op = "loss" /\ c.handle
  <2>1. d = [c EXCEPT !.op = "undo", !.at = "w_job"] BY <1>3 DEF Raise
  <2>. QED BY <1>3, <2>1 DEF Controllers
<1>4. CASE c.op = "undo" \/ (c.op = "loss" /\ ~c.handle)
  <2>1. d = [i EXCEPT !.loss = "failed"] BY <1>4 DEF Raise, i
  <2>. QED BY <1>1, <1>4, <2>1 DEF Controllers
<1>5. CASE c.op = "finalize"
  <2>1. d = [i EXCEPT !.at = "exiting", !.fin = "failed"] BY <1>5 DEF Raise, i
  <2>. QED BY <1>1, <1>5, <2>1 DEF Controllers
<1>6. CASE c.op = "outer"
  <2>1. d = [c EXCEPT !.at = "o_fallback"] BY <1>6 DEF Raise
  <2>. QED BY <1>6, <2>1 DEF Controllers
<1>. QED BY <1>2, <1>3, <1>4, <1>5, <1>6

\* A step that takes no notice of the machine.
LEMMA SameAges ==
    ASSUME UNCHANGED proc
    PROVE  Ages
BY DEF Ages, Older, Exists, Dead, Listed

\* The places where the invariant says something of the controller's memory.
Notable == CapturedAt \cup {"commit", "w_close", "w_check", "w_stop", "w_verify", "o_children"}

\* A step of the lane to anywhere else.
LEMMA CalmGone ==
    ASSUME IInv, IInv', Departed, InLane, ctl.at # "exiting", Ages,
           UNCHANGED <<platform, after>>,
           sidecar' \in {sidecar, Pending} \/ (sidecar' = Initial /\ ~Exists(Replacement)),
           ctl'.restarts > 0 \/ Where' = "start" =>
              ctl.restarts > 0 \/ Where = "start" \/ Dead(Initial),
           ctl'.repl = Nobody \/ (ctl'.repl = ctl.repl /\ ctl'.pid = ctl.pid),
           ctl'.op \notin {"gone", "outer"}, ctl'.fin # "clean",
           ctl'.proven => ctl.proven, Where' = "launch" => ~ctl'.proven,
           ctl'.at \notin Notable, Proving' => ctl'.ret \notin {"f_term", "w_check"},
           ctl'.op = "finalize" /\ Where' \in Begun => ctl'.repl # Nobody
    PROVE  Departed'
<1>0. Proving' => ctl'.ret \in Verified BY DEF IInv, Places, Returns, Proving
<1>1. Watched' BY <1>0 DEF Watched, Notable, Where, Proving, Verified
<1>2. Reported' BY LaneReports DEF Notable
<1>3. Succeeds(ctl') BY Numbers DEF Departed, Paired, Succeeds, Notable
<1>4. Names(sidecar') BY DEF Departed, Paired, Names, IInv, Single
<1>. QED BY <1>1, <1>2, <1>3, <1>4, GoneStep DEF Notable

\* The same, where only the place changes.
LEMMA SteadyGone ==
    ASSUME IInv, IInv', Departed, InLane, ctl.at # "exiting", Ages, Steady(ctl, ctl'),
           UNCHANGED <<platform, after, sidecar>>,
           Where' \notin {"start", "launch"},
           ctl'.at \notin Notable, Proving' => ctl'.ret \notin {"f_term", "w_check"},
           ctl'.op = "finalize" /\ Where' \in Begun => ctl'.repl # Nobody
    PROVE  Departed'
<1>1. ctl.fin # "clean" BY Unreported
<1>. QED BY <1>1, CalmGone DEF Steady, InLane

\* An exception of the lane.
LEMMA RaiseGone ==
    ASSUME IInv, IInv', Departed, InLane, ctl.at # "exiting", ctl.op # "none", Ages,
           UNCHANGED <<platform, after>>,
           sidecar' \in {sidecar, Pending} \/ (sidecar' = Initial /\ ~Exists(Replacement)),
           NEW c \in Controllers, ctl' = Raise(c), c.op = ctl.op, c.fin = ctl.fin,
           c.repl = ctl.repl, c.pid = ctl.pid, c.proven => ctl.proven,
           c.restarts > 0 => ctl.restarts > 0 \/ Where = "start" \/ Dead(Initial)
    PROVE  Departed'
<1>1. /\ ctl'.pid = c.pid /\ ctl'.restarts = c.restarts
      /\ ctl'.init = c.init /\ ctl'.repl = c.repl /\ ctl'.proven = c.proven
      /\ ctl'.fin \in {c.fin, "failed"} /\ ctl'.at \in {"exiting", "idle", "w_job"}
      /\ ctl'.op \in {"none", "undo"}
  BY RaiseSteady DEF InLane
<1>2. ctl.fin # "clean" BY Unreported
<1>3. Where' = ctl'.at /\ ~Proving' BY <1>1 DEF Where, Proving
<1>4. ctl'.at \notin Notable BY <1>1 DEF Notable, CapturedAt, Stopping, StopsOnLinux
<1>. QED BY <1>1, <1>2, <1>3, <1>4, CalmGone

\* A step of the cleanup after the lane.
LEMMA OutsideGone ==
    ASSUME IInv, IInv', Sights, Departed, ctl.op \in {"gone", "outer"}, Steady(ctl, ctl'), Ages,
           UNCHANGED <<platform, sidecar>>,
           Where' \in {"w_check", "w_stop", "w_verify"} => ctl'.init \in ctl'.known,
           ctl.op = "outer" /\ ctl'.at \in {"w_late", "o_stopped"} =>
              platform = "windows" /\ ~Listed(sidecar),
           ctl'.at = "o_children" /\ ~after'.blind => NoService,
           after'.service = "ok" /\ ~after'.blind =>
              NoService \/ (after.service = "ok" /\ ~after.blind)
    PROVE  Departed'
<1>. USE DEF Departed, Steady
<1>1. Where' \in Outside \cup {"o_read"}
  BY DEF IInv, Places, Outside
<1>2. /\ ctl'.at \notin CapturedAt \cup {"commit", "w_close"}
      /\ Proving' => ctl'.ret # "f_term"
      /\ Where' \notin {"start", "launch"}
  BY <1>1 DEF Where, Proving, CapturedAt, Stopping, StopsOnLinux, Outside, Ended, StopsExternal
<1>3. /\ NoService => NoService'
      /\ Cleared => Cleared'
      /\ \A p \in Procs : Exists(p) => Older(p)
  BY AgesKeeps
<1>4. sidecar \in Procs \cup {Pending} BY DEF IInv, TypeOK, HostTypeOK
<1>5. ctl.op = "outer" => sidecar # Pending BY DEF Sights, Expecting
<1>6. ctl.op = "outer" => (Listed(sidecar)' => Listed(sidecar))
  BY <1>3, <1>4, <1>5 DEF Paired, Names, Older, Listed
<1>7. Watched' BY <1>2, <1>6 DEF Watched
<1>8. CleanMeansGone'
  BY <1>3 DEF Reported, CleanMeansGone, Cleared, NoService, Lineage
<1>9. CleanupMeansGone'
  BY <1>3 DEF Reported, CleanupMeansGone, NoService
<1>10. Reported' BY <1>3, <1>8, <1>9 DEF Reported
<1>11. Succeeds(ctl') /\ Names(sidecar') BY <1>2 DEF Paired, Succeeds
<1>. QED BY <1>2, <1>5, <1>7, <1>10, <1>11, GoneStep DEF Paired

LEMMA CommandFailsGone ==
    ASSUME IInv, IInv', Sights, Departed, CommandFails, UNCHANGED after
    PROVE  Departed'
<1>1. /\ ctl.at \in Commands /\ ctl' = Raise(ctl)
      /\ UNCHANGED <<platform, proc, sidecar>>
  BY DEF CommandFails, hostVars
<1>2. ctl.op \notin {"none", "gone"} /\ ctl.at # "exiting"
  BY <1>1, Basics DEF IInv, Places, Returns, Verified, Where, Commands, Ended
<1>3. Ages BY <1>1, SameAges
<1>4. CASE ctl.op = "outer"
  <2>1. ctl' = [ctl EXCEPT !.at = "o_fallback"] BY <1>1, <1>4 DEF Raise
  <2>2. Steady(ctl, ctl') /\ ctl'.at = "o_fallback"
    BY <2>1, Basics, LabelsKnown, GotoSteady DEF Outside
  <2>3. Where' = "o_fallback" BY <2>2 DEF Where
  <2>. QED BY <1>1, <1>3, <1>4, <2>2, <2>3, OutsideGone
<1>5. CASE ctl.op # "outer"
  BY <1>1, <1>2, <1>3, <1>5, Basics, RaiseGone DEF InLane
<1>. QED BY <1>4, <1>5

LEMMA ExecutableGone ==
    ASSUME IInv, IInv', Sights, Departed, VerifyExecutable, UNCHANGED after
    PROVE  Departed'
<1>1. /\ platform = "linux" /\ ctl.at = "verify" /\ ctl' = Goto("stat")
      /\ UNCHANGED <<platform, proc, sidecar>>
  BY DEF VerifyExecutable, hostVars
<1>2. Steady(ctl, ctl') /\ ctl'.known = ctl.known /\ ctl'.at = "stat" /\ ctl'.ret = ctl.ret
  BY <1>1, Basics, LabelsKnown, GotoSteady DEF Goto
<1>3. Ages BY <1>1, SameAges
<1>4. InLane BY <1>1, ProvingOnLinux DEF Proving, InLane
<1>5. Where' = Where BY <1>1, <1>2 DEF Where
<1>6. ctl.fin # "clean" /\ Watched BY <1>1, <1>4, Unreported DEF Departed
<1>7. Watched'
  BY <1>1, <1>2, <1>5, <1>6 DEF Watched, Steady, CapturedAt, Stopping, StopsOnLinux, Proving
<1>8. Reported' BY <1>1, <1>2, <1>4, <1>6, LaneReports DEF Steady
<1>9. Succeeds(ctl') /\ Names(sidecar')
  BY <1>1, <1>2 DEF Departed, Paired, Succeeds, Steady
<1>. QED
  BY <1>1, <1>2, <1>3, <1>4, <1>5, <1>7, <1>8, <1>9, GoneStep DEF Steady, InLane, Departed, Emptied

\* What is proved before it is committed has the number that was launched.
LEMMA VerifyGone ==
    ASSUME IInv, IInv', Sights, Departed, VerifyIdentity, UNCHANGED after
    PROVE  Departed'
<1>0. PICK h \in Procs : h = Holder(ctl.pid) BY IdentityRead
<1>1. /\ Proving /\ ctl' = [ctl EXCEPT !.at = ctl.ret, !.obs = h]
      /\ UNCHANGED <<platform, proc, sidecar>> /\ Listed(h) /\ proc[h].pid = ctl.pid
      /\ ctl.ret \in Verified
  BY <1>0, IdentityRead DEF VerifyIdentity, IInv, Places, Returns, Proving
<1>2. /\ Steady(ctl, ctl') /\ ctl'.known = ctl.known
      /\ ctl'.at = ctl.ret /\ ctl'.ret = ctl.ret /\ ctl'.obs = h
  BY <1>1, Basics DEF Controllers, Steady
<1>3. Ages BY <1>1, SameAges
<1>4. Where = ctl.ret /\ Where' = ctl.ret BY <1>1, <1>2 DEF Where, Proving, Verified
<1>5. CASE ctl.op = "outer"
  <2>1. /\ ctl'.at \notin {"w_late", "o_stopped", "o_children"}
        /\ Where' \in {"w_check", "w_stop", "w_verify"} => ctl'.init \in ctl'.known
    BY <1>1, <1>2, <1>4 DEF Verified, Departed, Watched, Steady
  <2>. QED BY <1>1, <1>2, <1>3, <1>5, <2>1, OutsideGone
<1>6. CASE ctl.op # "outer"
  <2>1. ctl.op # "gone" /\ ctl.at # "exiting"
    BY <1>1, <1>4 DEF Proving, Verified, IInv, Places, Ended
  <2>2. InLane /\ ctl.fin # "clean" BY <1>6, <2>1, Unreported DEF InLane
  <2>3. Watched'
    BY <1>1, <1>2, <1>4, <1>6 DEF Departed, Watched, Steady, Proving, CapturedAt, Stopping,
       StopsOnLinux, Verified
  <2>4. Reported' BY <1>1, <1>2, <2>1, <2>2, LaneReports DEF Steady, Verified
  <2>5. Succeeds(ctl')
    <3>1. ctl'.at = "commit" => Exists(Replacement) /\ ctl.pid = proc[Replacement].pid
      BY <1>1, <1>2 DEF IInv, Recorded, Proving
    <3>2. Exists(h) BY <1>1 DEF Listed, Exists
    <3>. QED BY <1>1, <1>2, <3>1, <3>2 DEF Departed, Paired, Succeeds, Steady
  <2>6. Names(sidecar') BY <1>1 DEF Departed, Paired
  <2>7. Where' \notin {"launch"} /\ ctl'.at # "w_close" BY <1>2, <1>4, <1>1 DEF Verified
  <2>. QED BY <1>1, <1>2, <1>3, <1>4, <2>2, <2>3, <2>4, <2>5, <2>6, <2>7, GoneStep
           DEF Steady, InLane
<1>. QED BY <1>5, <1>6

LEMMA CreateGone ==
    ASSUME IInv, IInv', Sights, Departed, Create, UNCHANGED after
    PROVE  Departed'
<1>. DEFINE a == Verify(ctl, "adopt")
            i == IF platform = "macos" THEN Nobody ELSE sidecar
<1>1. /\ ctl.at = "create" /\ ctl' = [a EXCEPT !.init = i]
      /\ UNCHANGED <<platform, proc, sidecar>>
  BY DEF Create
<1>2. Same(ctl, a) /\ Steady(ctl, a) /\ a.at = "verify" /\ a.ret = "adopt"
  BY Basics, LabelsKnown, VerifyChanges, VerifySteady
<1>3. a \in Controllers BY <1>2 DEF Same
<1>. HIDE DEF a, i
<1>4. /\ ctl'.at = "verify" /\ ctl'.ret = "adopt" /\ ctl'.op = ctl.op /\ ctl'.pid = ctl.pid
      /\ ctl'.repl = ctl.repl /\ ctl'.restarts = ctl.restarts /\ ctl'.proven = ctl.proven
      /\ ctl'.fin = ctl.fin
  BY <1>1, <1>2, <1>3 DEF Steady, Controllers
<1>5. ctl.op = "create" BY <1>1, Constructing
<1>6. Ages BY <1>1, SameAges
<1>7. ctl.fin # "clean" BY <1>1, <1>5, Unreported DEF InLane
<1>8. Where' = "adopt" /\ ctl'.at \notin Notable
  BY <1>4 DEF Where, Notable, CapturedAt, Stopping, StopsOnLinux
<1>. QED BY <1>1, <1>4, <1>5, <1>6, <1>7, <1>8, CalmGone DEF InLane

LEMMA AdoptGone ==
    ASSUME IInv, IInv', Sights, Departed, Adopt, UNCHANGED after
    PROVE  Departed'
<1>. DEFINE a == [ctl EXCEPT !.init = ctl.obs]
            c == Idle(a)
<1>1. /\ ctl.at = "adopt" /\ UNCHANGED <<platform, proc>>
      /\ \/ ctl' = c /\ (platform = "linux" => UNCHANGED sidecar)
                     /\ (platform # "linux" => sidecar' = ctl.obs)
         \/ ctl' = Raise(ctl) /\ UNCHANGED sidecar
  BY DEF Adopt
<1>2. a \in Controllers
      /\ a.pid = ctl.pid /\ a.repl = ctl.repl /\ a.restarts = ctl.restarts
      /\ a.proven = ctl.proven /\ a.fin = ctl.fin
  BY Basics DEF Controllers, Steady
<1>. HIDE DEF a
<1>3. /\ c.pid = ctl.pid /\ c.repl = ctl.repl /\ c.restarts = ctl.restarts
      /\ c.proven = ctl.proven /\ c.fin = ctl.fin /\ c.at = "idle" /\ c.op = "none"
  BY <1>2, IdleSteady
<1>. HIDE DEF c
<1>4. ctl.op = "create" /\ ~Exists(Replacement) BY <1>1, Constructing
<1>5. Ages BY <1>1, SameAges
<1>6. ctl.fin # "clean" BY <1>1, <1>4, Unreported DEF InLane
<1>7. CASE ctl' = Raise(ctl) /\ UNCHANGED sidecar
  BY <1>1, <1>4, <1>5, <1>7, Basics, RaiseGone DEF InLane
<1>8. CASE /\ ctl' = c /\ (platform = "linux" => UNCHANGED sidecar)
           /\ (platform # "linux" => sidecar' = ctl.obs)
  <2>1. platform # "linux" => sidecar' = Initial
    BY <1>1, <1>8 DEF IInv, Recorded
  <2>2. Where' = "idle" /\ ~Proving' /\ ctl'.at \notin Notable
    BY <1>3, <1>8 DEF Where, Proving, Notable, CapturedAt, Stopping, StopsOnLinux
  <2>. QED BY <1>1, <1>3, <1>4, <1>5, <1>6, <1>8, <2>1, <2>2, CalmGone DEF InLane
<1>. QED BY <1>1, <1>7, <1>8

LEMMA LossBeginsGone ==
    ASSUME IInv, IInv', Sights, Departed, LossBegins, UNCHANGED after
    PROVE  Departed'
<1>. DEFINE l == IF platform = "linux" THEN "again" ELSE "terminate"
            a == Verify(ctl, l)
<1>1. /\ ctl.at = "idle" /\ ctl' = [a EXCEPT !.op = "loss"]
      /\ UNCHANGED <<platform, proc, sidecar>>
  BY DEF LossBegins, hostVars
<1>2. l \in Labels /\ l \in {"again", "terminate"} BY LabelsKnown DEF StopsPredecessor
<1>. HIDE DEF l
<1>3. Same(ctl, a) /\ Steady(ctl, a) /\ a.at = "verify" /\ a.ret = l
  BY <1>2, Basics, VerifyChanges, VerifySteady
<1>4. a \in Controllers BY <1>3 DEF Same
<1>. HIDE DEF a
<1>5. /\ ctl'.at = "verify" /\ ctl'.ret = l /\ ctl'.op = "loss"
      /\ ctl'.pid = ctl.pid /\ ctl'.repl = ctl.repl /\ ctl'.restarts = ctl.restarts
      /\ ctl'.proven = ctl.proven /\ ctl'.fin = ctl.fin
  BY <1>1, <1>3, <1>4 DEF Steady, Controllers
<1>6. InLane
  BY <1>1, Basics DEF InLane, IInv, Places, Where, Ended, Outside, StopsExternal
<1>7. Ages /\ ctl.fin # "clean" BY <1>1, <1>6, SameAges, Unreported
<1>8. Where' = l /\ ctl'.at \notin Notable
  BY <1>5 DEF Where, Notable, CapturedAt, Stopping, StopsOnLinux
<1>. QED BY <1>1, <1>2, <1>5, <1>6, <1>7, <1>8, CalmGone

\* Steps of the scenario that only move the controller.
LEMMA ScenarioGone ==
    ASSUME IInv, IInv', Sights, Departed, UNCHANGED after,
           VerifyAgain \/ KillPredecessor \/ WritePid \/ Ready
    PROVE  Departed'
<1>1. /\ ctl.at \in {"again", "kill", "pid", "ready"}
      /\ UNCHANGED <<platform, proc, sidecar>>
      /\ \/ ctl' \in {Goto("wait"), Goto("ready")}
         \/ ctl' \in {Verify(ctl, "kill"), Verify(ctl, "restarted")}
  BY DEF VerifyAgain, KillPredecessor, WritePid, Ready, hostVars
<1>2. {"wait", "ready", "kill", "restarted"} \subseteq Labels
  BY LabelsKnown DEF StopsPredecessor, Restarts
<1>3. /\ Steady(ctl, ctl')
      /\ ctl'.at \in {"wait", "ready"} \/ (ctl'.at = "verify" /\ ctl'.ret \in {"kill", "restarted"})
  BY <1>1, <1>2, Basics, GotoSteady, VerifySteady DEF Goto
<1>4. InLane /\ ctl'.op = "loss" BY <1>1, <1>3, LossGoesOn DEF InLane, Steady
<1>5. Ages BY <1>1, SameAges
<1>6. /\ ctl'.at \notin Notable /\ (Proving' => ctl'.ret \notin {"f_term", "w_check"})
      /\ Where' \notin {"start", "launch"}
  BY <1>3 DEF Notable, CapturedAt, Stopping, StopsOnLinux, Proving, Where
<1>. QED BY <1>1, <1>3, <1>4, <1>5, <1>6, SteadyGone

\* The predecessor's number is free, or on Linux a zombie's.
LEMMA WaitDeadGone ==
    ASSUME IInv, IInv', Sights, Departed, WaitDead, UNCHANGED after
    PROVE  Departed'
<1>1. /\ ctl.at = "wait" /\ ctl' = Goto("start")
      /\ \A p \in Listing(ctl.pid) : proc[p].st = "zombie"
      /\ UNCHANGED <<platform, proc, sidecar>>
  BY DEF WaitDead, hostVars
<1>2. Steady(ctl, ctl') /\ ctl'.at = "start"
  BY <1>1, Basics, LabelsKnown, GotoSteady DEF Goto, StopsPredecessor
<1>3. ctl.op = "loss" BY <1>1, LossGoesOn
<1>4. Dead(Initial)
  <2>1. Unrestarted BY <1>1, <1>3 DEF Unrestarted, Where, StopsPredecessor
  <2>2. proc[Initial].pid = ctl.pid /\ Initial \in Procs
    BY <2>1, Numbers DEF IInv, Single
  <2>. QED BY <1>1, <2>2 DEF Dead, Listing, Listed
<1>5. Ages /\ InLane /\ ctl.fin # "clean"
  BY <1>1, <1>3, SameAges, Unreported DEF InLane
<1>6. ctl'.at \notin Notable /\ Where' = "start" /\ ~Proving'
  BY <1>2 DEF Notable, CapturedAt, Stopping, StopsOnLinux, Where, Proving
<1>. QED BY <1>1, <1>2, <1>3, <1>4, <1>5, <1>6, CalmGone DEF Steady

LEMMA StartBeginsGone ==
    ASSUME IInv, IInv', Sights, Departed, StartBegins, UNCHANGED after
    PROVE  Departed'
<1>. DEFINE a == [ctl EXCEPT !.restarts = @ + 1, !.proven = FALSE]
<1>1. /\ ctl.at = "start" /\ UNCHANGED <<platform, proc>>
      /\ \/ sidecar' = Pending /\ ctl' = [a EXCEPT !.at = "launch"]
         \/ UNCHANGED sidecar /\ ctl' = Raise(a)
  BY DEF StartBegins, Persist
<1>2. ctl.op = "loss" BY <1>1, LossGoesOn
<1>3. ctl.restarts = 0
  BY <1>1, <1>2 DEF IInv, Single, Unrestarted, Where, StopsPredecessor
<1>4. a \in Controllers /\ a.op = "loss" /\ a.fin = ctl.fin /\ a.repl = ctl.repl
      /\ a.pid = ctl.pid /\ ~a.proven
  <2>. DEFINE b == [ctl EXCEPT !.restarts = 1]
  <2>1. b \in Controllers /\ b.op = "loss" /\ b.fin = ctl.fin /\ b.repl = ctl.repl
        /\ b.pid = ctl.pid
    BY <1>2, Basics DEF Controllers
  <2>2. a = [b EXCEPT !.proven = FALSE] BY <1>3
  <2>. HIDE DEF b, a
  <2>. QED BY <2>1, <2>2 DEF Controllers
<1>. HIDE DEF a
<1>5. Ages /\ InLane /\ ctl.fin # "clean" /\ Where = "start"
  BY <1>1, <1>2, SameAges, Unreported DEF InLane, Where
<1>6. CASE UNCHANGED sidecar /\ ctl' = Raise(a)
  BY <1>1, <1>2, <1>4, <1>5, <1>6, RaiseGone
<1>7. CASE sidecar' = Pending /\ ctl' = [a EXCEPT !.at = "launch"]
  <2>1. Steady(a, ctl') /\ ctl'.at = "launch"
    BY <1>4, <1>7, LabelsKnown, GotoSteady DEF Restarts
  <2>2. ctl'.at \notin Notable /\ Where' = "launch" /\ ~Proving'
    BY <2>1 DEF Notable, CapturedAt, Stopping, StopsOnLinux, Where, Proving
  <2>. QED BY <1>1, <1>4, <1>5, <1>7, <2>1, <2>2, CalmGone DEF Steady
<1>. QED BY <1>1, <1>6, <1>7

\* What is committed has the replacement's number.
LEMMA CommitGone ==
    ASSUME IInv, IInv', Sights, Departed, Commit, UNCHANGED after
    PROVE  Departed'
<1>. DEFINE a == [ctl EXCEPT !.repl = ctl.obs]
<1>1. /\ ctl.at = "commit" /\ UNCHANGED <<platform, proc>>
      /\ \/ sidecar' = ctl.obs /\ ctl' = [a EXCEPT !.at = "pid"]
         \/ UNCHANGED sidecar /\ ctl' = Raise(a)
  BY DEF Commit, Persist
<1>2. ctl.op = "loss" BY <1>1, LossGoesOn
<1>3. a \in Controllers /\ a.op = "loss" /\ a.fin = ctl.fin /\ a.repl = ctl.obs
      /\ a.pid = ctl.pid /\ a.proven = ctl.proven /\ a.restarts = ctl.restarts
  BY <1>2, Basics DEF Controllers
<1>. HIDE DEF a
<1>4. /\ ctl'.pid = ctl.pid /\ ctl'.repl = ctl.obs /\ ctl'.proven = ctl.proven
      /\ ctl'.restarts = ctl.restarts /\ ctl'.fin # "clean"
      /\ ctl'.at \in {"pid", "idle", "exiting", "w_job"}
      /\ ctl'.op \in {"loss", "none", "undo"}
  <2>1. ctl.fin # "clean" BY <1>1, <1>2, Unreported DEF InLane
  <2>2. CASE ctl' = [a EXCEPT !.at = "pid"]
    BY <1>3, <2>1, <2>2, LabelsKnown, GotoSteady DEF Restarts, Steady
  <2>3. CASE ctl' = Raise(a) BY <1>3, <2>1, <2>3, RaiseSteady
  <2>. QED BY <1>1, <2>2, <2>3
<1>5. /\ Exists(Replacement) /\ ctl.pid = proc[Replacement].pid
      /\ ctl.obs \in Procs /\ Exists(ctl.obs) /\ proc[ctl.obs].pid = ctl.pid
  BY <1>1 DEF Departed, Paired, Succeeds
<1>6. ctl.obs # Initial BY <1>1 DEF IInv, Recorded
<1>7. Succeeds(ctl') BY <1>4, <1>5, <1>6 DEF Succeeds
<1>8. Names(sidecar') BY <1>1, <1>5 DEF Names, Departed, Paired
<1>9. Where' = ctl'.at /\ ~Proving' BY <1>4 DEF Where, Proving
<1>10. Watched' BY <1>4, <1>9 DEF Watched, CapturedAt, Stopping, StopsOnLinux
<1>11. Reported' BY <1>1, <1>2, <1>4, LaneReports DEF InLane
<1>12. Ages BY <1>1, SameAges
<1>. QED BY <1>1, <1>4, <1>7, <1>8, <1>9, <1>10, <1>11, <1>12, GoneStep

\* The replacement is born into a lane that has committed nothing.
LEMMA BornGone ==
    ASSUME IInv, IInv', Departed, ctl.at = "launch", UNCHANGED <<platform, after, sidecar>>,
           NEW n \in {Initial, Replacement}, NEW g \in Nat, NEW s \in {"live", "suspended"},
           proc' = [proc EXCEPT ![Replacement] = Newborn(s, n, g, FALSE)],
           s = "suspended" => platform = "windows", platform = "macos" => g = n,
           ctl'.repl = Nobody, ctl'.op \in {"loss", "none", "undo"}, ctl'.fin # "clean",
           ctl'.proven = ctl.proven, ctl'.at \notin Notable,
           Proving' => ctl'.ret \notin {"f_term", "w_check"}
    PROVE  Departed'
<1>. USE DEF Departed
<1>0. /\ Initial \in Services /\ Replacement \in Services /\ Services \subseteq Procs
      /\ Services = {Initial, Replacement} /\ Initial # Replacement /\ Initial # Nobody
  BY Numbers DEF Services
<1>1. Where = "launch" /\ ctl.op = "loss" BY LossGoesOn DEF Where
<1>2. ctl.restarts = 1 /\ sidecar = Pending /\ ~ctl.proven /\ Dead(Initial)
  BY <1>1 DEF IInv, Single, Recorded, Emptied, Former
<1>3. /\ \A p \in Procs : p # Replacement => proc'[p] = proc[p]
      /\ proc'[Replacement].st = s /\ proc'[Replacement].pid = n /\ proc'[Replacement].group = g
      /\ proc'[Replacement].root = Replacement
  BY <1>0 DEF IInv, TypeOK, HostTypeOK, Newborn
<1>4. Suspended' BY <1>3 DEF Suspended
<1>5. Former' BY <1>0, <1>2, <1>3 DEF Former, Dead
<1>6. Grouped' BY <1>0, <1>3 DEF Grouped
<1>7. Paired' BY <1>0, <1>2 DEF Paired, Succeeds, Names, Notable
<1>8. Watched'
  <2>1. Proving' => ctl'.ret \in Verified BY DEF IInv, Places, Returns, Proving
  <2>. QED BY <2>1 DEF Watched, Notable, Where, Proving, Verified
<1>9. Emptied' BY <1>2 DEF Emptied, Notable
<1>10. Reported' BY <1>1, LaneReports DEF InLane, Notable
<1>. QED BY <1>4, <1>5, <1>6, <1>7, <1>8, <1>9, <1>10

\* Nothing is committed where the replacement is launched.
LEMMA LaunchesAnew ==
    ASSUME IInv, Departed, ctl.at = "launch"
    PROVE  /\ ctl.repl = Nobody /\ ctl.op = "loss" /\ ctl.fin # "clean"
<1>1. ~Exists(Replacement) BY DEF IInv, Single, Where
<1>2. ctl.op = "loss" BY LossGoesOn
<1>. QED BY <1>1, <1>2, Unreported DEF Departed, Paired, Succeeds, InLane

LEMMA LaunchedSteady ==
    ASSUME IInv, NEW n \in Nat, NEW d, d = Launched(n)
    PROVE  /\ d.at = "verify" /\ d.ret = "commit" /\ d.pid = n /\ d.repl = Nobody
           /\ d.op = ctl.op /\ d.proven = ctl.proven /\ d.fin = ctl.fin
           /\ d.restarts = ctl.restarts
<1>. DEFINE a == [ctl EXCEPT !.pid = n]
            b == [a EXCEPT !.init = Nobody]
            c == [b EXCEPT !.repl = Nobody]
<1>1. /\ a \in Controllers /\ a.pid = n
      /\ a.op = ctl.op /\ a.proven = ctl.proven /\ a.fin = ctl.fin /\ a.restarts = ctl.restarts
  BY Basics DEF Controllers
<1>. HIDE DEF a
<1>2. /\ b \in Controllers /\ b.pid = n
      /\ b.op = ctl.op /\ b.proven = ctl.proven /\ b.fin = ctl.fin /\ b.restarts = ctl.restarts
  BY <1>1 DEF Controllers
<1>. HIDE DEF b
<1>3. /\ c \in Controllers /\ c.pid = n /\ c.repl = Nobody
      /\ c.op = ctl.op /\ c.proven = ctl.proven /\ c.fin = ctl.fin /\ c.restarts = ctl.restarts
  BY <1>2 DEF Controllers
<1>. HIDE DEF c
<1>4. d = Verify(c, "commit") BY DEF Launched, c, b, a
<1>. QED BY <1>3, <1>4, LabelsKnown, VerifySteady DEF Restarts, Steady

LEMMA LaunchGone ==
    ASSUME IInv, IInv', Sights, Departed, LaunchDetached, UNCHANGED after
    PROVE  Departed'
<1>. DEFINE g(n) == IF platform = "linux" THEN LauncherGroup ELSE n
<1>0. PICK n \in {Initial, Replacement} :
         /\ proc' = [proc EXCEPT ![Replacement] = Newborn("live", n, g(n), FALSE)]
         /\ ctl' \in {Launched(n), Raise(ctl)}
  BY DEF LaunchDetached
<1>1. ctl.at = "launch" /\ UNCHANGED <<platform, sidecar>> BY DEF LaunchDetached
<1>2. n \in Nat /\ g(n) \in Nat BY Numbers DEF LauncherGroup
<1>3. platform = "macos" => g(n) = n OBVIOUS
<1>. HIDE DEF g
<1>4. ctl.repl = Nobody /\ ctl.op = "loss" /\ ctl.fin # "clean" BY <1>1, LaunchesAnew
<1>5. /\ ctl'.repl = Nobody /\ ctl'.op \in {"loss", "none", "undo"} /\ ctl'.fin # "clean"
      /\ ctl'.proven = ctl.proven
      /\ \/ ctl'.at = "verify" /\ ctl'.ret = "commit"
         \/ ctl'.at \in {"exiting", "idle", "w_job"}
  <2>1. CASE ctl' = Launched(n) BY <1>2, <1>4, <2>1, LaunchedSteady
  <2>2. CASE ctl' = Raise(ctl) BY <1>4, <2>2, Basics, RaiseSteady
  <2>. QED BY <1>0, <2>1, <2>2
<1>6. ctl'.at \notin Notable /\ (Proving' => ctl'.ret \notin {"f_term", "w_check"})
  BY <1>5 DEF Notable, CapturedAt, Stopping, StopsOnLinux, Proving
<1>. QED BY <1>0, <1>1, <1>2, <1>3, <1>5, <1>6, BornGone

LEMMA RestartedGone ==
    ASSUME IInv, IInv', Sights, Departed, Restarted, UNCHANGED after
    PROVE  Departed'
<1>. DEFINE i == Idle(ctl)
<1>1. /\ ctl.at = "restarted" /\ ctl' = [i EXCEPT !.loss = "ok"]
      /\ UNCHANGED <<platform, proc, sidecar>>
  BY DEF Restarted, hostVars
<1>2. /\ i \in Controllers /\ i.pid = ctl.pid /\ i.restarts = ctl.restarts
      /\ i.repl = ctl.repl /\ i.proven = ctl.proven /\ i.fin = ctl.fin
      /\ i.at = "idle" /\ i.op = "none"
  BY Basics, IdleSteady
<1>. HIDE DEF i
<1>3. /\ ctl'.pid = ctl.pid /\ ctl'.restarts = ctl.restarts /\ ctl'.repl = ctl.repl
      /\ ctl'.proven = ctl.proven /\ ctl'.fin = ctl.fin /\ ctl'.at = "idle" /\ ctl'.op = "none"
  BY <1>1, <1>2 DEF Controllers
<1>4. InLane BY <1>1, LossGoesOn DEF InLane
<1>5. Ages /\ ctl.fin # "clean" BY <1>1, <1>4, SameAges, Unreported
<1>6. Where' = "idle" /\ ~Proving' /\ ctl'.at \notin Notable
  BY <1>3 DEF Where, Proving, Notable, CapturedAt, Stopping, StopsOnLinux
<1>. QED BY <1>1, <1>3, <1>4, <1>5, <1>6, CalmGone

\* Without a restart there is nothing to certify; a replacement's end starts
\* where its identity is looked for.
LEMMA FinalizeBeginsGone ==
    ASSUME IInv, IInv', Sights, Departed, FinalizeBegins, UNCHANGED after
    PROVE  Departed'
<1>1. ctl.at = "idle" /\ UNCHANGED <<platform, proc, sidecar>>
  BY DEF FinalizeBegins, hostVars
<1>2. InLane /\ Where = "idle"
  BY <1>1, Basics DEF InLane, IInv, Places, Where, StopsExternal, Ended, Outside
<1>3. Ages /\ ctl.fin # "clean" /\ after.service # "ok" BY <1>1, <1>2, SameAges, Unreported
<1>4. CASE ctl' = [Idle(ctl) EXCEPT !.at = "exiting", !.fin = "failed"]
  <2>. DEFINE i == Idle(ctl)
  <2>1. /\ i \in Controllers /\ i.pid = ctl.pid /\ i.restarts = ctl.restarts
        /\ i.repl = ctl.repl /\ i.proven = ctl.proven /\ i.op = "none"
    BY Basics, IdleSteady
  <2>. HIDE DEF i
  <2>2. ctl' = [i EXCEPT !.at = "exiting", !.fin = "failed"] BY <1>4 DEF i
  <2>3. /\ ctl'.pid = ctl.pid /\ ctl'.restarts = ctl.restarts /\ ctl'.repl = ctl.repl
        /\ ctl'.proven = ctl.proven /\ ctl'.op = "none" /\ ctl'.at = "exiting"
        /\ ctl'.fin = "failed"
    BY <2>1, <2>2 DEF Controllers
  <2>4. Where' = "exiting" /\ ~Proving' /\ ctl'.at \notin Notable
    BY <2>3 DEF Where, Proving, Notable, CapturedAt, Stopping, StopsOnLinux
  <2>. QED BY <1>1, <1>2, <1>3, <2>3, <2>4, CalmGone
<1>5. CASE ctl.restarts = 0 /\ ctl' = Cleaned(ctl)
  <2>1. /\ ctl'.pid = ctl.pid /\ ctl'.restarts = 0 /\ ctl'.repl = ctl.repl
        /\ ctl'.proven = ctl.proven /\ ctl'.fin = "clean" /\ ctl'.op = "none"
        /\ ctl'.at = "exiting"
    BY <1>5, Basics, CleanedSteady
  <2>2. Where' = "exiting" /\ ~Proving' BY <2>1 DEF Where, Proving
  <2>3. Watched' BY <2>1, <2>2 DEF Watched, CapturedAt, Stopping, StopsOnLinux
  <2>4. Reported' BY <1>3, <2>1 DEF Reported, CleanMeansGone, CleanupMeansGone
  <2>5. Succeeds(ctl') /\ Names(sidecar')
    BY <1>1, <2>1 DEF Departed, Paired, Succeeds
  <2>. QED BY <1>1, <1>3, <2>1, <2>2, <2>3, <2>4, <2>5, GoneStep
<1>6. CASE /\ ctl.restarts > 0
           /\ ctl' = [ctl EXCEPT !.op = "finalize",
                                 !.at = CASE platform = "linux" -> "f_alive"
                                          [] platform = "macos" -> "b_alive"
                                          [] platform = "windows" -> "w_finalize"]
  <2>. DEFINE l == CASE platform = "linux" -> "f_alive"
                     [] platform = "macos" -> "b_alive"
                     [] platform = "windows" -> "w_finalize"
  <2>1. l \in {"f_alive", "b_alive", "w_finalize"} BY Basics
  <2>2. ctl' = [ctl EXCEPT !.op = "finalize", !.at = l] BY <1>6
  <2>. HIDE DEF l
  <2>3. /\ ctl'.at = l /\ ctl'.op = "finalize" /\ ctl'.pid = ctl.pid /\ ctl'.fin = ctl.fin
        /\ ctl'.restarts = ctl.restarts /\ ctl'.repl = ctl.repl /\ ctl'.proven = ctl.proven
    BY <2>2, Basics DEF Controllers
  <2>4. Where' = l /\ ~Proving' /\ ctl'.at \notin Notable /\ l \notin Begun
    BY <2>1, <2>3 DEF Where, Proving, Notable, CapturedAt, Stopping, StopsOnLinux, StopsOnMac, Begun
  <2>. QED BY <1>1, <1>2, <1>3, <2>1, <2>3, <2>4, CalmGone
<1>. QED BY <1>4, <1>5, <1>6 DEF FinalizeBegins

LEMMA BaseFinalizeGone ==
    ASSUME IInv, IInv', Sights, Departed, BaseFinalize, UNCHANGED after
    PROVE  Departed'
<1>1. /\ ctl.at = "b_alive" /\ ctl.repl # Nobody /\ UNCHANGED <<platform, proc, sidecar>>
      /\ ctl' = Verify(ctl, "terminate") \/ ctl' = Goto("terminate")
  BY DEF BaseFinalize, hostVars
<1>2. InLane BY <1>1, Basics DEF InLane, IInv, Places, Where, StopsExternal, Ended, Outside
<1>3. "terminate" \in Labels BY LabelsKnown DEF StopsOnMac
<1>4. /\ Steady(ctl, ctl')
      /\ ctl'.at = "terminate" \/ (ctl'.at = "verify" /\ ctl'.ret = "terminate")
  BY <1>1, <1>3, Basics, VerifySteady, GotoSteady DEF Goto
<1>5. Ages BY <1>1, SameAges
<1>6. /\ Where' = "terminate" /\ ctl'.at \notin Notable
      /\ (Proving' => ctl'.ret \notin {"f_term", "w_check"})
  BY <1>4 DEF Where, Proving, Notable, CapturedAt, Stopping, StopsOnLinux
<1>. QED BY <1>1, <1>2, <1>4, <1>5, <1>6, SteadyGone DEF Steady

\* Closing the last handle of the job only ends processes.
LEMMA ClosedAges ==
    ASSUME Sights, proc' = Closed(proc)
    PROVE  Ages
<1>1. \A p \in Procs : proc'[p] = IF proc[p].job THEN [proc[p] EXCEPT !.st = "gone"] ELSE proc[p]
  BY DEF Closed
<1>2. \A p \in Procs : ~Exists(p) => proc'[p] = proc[p]
  <2>1. \A p \in Procs : ~Exists(p) => proc[p] = NoProcess BY DEF Sights, Table
  <2>2. ~NoProcess.job BY DEF NoProcess
  <2>. QED BY <1>1, <2>1, <2>2
<1>3. ASSUME NEW p \in Procs PROVE Older(p)
  <2>1. CASE proc'[p] = proc[p] BY <2>1 DEF Older, Exists, Dead, Listed
  <2>2. CASE Exists(p) /\ proc'[p] = [proc[p] EXCEPT !.st = "gone"]
    <3>1. proc'[p].st \in {"gone", proc[p].st} BY <2>2
    <3>2. proc'[p].pid = proc[p].pid /\ proc'[p].group = proc[p].group /\ proc'[p].root = proc[p].root
      BY <2>2
    <3>. QED BY <2>2, <3>1, <3>2 DEF Older, Exists, Dead, Listed
  <2>. QED BY <1>1, <1>2, <2>1, <2>2
<1>. QED BY <1>3 DEF Ages

\* What was certified stays true after the lane.
LEMMA LaneEndsGone ==
    ASSUME IInv, IInv', Sights, Departed, LaneEnds, UNCHANGED after
    PROVE  Departed'
<1>. DEFINE i == Idle(ctl)
            a == [i EXCEPT !.at = "o_read", !.op = "gone"]
<1>1. /\ proc' = Closed(proc) /\ UNCHANGED <<platform, sidecar>> /\ InLane
      /\ ctl' = [a EXCEPT !.init = Nobody, !.repl = Nobody, !.handle = FALSE]
  BY DEF LaneEnds, Closed
<1>2. /\ i \in Controllers /\ i.restarts = ctl.restarts /\ i.proven = ctl.proven /\ i.fin = ctl.fin
  BY Basics, IdleSteady
<1>. HIDE DEF i
<1>3. a \in Controllers /\ a.at = "o_read" /\ a.op = "gone"
      /\ a.restarts = ctl.restarts /\ a.proven = ctl.proven /\ a.fin = ctl.fin
  BY <1>2, LabelsKnown DEF Controllers
<1>. HIDE DEF a
<1>4. /\ ctl'.at = "o_read" /\ ctl'.op = "gone" /\ ctl'.repl = Nobody
      /\ ctl'.restarts = ctl.restarts /\ ctl'.proven = ctl.proven /\ ctl'.fin = ctl.fin
  BY <1>1, <1>3 DEF Controllers
<1>5. Ages BY <1>1, ClosedAges
<1>6. Where' = "o_read" /\ ~Proving' BY <1>4 DEF Where, Proving
<1>7. Watched' BY <1>4, <1>6 DEF Watched, CapturedAt, Stopping, StopsOnLinux
<1>8. Cleared => Cleared' BY <1>1, <1>5, AgesKeeps
<1>9. CleanMeansGone'
  BY <1>4, <1>8 DEF Departed, Reported, CleanMeansGone, Cleared, NoService, Lineage
<1>10. after.service # "ok" BY <1>1 DEF Departed, Reported, InLane
<1>11. Reported' BY <1>4, <1>9, <1>10 DEF Reported, CleanupMeansGone
<1>12. Succeeds(ctl') /\ Names(sidecar')
  BY <1>1, <1>4, Numbers DEF Departed, Paired, Succeeds
<1>. QED BY <1>1, <1>4, <1>5, <1>6, <1>7, <1>11, <1>12, GoneStep

LEMMA ControlNextGone ==
    ASSUME IInv, IInv', Sights, Departed, ControlNext, UNCHANGED after
    PROVE  Departed'
BY CommandFailsGone, ExecutableGone, VerifyGone, CreateGone, AdoptGone, LossBeginsGone,
   ScenarioGone, WaitDeadGone, StartBeginsGone, LaunchGone, CommitGone, RestartedGone,
   FinalizeBeginsGone, BaseFinalizeGone, LaneEndsGone
   DEF ControlNext

-----------------------------------------------------------------------------
\* The stop on Linux.

\* A finalization succeeds.
LEMMA CleanedGone ==
    ASSUME IInv, IInv', Departed, ctl.op = "finalize", UNCHANGED <<platform, proc, sidecar, after>>,
           ctl' = Cleaned(ctl), ctl.restarts > 0 => Cleared
    PROVE  Departed'
<1>1. /\ ctl'.pid = ctl.pid /\ ctl'.restarts = ctl.restarts /\ ctl'.repl = ctl.repl
      /\ ctl'.proven = ctl.proven /\ ctl'.op = "none" /\ ctl'.at = "exiting"
  BY Basics, CleanedSteady
<1>2. Where' = "exiting" /\ ~Proving' BY <1>1 DEF Where, Proving
<1>3. Watched' BY <1>1, <1>2 DEF Watched, CapturedAt, Stopping, StopsOnLinux
<1>4. Ages BY SameAges
<1>5. Cleared => Cleared' BY <1>4, AgesKeeps
<1>6. CleanMeansGone' BY <1>1, <1>5 DEF CleanMeansGone, Cleared, NoService, Lineage
<1>7. after.service # "ok" BY DEF Departed, Reported
<1>8. Reported' BY <1>1, <1>6, <1>7 DEF Reported, CleanupMeansGone
<1>9. Succeeds(ctl') /\ Names(sidecar')
  BY <1>1 DEF Departed, Paired, Succeeds
<1>. QED BY <1>1, <1>2, <1>3, <1>4, <1>8, <1>9, GoneStep

\* A committed identity that does not run means no service: the replacement has
\* the number, so it is the committed one or not in the table.
LEMMA NoneOnLinux ==
    ASSUME IInv, Sights, Departed, platform = "linux", ctl.repl # Nobody, ~Live(ctl.repl)
    PROVE  ctl.restarts > 0 => Cleared
<1>. USE DEF Departed
<1>1. ctl.repl # Initial /\ ctl.pid = proc[Replacement].pid
  BY DEF Paired, Succeeds
<1>2. Foreign(ctl.repl) BY DEF Sights, Expecting, Committed
<1>3. /\ Services = {Initial, Replacement} /\ Services \subseteq Procs
  BY Numbers DEF Services
<1>4. ~Live(Replacement)
  <2>1. CASE ctl.repl \in Services BY <1>1, <1>3, <2>1
  <2>2. CASE ctl.repl \notin Services BY <1>1, <1>2, <1>3, <2>2 DEF Foreign, Live, Listed
  <2>. QED BY <2>1, <2>2
<1>5. Dead(Replacement) BY <1>3, <1>4 DEF Suspended, Dead, Live
<1>. QED BY <1>3, <1>5 DEF Cleared, NoService, Former

LEMMA LinuxGone ==
    ASSUME IInv, IInv', Sights, Departed, platform = "linux", ctl.at \in StopsOnLinux,
           ctl.repl # Nobody, UNCHANGED <<platform, proc, sidecar, after>>, Steady(ctl, ctl'),
           ctl'.at \in StopsOnLinux \/ (ctl'.at = "verify" /\ ctl'.ret \in {"f_tree", "f_term"}),
           ctl'.at \in CapturedAt \/ (ctl'.at = "verify" /\ ctl'.ret = "f_term") =>
              ctl.repl \in ctl'.known
    PROVE  Departed'
<1>1. ctl.op = "finalize" BY FinalizesOnLinux
<1>2. ctl.fin # "clean" BY <1>1, Unreported DEF InLane, StopsOnLinux
<1>3. Where' \in StopsOnLinux BY DEF Where, StopsOnLinux
<1>4. Watched'
  BY <1>1, <1>3 DEF Watched, Steady, Proving, StopsOnLinux
<1>5. Reported' BY <1>1, <1>2, LaneReports DEF Steady, InLane, StopsOnLinux
<1>6. Succeeds(ctl') /\ Names(sidecar')
  BY DEF Departed, Paired, Succeeds, Steady, StopsOnLinux
<1>7. Ages BY SameAges
<1>. QED BY <1>1, <1>3, <1>4, <1>5, <1>6, <1>7, GoneStep DEF Steady, StopsOnLinux

\* What is known on the way.
LEMMA WatchedOnLinux ==
    ASSUME IInv, Departed, platform = "linux", ctl.at \in StopsOnLinux \ {"f_alive"}
    PROVE  /\ ctl.op = "finalize" /\ ctl.repl # Nobody
           /\ ctl.at \in CapturedAt => ctl.repl \in ctl.known
<1>1. ctl.op = "finalize" BY FinalizesOnLinux
<1>2. Where \in Begun BY DEF Where, Begun, StopsOnLinux
<1>. QED BY <1>1, <1>2 DEF Departed, Watched

\* The census has the root in it.
LEMMA RootCaptured ==
    ASSUME Isolated
    PROVE  /\ Root = ctl.repl /\ ctl.repl \in Captured
           /\ Survivors(Captured) = {} => ~Live(ctl.repl)
BY DEF Isolated, Captured, Tree, Survivors

LEMMA FinalizeLinuxGone ==
    ASSUME IInv, IInv', Sights, Departed, FinalizeLinux, UNCHANGED after
    PROVE  Departed'
<1>1. /\ platform = "linux" /\ ctl.at = "f_alive" /\ ctl.repl # Nobody
      /\ UNCHANGED <<platform, proc, sidecar>>
      /\ ctl' = Verify(ctl, "f_tree") \/ ctl' = Goto("f_zombie")
  BY DEF FinalizeLinux, At, Look, LinuxVars
<1>2. "f_tree" \in Labels /\ "f_zombie" \in Labels BY LabelsKnown DEF StopsOnLinux
<1>3. /\ Steady(ctl, ctl')
      /\ ctl'.at = "f_zombie" \/ (ctl'.at = "verify" /\ ctl'.ret = "f_tree")
  BY <1>1, <1>2, Basics, VerifySteady, GotoSteady DEF Goto
<1>4. ctl'.at \notin CapturedAt BY <1>3 DEF CapturedAt, Stopping, StopsOnLinux
<1>. QED BY <1>1, <1>3, <1>4, LinuxGone DEF StopsOnLinux

LEMMA ZombieRootGone ==
    ASSUME IInv, IInv', Sights, Departed, ZombieRoot, UNCHANGED after
    PROVE  Departed'
<1>. DEFINE a == [ctl EXCEPT !.known = Captured, !.seen = Captured]
<1>1. /\ platform = "linux" /\ ctl.at = "f_zombie" /\ Isolated
      /\ UNCHANGED <<platform, proc, sidecar>>
      /\ \/ ctl' = Cleaned(ctl) /\ Survivors(Captured) = {}
         \/ ctl' = Verify(a, "f_tree")
  BY DEF ZombieRoot, At, Look, LinuxVars
<1>2. ctl.op = "finalize" /\ ctl.repl # Nobody
  BY <1>1, WatchedOnLinux DEF StopsOnLinux
<1>3. Captured \subseteq Procs
  BY <1>1, HolderListed, TreeIn DEF Captured, Root, Isolated
<1>4. a \in Controllers /\ Steady(ctl, a) /\ a.known = Captured
  BY <1>3, Basics DEF Controllers, Steady
<1>. HIDE DEF a
<1>5. CASE ctl' = Verify(a, "f_tree")
  <2>1. Steady(a, ctl') /\ ctl'.at = "verify" /\ ctl'.ret = "f_tree"
    BY <1>4, <1>5, LabelsKnown, VerifySteady DEF StopsOnLinux
  <2>2. Steady(ctl, ctl') BY <1>4, <2>1 DEF Steady
  <2>. QED BY <1>1, <1>2, <2>1, <2>2, LinuxGone DEF StopsOnLinux, CapturedAt, Stopping
<1>6. CASE ctl' = Cleaned(ctl) /\ Survivors(Captured) = {}
  BY <1>1, <1>2, <1>6, RootCaptured, NoneOnLinux, CleanedGone
<1>. QED BY <1>1, <1>5, <1>6

LEMMA CaptureGone ==
    ASSUME IInv, IInv', Sights, Departed, CaptureTree \/ CaptureAgain, UNCHANGED after
    PROVE  Departed'
<1>. DEFINE a == [ctl EXCEPT !.known = Captured, !.seen = @ \cup Captured]
<1>1. /\ platform = "linux" /\ ctl.at \in {"f_tree", "f_tree2"} /\ Isolated
      /\ UNCHANGED <<platform, proc, sidecar>>
      /\ ctl' = [a EXCEPT !.at = "f_tree2"] \/ ctl' = Verify(a, "f_term")
  BY DEF CaptureTree, CaptureAgain, At, Look, LinuxVars
<1>2. ctl.repl # Nobody BY <1>1, WatchedOnLinux DEF StopsOnLinux
<1>3. Captured \subseteq Procs
  BY <1>1, HolderListed, TreeIn DEF Captured, Root, Isolated
<1>4. a \in Controllers /\ Steady(ctl, a) /\ a.known = Captured
  BY <1>3, Basics DEF Controllers, Steady
<1>. HIDE DEF a
<1>5. /\ Steady(a, ctl') /\ ctl'.known = Captured
      /\ ctl'.at = "f_tree2" \/ (ctl'.at = "verify" /\ ctl'.ret = "f_term")
  BY <1>1, <1>4, LabelsKnown, GotoSteady, VerifySteady DEF StopsOnLinux
<1>6. Steady(ctl, ctl') BY <1>4, <1>5 DEF Steady
<1>7. ctl.repl \in Captured BY <1>1, RootCaptured
<1>. QED BY <1>1, <1>2, <1>5, <1>6, <1>7, LinuxGone DEF StopsOnLinux

\* Steps after the captures that keep what is known.
LEMMA StoppingGone ==
    ASSUME IInv, IInv', Sights, Departed, platform = "linux", ctl.at \in CapturedAt,
           UNCHANGED <<platform, proc, sidecar, after>>, Steady(ctl, ctl'),
           ctl'.known = ctl.known \/ (Isolated /\ ctl'.known = Captured),
           ctl'.at \in StopsOnLinux
    PROVE  Departed'
<1>1. ctl.at \in StopsOnLinux \ {"f_alive"} BY DEF CapturedAt, Stopping
<1>2. ctl.repl # Nobody /\ ctl.repl \in ctl.known BY <1>1, WatchedOnLinux
<1>3. ctl.repl \in ctl'.known BY <1>2, RootCaptured
<1>. QED BY <1>1, <1>2, <1>3, LinuxGone

\* Nobody known survives.
LEMMA SurvivedByNone ==
    ASSUME IInv, IInv', Sights, Departed, platform = "linux", ctl.at \in CapturedAt,
           UNCHANGED <<platform, proc, sidecar, after>>, ctl' = Cleaned(ctl),
           Survivors(ctl.known) = {} \/ (Isolated /\ Survivors(Captured) = {})
    PROVE  Departed'
<1>1. ctl.at \in StopsOnLinux \ {"f_alive"} BY DEF CapturedAt, Stopping
<1>2. ctl.op = "finalize" /\ ctl.repl # Nobody /\ ctl.repl \in ctl.known
  BY <1>1, WatchedOnLinux
<1>3. ~Live(ctl.repl) BY <1>2, RootCaptured DEF Survivors
<1>. QED BY <1>2, <1>3, NoneOnLinux, CleanedGone

LEMMA GraceGone ==
    ASSUME IInv, IInv', Sights, Departed, UNCHANGED after, Grace \/ WaitTree
    PROVE  Departed'
<1>1. /\ platform = "linux" /\ ctl.at \in {"f_grace", "f_wait"}
      /\ UNCHANGED <<platform, proc, sidecar>>
      /\ \/ ctl' = Cleaned(ctl) /\ Survivors(ctl.known) = {}
         \/ ctl' = [ctl EXCEPT !.at = "f_root", !.todo = Survivors(ctl.known)]
  BY DEF Grace, WaitTree, At, Look, LinuxVars
<1>2. ctl.at \in CapturedAt BY <1>1 DEF CapturedAt, Stopping, StopsOnLinux
<1>3. CASE ctl' = [ctl EXCEPT !.at = "f_root", !.todo = Survivors(ctl.known)]
  <2>1. Steady(ctl, ctl') /\ ctl'.known = ctl.known /\ ctl'.at = "f_root"
    BY <1>3, Basics DEF Controllers, Steady
  <2>. QED BY <1>1, <1>2, <2>1, StoppingGone DEF StopsOnLinux
<1>. QED BY <1>1, <1>2, <1>3, SurvivedByNone

LEMMA EscalateGone ==
    ASSUME IInv, IInv', Sights, Departed, Escalate, UNCHANGED after
    PROVE  Departed'
<1>. DEFINE T == {p \in Survivors(Captured) : proc[p].group # Group}
            a == [ctl EXCEPT !.at = "f_stat", !.owned = TRUE]
            b == [a EXCEPT !.known = Captured]
<1>1. /\ platform = "linux" /\ ctl.at = "f_root" /\ UNCHANGED <<platform, proc, sidecar>>
      /\ \/ ctl' = [ctl EXCEPT !.at = "f_stat", !.owned = FALSE]
         \/ Isolated /\ Survivors(Captured) = {} /\ ctl' = Cleaned(ctl)
         \/ Isolated /\ ctl' = [b EXCEPT !.todo = T]
  BY DEF Escalate, At, Look, LinuxVars
<1>. HIDE DEF T
<1>2. ctl.at \in CapturedAt BY <1>1 DEF CapturedAt, Stopping, StopsOnLinux
<1>3. CASE ctl' = [ctl EXCEPT !.at = "f_stat", !.owned = FALSE]
  <2>1. Steady(ctl, ctl') /\ ctl'.known = ctl.known /\ ctl'.at = "f_stat"
    BY <1>3, Basics DEF Controllers, Steady
  <2>. QED BY <1>1, <1>2, <2>1, StoppingGone DEF StopsOnLinux
<1>4. CASE Isolated /\ ctl' = [b EXCEPT !.todo = T]
  <2>1. Captured \subseteq Procs
    BY <1>4, HolderListed, TreeIn DEF Captured, Root, Isolated
  <2>2. a \in Controllers /\ Steady(ctl, a) /\ a.at = "f_stat"
    BY Basics, LabelsKnown DEF Controllers, Steady, StopsOnLinux
  <2>. HIDE DEF a
  <2>3. b \in Controllers /\ Steady(a, b) /\ b.at = "f_stat" /\ b.known = Captured
    BY <2>1, <2>2 DEF Controllers, Steady
  <2>. HIDE DEF b
  <2>4. Steady(b, ctl') /\ ctl'.at = "f_stat" /\ ctl'.known = Captured
    BY <1>4, <2>3 DEF Controllers, Steady
  <2>5. Steady(ctl, ctl') BY <2>2, <2>3, <2>4 DEF Steady
  <2>. QED BY <1>1, <1>2, <1>4, <2>4, <2>5, StoppingGone DEF StopsOnLinux
<1>. QED BY <1>1, <1>2, <1>3, <1>4, SurvivedByNone

LEMMA KillsGone ==
    ASSUME IInv, IInv', Sights, Departed, UNCHANGED after,
           TermGroup \/ StatSurvivor \/ KillSurvivor \/ SurvivorsKilled \/ ProveGroup \/ KillGroup
    PROVE  Departed'
<1>1. /\ platform = "linux" /\ UNCHANGED <<platform, proc, sidecar>>
      /\ ctl.at \in {"f_term", "f_stat", "f_kill", "f_group_id", "f_group"}
      /\ \/ \E l \in {"f_grace", "f_group_id", "f_wait", "f_group"} : ctl' = Goto(l)
         \/ \E p \in ctl.todo : ctl' = [ctl EXCEPT !.obs = p, !.at = "f_kill"]
         \/ ctl' = [ctl EXCEPT !.todo = @ \ {ctl.obs}, !.obs = Nobody, !.at = "f_stat"]
  BY DEF TermGroup, StatSurvivor, KillSurvivor, SurvivorsKilled, ProveGroup, KillGroup, At, Look, LinuxVars
<1>2. ctl.at \in CapturedAt BY <1>1 DEF CapturedAt, Stopping, StopsOnLinux
<1>3. Steady(ctl, ctl') /\ ctl'.known = ctl.known /\ ctl'.at \in StopsOnLinux
  <2>1. CASE \E l \in {"f_grace", "f_group_id", "f_wait", "f_group"} : ctl' = Goto(l)
    BY <2>1, Basics, LabelsKnown, GotoSteady DEF Goto, StopsOnLinux
  <2>2. CASE \E p \in ctl.todo : ctl' = [ctl EXCEPT !.obs = p, !.at = "f_kill"]
    BY <2>2, Basics DEF Controllers, Steady, StopsOnLinux
  <2>3. CASE ctl' = [ctl EXCEPT !.todo = @ \ {ctl.obs}, !.obs = Nobody, !.at = "f_stat"]
    BY <2>3, Basics DEF Controllers, Steady, StopsOnLinux
  <2>. QED BY <1>1, <2>1, <2>2, <2>3
<1>. QED BY <1>1, <1>2, <1>3, StoppingGone

LEMMA LinuxNextGone ==
    ASSUME IInv, IInv', Sights, Departed, LinuxNext, UNCHANGED after
    PROVE  Departed'
BY FinalizeLinuxGone, ZombieRootGone, CaptureGone, GraceGone, EscalateGone, KillsGone
   DEF LinuxNext

-----------------------------------------------------------------------------
\* The stop on macOS.

\* Where the passes belong to.
LEMMA MacOp ==
    ASSUME IInv, ctl.at \in Passes \cup {"m_first"}
    PROVE  /\ ctl.op \in {"loss", "finalize"} /\ InLane
           /\ ctl.op = "finalize" => Where \in Begun
BY Basics DEF IInv, Places, Where, StopsPredecessor, StopsExternal, Restarts, Owns, StopsJob,
              StopsOnLinux, StopsOnMac, Ended, Outside, Passes, InLane, Begun

\* A step on the way through the passes.
LEMMA PassGone ==
    ASSUME IInv, IInv', Departed, platform = "macos",
           ctl.at \in Passes \cup {"terminate", "m_first"},
           UNCHANGED <<platform, proc, sidecar, after>>, Steady(ctl, ctl'),
           ctl'.at \in Passes \cup {"m_first"}
    PROVE  Departed'
<1>1. InLane /\ (ctl.op = "finalize" => Where \in Begun) /\ ctl.at # "exiting"
  <2>1. CASE ctl.at = "terminate"
    BY <2>1, Basics DEF IInv, Places, Where, StopsPredecessor, StopsExternal, Restarts, Owns, StopsJob,
       StopsOnLinux, StopsOnMac, Ended, Outside, InLane, Begun
  <2>. QED BY <2>1, MacOp DEF Passes
<1>2. ctl.op = "finalize" => ctl.repl # Nobody BY <1>1 DEF Departed, Watched
<1>3. /\ ctl'.at \notin Notable /\ ~Proving' /\ Where' \notin {"start", "launch"}
  BY DEF Passes, Notable, CapturedAt, Stopping, StopsOnLinux, Proving, Where
<1>. QED BY <1>1, <1>2, <1>3, SameAges, SteadyGone DEF Steady

\* The probes: whatever they add to what is known or taken.
LEMMA ProbesSteady ==
    ASSUME IInv, ProbeMember \/ ProbeCurrent \/ ProbeKnown
    PROVE  Steady(ctl, ctl') /\ ctl'.at = ctl.at
<1>. DEFINE dropped(p) == [ctl EXCEPT !.listed = @ \ {p}]
            added(p, found) == [ctl EXCEPT !.listed = @ \ {p}, !.known = @ \cup {found},
                                           !.taken = @ \cup ({found} \ {p})]
            passed(k) == [ctl EXCEPT !.rest = @ \ {k}]
<1>1. ctl \in Controllers BY Basics
<1>2. \A p : Steady(ctl, dropped(p)) /\ dropped(p).at = ctl.at BY <1>1 DEF Controllers, Steady
<1>3. \A k : Steady(ctl, passed(k)) /\ passed(k).at = ctl.at BY <1>1 DEF Controllers, Steady
<1>4. \A p, found : Steady(ctl, added(p, found)) /\ added(p, found).at = ctl.at
  BY <1>1 DEF Controllers, Steady
<1>5. ASSUME NEW c, NEW found, NEW b, "todo" \in DOMAIN c, Steady(ctl, c) /\ c.at = ctl.at,
             ctl' = Survives(c, found, b), DOMAIN c = DOMAIN ctl
      PROVE  Steady(ctl, ctl') /\ ctl'.at = ctl.at
  BY <1>1, <1>5 DEF Survives, Steady, Controllers
<1>6. CASE ProbeMember
  <2>1. PICK p \in ctl.listed : \/ ctl' = dropped(p)
                                \/ \E found \in Procs : ctl' = added(p, found)
    BY <1>6 DEF ProbeMember
  <2>. HIDE DEF dropped, added
  <2>. QED BY <1>2, <1>4, <2>1
<1>7. CASE ProbeCurrent
  <2>1. PICK p \in ctl.listed :
           \/ ctl' = dropped(p)
           \/ \E found \in Procs :
                 ctl' = Survives(added(p, found), found, proc[p].group = ctl.pid)
    BY <1>7 DEF ProbeCurrent
  <2>2. ASSUME NEW found \in Procs, ctl' = Survives(added(p, found), found, proc[p].group = ctl.pid)
        PROVE  Steady(ctl, ctl') /\ ctl'.at = ctl.at
    <3>1. DOMAIN added(p, found) = DOMAIN ctl /\ "todo" \in DOMAIN added(p, found)
      BY <1>1 DEF Controllers
    <3>2. Steady(ctl, added(p, found)) /\ added(p, found).at = ctl.at BY <1>4
    <3>. HIDE DEF added
    <3>. QED BY <1>5, <2>2, <3>1, <3>2
  <2>. HIDE DEF dropped, added
  <2>. QED BY <1>2, <2>1, <2>2
<1>8. CASE ProbeKnown
  <2>1. PICK k \in ctl.rest : ctl' = passed(k) \/ ctl' = Survives(passed(k), k, FALSE)
    BY <1>8 DEF ProbeKnown
  <2>2. CASE ctl' = Survives(passed(k), k, FALSE)
    <3>1. "todo" \in DOMAIN passed(k) /\ DOMAIN passed(k) = DOMAIN ctl BY <1>1 DEF Controllers
    <3>2. Steady(ctl, passed(k)) /\ passed(k).at = ctl.at BY <1>3
    <3>. HIDE DEF passed
    <3>. QED BY <1>1, <2>2, <3>1, <3>2 DEF Survives, Steady, Controllers
  <2>. HIDE DEF passed
  <2>. QED BY <1>3, <2>1, <2>2
<1>. QED BY <1>6, <1>7, <1>8

LEMMA MacPlacesGone ==
    ASSUME IInv, IInv', Sights, Departed, UNCHANGED after,
           \/ TerminateBegins \/ EstablishOwnership \/ ProbeMember \/ OwnershipProven
           \/ Pass \/ ProbeCurrent \/ ProbeKnown \/ ProbesEnd \/ ProveRoot \/ KillOwnedGroup
           \/ ProveOne \/ KillOne \/ PassEnds
    PROVE  Departed'
<1>1. /\ platform = "macos" /\ UNCHANGED <<platform, proc, sidecar>>
      /\ ctl.at \in Passes \cup {"terminate", "m_first"}
  BY DEF TerminateBegins, EstablishOwnership, ProbeMember, OwnershipProven, Pass, ProbeCurrent,
         ProbeKnown, ProbesEnd, ProveRoot, KillOwnedGroup, ProveOne, KillOne, PassEnds, MacAt, Look,
         LinuxVars, Passes
<1>2. Steady(ctl, ctl') /\ ctl'.at \in Passes \cup {"m_first"}
  <2>1. CASE \E l \in {"m_first", "m_pass", "m_census", "m_rootid", "m_group", "m_each"} :
               ctl' = Goto(l)
    BY <2>1, Basics, LabelsKnown, GotoSteady DEF Goto, StopsOnMac, Passes
  <2>2. CASE EstablishOwnership
    <3>1. PICK L : ctl' = [ctl EXCEPT !.at = "m_own", !.known = {}, !.listed = L]
      BY <2>2 DEF EstablishOwnership
    <3>. QED BY <3>1, Basics DEF Controllers, Steady, Passes
  <2>3. CASE Pass
    <3>. DEFINE o == OwnedGroup # {} /\ OwnedGroup \subseteq Topology
                a == [ctl EXCEPT !.at = "m_probe", !.listed = Current, !.rest = Unlisted(Current)]
                b == [a EXCEPT !.owned = o]
    <3>1. ctl' = [b EXCEPT !.todo = {}, !.obs = Nobody] BY <2>3 DEF Pass
    <3>2. PICK L, R : a = [ctl EXCEPT !.at = "m_probe", !.listed = L, !.rest = R] OBVIOUS
    <3>. HIDE DEF a, o
    <3>3. Steady(ctl, a) /\ a.at = "m_probe" /\ DOMAIN a = DOMAIN ctl
      BY <3>2, Basics DEF Controllers, Steady
    <3>4. Steady(a, b) /\ b.at = "m_probe" /\ DOMAIN b = DOMAIN ctl
      BY <3>3, Basics DEF Controllers, Steady
    <3>. HIDE DEF b
    <3>5. Steady(b, ctl') /\ ctl'.at = "m_probe" BY <3>1, <3>4, Basics DEF Controllers, Steady
    <3>. QED BY <3>3, <3>4, <3>5 DEF Steady, Passes
  <2>4. CASE ProveOne
    <3>1. PICK p \in ctl.todo : ctl' \in {[ctl EXCEPT !.todo = @ \ {p}],
                                          [ctl EXCEPT !.obs = p, !.at = "m_kill"]}
      BY <2>4 DEF ProveOne
    <3>2. ctl.at = "m_each" BY <2>4 DEF ProveOne, MacAt
    <3>. QED BY <3>1, <3>2, Basics DEF Controllers, Steady, Passes
  <2>5. CASE KillOne
    BY <2>5, Basics DEF KillOne, Controllers, Steady, Passes
  <2>6. CASE PassEnds
    BY <2>6, Basics DEF PassEnds, Controllers, Steady, Passes
  <2>7. CASE ProbeMember \/ ProbeCurrent \/ ProbeKnown
    <3>1. ctl.at \in Passes BY <2>7 DEF ProbeMember, ProbeCurrent, ProbeKnown, MacAt, Passes
    <3>. QED BY <2>7, <3>1, ProbesSteady
  <2>. QED BY <2>1, <2>2, <2>3, <2>4, <2>5, <2>6, <2>7
           DEF TerminateBegins, OwnershipProven, ProbesEnd, ProveRoot, KillOwnedGroup
<1>. QED BY <1>1, <1>2, PassGone

\* The group of the committed number is the replacement's: with nobody in it
\* nothing of the group's lineage runs.
LEMMA NoneOnMac ==
    ASSUME IInv, Departed, platform = "macos", ctl.repl # Nobody, OwnedGroup = {}
    PROVE  ctl.restarts > 0 => Cleared
<1>. USE DEF Departed
<1>1. Exists(Replacement) /\ ctl.pid = proc[Replacement].pid
  BY DEF Paired, Succeeds
<1>2. /\ proc[Replacement].group = ctl.pid /\ proc[Replacement].root = Replacement
  BY <1>1 DEF Grouped
<1>3. /\ Services = {Initial, Replacement} /\ Services \subseteq Procs
  BY Numbers DEF Services
<1>4. \A p \in Procs : proc[p].group = proc[Replacement].group => Dead(p)
  BY <1>2 DEF OwnedGroup, InGroup, Suspended, Dead, Live
<1>. QED BY <1>3, <1>4 DEF Cleared, NoService, Former, Lineage

LEMMA GroupEmptyGone ==
    ASSUME IInv, IInv', Sights, Departed, GroupEmpty, UNCHANGED after
    PROVE  Departed'
<1>. DEFINE a == Goto("wait")
<1>1. /\ platform = "macos" /\ ctl.at = "m_census" /\ UNCHANGED <<platform, proc, sidecar>>
      /\ \/ ctl' = Goto("m_pass")
         \/ ctl.op = "loss" /\ ctl' = [a EXCEPT !.known = {}]
         \/ ctl.op # "loss" /\ OwnedGroup = {} /\ ctl' = Cleaned(ctl)
  BY DEF GroupEmpty, MacAt, Look, LinuxVars
<1>2. ctl.op \in {"loss", "finalize"} /\ InLane /\ (ctl.op = "finalize" => Where \in Begun)
  BY <1>1, MacOp DEF Passes
<1>3. CASE ctl' = Goto("m_pass")
  <2>1. Steady(ctl, ctl') /\ ctl'.at = "m_pass"
    BY <1>3, Basics, LabelsKnown, GotoSteady DEF Goto, StopsOnMac
  <2>. QED BY <1>1, <2>1, PassGone DEF Passes
<1>4. CASE ctl.op = "loss" /\ ctl' = [a EXCEPT !.known = {}]
  <2>1. Steady(ctl, ctl') /\ ctl'.at = "wait"
    BY <1>4, Basics DEF Goto, Controllers, Steady
  <2>2. ctl'.at \notin Notable /\ ~Proving' /\ Where' = "wait" /\ ctl'.op = "loss"
    BY <1>4, <2>1 DEF Notable, CapturedAt, Stopping, StopsOnLinux, Proving, Where, Steady
  <2>. QED BY <1>1, <1>2, <2>1, <2>2, SameAges, SteadyGone
<1>5. CASE ctl.op # "loss" /\ OwnedGroup = {} /\ ctl' = Cleaned(ctl)
  <2>1. ctl.op = "finalize" /\ ctl.repl # Nobody
    BY <1>2, <1>5 DEF Departed, Watched
  <2>. QED BY <1>1, <1>5, <2>1, NoneOnMac, CleanedGone
<1>. QED BY <1>1, <1>3, <1>4, <1>5

LEMMA MacNextGone ==
    ASSUME IInv, IInv', Sights, Departed, MacNext, UNCHANGED after
    PROVE  Departed'
BY MacPlacesGone, GroupEmptyGone DEF MacNext

-----------------------------------------------------------------------------
\* The stops on Windows.

\* Where the lane is on the way there.
OnWindows == StopsJob \cup StopsExternal \cup Owns \cup {"wait", "w_evidence"}

LEMMA WindowsGone ==
    ASSUME IInv, IInv', Departed, platform = "windows", InLane, ctl.at # "exiting", Ages,
           UNCHANGED <<platform, after, sidecar>>, Steady(ctl, ctl'),
           ctl'.at \in OnWindows \/ (ctl'.at = "verify" /\ ctl'.ret \in {"w_job", "w_check"}),
           ctl'.at = "w_close" => ~Listed(Replacement),
           Where' \in {"w_check", "w_stop", "w_verify"} => ctl'.init \in ctl'.known
    PROVE  Departed'
<1>1. /\ ctl'.at \notin CapturedAt \cup {"commit", "o_children", "o_stopped"}
      /\ Proving' => ctl'.ret # "f_term"
      /\ Where' \notin Begun \cup {"start", "launch"}
  BY DEF OnWindows, CapturedAt, Stopping, StopsOnLinux, StopsOnMac, Begun, StopsJob,
         StopsExternal, Owns, Proving, Where
<1>2. ctl'.op # "outer" /\ ctl'.fin # "clean" BY Unreported DEF Steady, InLane
<1>3. Watched' BY <1>1, <1>2 DEF Watched
<1>4. Reported' BY <1>1, <1>2, LaneReports
<1>5. Succeeds(ctl') /\ Names(sidecar') BY <1>1 DEF Departed, Paired, Succeeds, Steady
<1>. QED BY <1>1, <1>2, <1>3, <1>4, <1>5, GoneStep DEF Steady

\* Steps that only move the controller, in the lane or in the cleanup.
LEMMA MovesOnWindows ==
    ASSUME IInv, IInv', Sights, Departed, platform = "windows",
           UNCHANGED <<platform, proc, after, sidecar>>,
           ctl.at \in StopsJob \cup StopsExternal \cup Owns \cup {"terminate", "w_finalize", "w_evidence"},
           NEW l \in StopsJob \cup StopsExternal \cup Owns \cup {"wait", "w_evidence", "o_stopped"},
           ctl' = Goto(l),
           l = "o_stopped" => ctl.op = "outer",
           l = "w_close" => ~Listed(Replacement),
           l \in {"w_check", "w_stop", "w_verify"} => ctl.init \in ctl.known,
           ctl.op = "outer" /\ l \in {"w_late", "o_stopped"} => ~Listed(sidecar)
    PROVE  Departed'
<1>1. l \in Labels BY LabelsKnown DEF StopsPredecessor, Outside
<1>2. Steady(ctl, ctl') /\ ctl'.known = ctl.known /\ ctl'.at = l
  BY <1>1, Basics, GotoSteady DEF Goto
<1>3. Ages BY SameAges
<1>4. ctl.op \in {"loss", "finalize", "undo", "outer"}
  BY WindowsOp
<1>5. l \notin {"verify", "stat"} /\ l \notin {"o_children"}
  BY DEF StopsJob, StopsExternal, Owns
<1>6. Where' = l BY <1>2, <1>5 DEF Where
<1>7. CASE ctl.op = "outer"
  BY <1>2, <1>3, <1>5, <1>6, <1>7, OutsideGone DEF Steady, Departed, Reported
<1>8. CASE ctl.op # "outer"
  <2>1. InLane /\ ctl.at # "exiting" BY <1>4, <1>8 DEF InLane, StopsJob, StopsExternal, Owns
  <2>2. l \in OnWindows BY <1>8 DEF OnWindows
  <2>. QED BY <1>2, <1>3, <1>6, <2>1, <2>2, WindowsGone DEF Steady
<1>. QED BY <1>7, <1>8

LEMMA RaisesOnWindows ==
    ASSUME IInv, IInv', Sights, Departed, platform = "windows", UNCHANGED <<platform, after, sidecar>>,
           ctl.at \in StopsJob \cup Owns \cup {"w_finalize", "w_evidence"}, Ages, ctl' = Raise(ctl)
    PROVE  Departed'
<1>1. ctl.op \in {"loss", "finalize", "undo"} /\ ctl.at # "exiting"
  BY WindowsOp DEF StopsJob, Owns
<1>. QED BY <1>1, Basics, RaiseGone DEF InLane, Departed, Former

LEMMA PlacesGone ==
    ASSUME IInv, IInv', Sights, Departed, UNCHANGED after,
           \/ TerminateOnWindows \/ VerifyTreeGone \/ LeaderOnly \/ ReapLeader
           \/ TerminatedReplacement \/ StopScriptChecks \/ StopScriptStops
           \/ CreateJob \/ TerminateJob \/ ProveJobEmpty
    PROVE  Departed'
<1>1. platform = "windows" /\ UNCHANGED <<platform, proc, sidecar>>
  BY DEF TerminateOnWindows, VerifyTreeGone, LeaderOnly, ReapLeader, TerminatedReplacement,
         StopScriptChecks, StopScriptStops, CreateJob, TerminateJob, ProveJobEmpty, WindowsAt,
         Watch, JobVars
<1>2. Ages BY <1>1, SameAges
<1>3. CASE TerminateOnWindows
  <2>1. ctl.at = "terminate" /\ \E l \in {"w_job", "w_snap"} : ctl' = Goto(l)
    BY <1>3 DEF TerminateOnWindows, WindowsAt
  <2>. QED BY <1>1, <2>1, MovesOnWindows DEF StopsJob, StopsExternal
<1>4. CASE VerifyTreeGone
  <2>1. ctl.at = "w_verify" /\ ctl' = Goto("w_late") /\ \A p \in ctl.known : ~Listed(p)
    BY <1>4 DEF VerifyTreeGone, WindowsAt
  <2>2. ctl.init \in ctl.known BY <2>1 DEF Departed, Watched, Where
  <2>3. ctl.op = "outer" => ~Listed(sidecar) BY <2>1, <2>2 DEF Departed, Paired
  <2>. QED BY <1>1, <2>1, <2>3, MovesOnWindows DEF StopsExternal
<1>5. CASE LeaderOnly
  BY <1>1, <1>2, <1>5, RaisesOnWindows DEF LeaderOnly, WindowsAt, StopsJob
<1>6. CASE ReapLeader
  <2>1. ctl.at = "w_reap" /\ ctl' = Goto("w_close") /\ ~Listed(Replacement)
    BY <1>6 DEF ReapLeader, WindowsAt
  <2>. QED BY <1>1, <2>1, MovesOnWindows DEF StopsJob
<1>7. CASE TerminatedReplacement
  <2>1. ctl.at = "w_closed" /\ ctl' \in {Goto("w_evidence"), Raise(ctl)}
    BY <1>7 DEF TerminatedReplacement, WindowsAt
  <2>. QED BY <1>1, <1>2, <2>1, MovesOnWindows, RaisesOnWindows DEF StopsJob
<1>8. CASE StopScriptChecks \/ StopScriptStops
  <2>1. /\ ctl.at \in {"w_check", "w_stop"}
        /\ \E l \in {"w_stop", "w_verify"} : ctl' = Goto(l)
    BY <1>8 DEF StopScriptChecks, StopScriptStops, WindowsAt
  <2>2. ctl.init \in ctl.known BY <2>1 DEF Departed, Watched, Where
  <2>. QED BY <1>1, <2>1, <2>2, MovesOnWindows DEF StopsExternal
<1>9. CASE CreateJob
  <2>1. ctl.at = "j_create" /\ \E l \in {"j_assign", "j_direct"} : ctl' = Goto(l)
    BY <1>9 DEF CreateJob, WindowsAt
  <2>. QED BY <1>1, <2>1, MovesOnWindows DEF Owns
<1>10. CASE TerminateJob \/ ProveJobEmpty
  <2>1. ctl.at \in {"w_job", "w_jobterm"} /\ \E l \in {"w_jobterm", "w_reap"} : ctl' = Goto(l)
    BY <1>10 DEF TerminateJob, ProveJobEmpty, WindowsAt
  <2>. QED BY <1>1, <2>1, MovesOnWindows DEF StopsJob
<1>. QED BY <1>3, <1>4, <1>5, <1>6, <1>7, <1>8, <1>9, <1>10

LEMMA FinalizeWindowsGone ==
    ASSUME IInv, IInv', Sights, Departed, FinalizeWindows, UNCHANGED after
    PROVE  Departed'
<1>1. /\ platform = "windows" /\ ctl.at = "w_finalize" /\ UNCHANGED <<platform, proc, sidecar>>
  BY DEF FinalizeWindows, WindowsAt, Watch
<1>2. \/ ctl' = Goto("w_job") \/ ctl' = Verify(ctl, "w_job") \/ ctl' = Goto("w_evidence")
      \/ ctl' = Raise(ctl)
  <2>1. ctl.handle \in BOOLEAN /\ ctl.proven \in BOOLEAN BY Basics DEF Controllers
  <2>. QED BY <2>1 DEF FinalizeWindows
<1>3. Ages BY <1>1, SameAges
<1>4. CASE ctl' = Verify(ctl, "w_job")
  <2>1. Steady(ctl, ctl') /\ ctl'.at = "verify" /\ ctl'.ret = "w_job"
    BY <1>4, Basics, LabelsKnown, VerifySteady DEF StopsJob
  <2>2. InLane BY <1>1, WindowsOp DEF InLane
  <2>3. Where' = "w_job" BY <2>1 DEF Where
  <2>. QED BY <1>1, <1>3, <2>1, <2>2, <2>3, WindowsGone
<1>. QED BY <1>1, <1>2, <1>3, <1>4, MovesOnWindows, RaisesOnWindows DEF StopsJob

\* The tree that is snapshot has its root in it.
LEMMA SnapshotGone ==
    ASSUME IInv, IInv', Sights, Departed, SnapshotTree, UNCHANGED after
    PROVE  Departed'
<1>. DEFINE a == [ctl EXCEPT !.known = {ctl.init} \cup TreeOfPid(ctl.pid)]
<1>1. /\ platform = "windows" /\ ctl.at = "w_snap" /\ UNCHANGED <<platform, proc, sidecar>>
      /\ ctl' = Verify(a, "w_check")
  BY DEF SnapshotTree, WindowsAt, Watch
<1>2. {ctl.init} \cup TreeOfPid(ctl.pid) \subseteq Procs
  <2>1. ctl.init \in Procs BY HolderListed DEF SnapshotTree
  <2>. QED BY <2>1 DEF TreeOfPid, ChildrenOfPid
<1>3. a \in Controllers /\ Steady(ctl, a) /\ ctl.init \in a.known
  BY <1>2, Basics DEF Controllers, Steady
<1>. HIDE DEF a
<1>4. Steady(a, ctl') /\ ctl'.at = "verify" /\ ctl'.ret = "w_check" /\ ctl'.known = a.known
  BY <1>1, <1>3, LabelsKnown, VerifySteady DEF StopsExternal
<1>5. Steady(ctl, ctl') /\ ctl'.init \in ctl'.known BY <1>3, <1>4 DEF Steady
<1>6. Ages BY <1>1, SameAges
<1>7. ctl.op \in {"loss", "outer"} BY <1>1, WindowsOp DEF StopsExternal
<1>8. CASE ctl.op = "outer"
  BY <1>1, <1>4, <1>5, <1>6, <1>8, OutsideGone DEF Departed, Reported
<1>9. CASE ctl.op = "loss" BY <1>1, <1>4, <1>5, <1>6, <1>9, WindowsGone DEF InLane
<1>. QED BY <1>7, <1>8, <1>9

LEMMA LateDescendantsGone ==
    ASSUME IInv, IInv', Sights, Departed, LateDescendants, UNCHANGED after
    PROVE  Departed'
<1>. DEFINE a == Goto("wait")
<1>1. /\ platform = "windows" /\ ctl.at = "w_late" /\ UNCHANGED <<platform, proc, sidecar>>
      /\ ctl' = IF ctl.op = "outer" THEN Goto("o_stopped") ELSE [a EXCEPT !.known = {}]
  BY DEF LateDescendants, WindowsAt, Watch
<1>2. ctl.op = "outer" => ~Listed(sidecar) BY <1>1 DEF Departed, Watched
<1>3. CASE ctl.op = "outer" BY <1>1, <1>2, <1>3, MovesOnWindows DEF StopsExternal
<1>4. CASE ctl.op # "outer"
  <2>1. ctl.op = "loss" BY <1>1, <1>4, WindowsOp DEF StopsExternal
  <2>2. Steady(ctl, a) /\ a.at = "wait" /\ a \in Controllers
    BY Basics, LabelsKnown, GotoSteady, AtChanges DEF Goto, StopsPredecessor, Same
  <2>. HIDE DEF a
  <2>3. Steady(ctl, ctl') /\ ctl'.at = "wait" BY <1>1, <1>4, <2>2 DEF Steady, Controllers
  <2>4. Where' = "wait" BY <2>3 DEF Where
  <2>. QED BY <1>1, <2>1, <2>3, <2>4, SameAges, WindowsGone DEF InLane, OnWindows
<1>. QED BY <1>3, <1>4

LEMMA PopenedGone ==
    ASSUME IInv, IInv', Sights, Departed, Popened, UNCHANGED after
    PROVE  Departed'
<1>1. /\ platform = "windows" /\ ctl.at = "popened" /\ UNCHANGED <<platform, proc, sidecar>>
      /\ ctl' = Launched(proc[Replacement].pid) \/ ctl' = Raise(ctl)
  BY DEF Popened, WindowsAt, Watch
<1>2. Ages BY <1>1, SameAges
<1>3. CASE ctl' = Launched(proc[Replacement].pid)
  <2>1. proc[Replacement].pid \in Nat
    BY Numbers DEF IInv, TypeOK, HostTypeOK, Processes
  <2>2. /\ ctl'.at = "verify" /\ ctl'.ret = "commit" /\ ctl'.repl = Nobody
        /\ ctl'.op = ctl.op /\ ctl'.proven = ctl.proven /\ ctl'.fin = ctl.fin
        /\ ctl'.restarts = ctl.restarts
    BY <1>3, <2>1, LaunchedSteady
  <2>3. InLane /\ ctl.op = "loss" BY <1>1, LossGoesOn DEF InLane, Owns
  <2>4. ctl.fin # "clean" BY <1>1, <2>3, Unreported
  <2>5. Where' = "commit" /\ ctl'.at \notin Notable
    BY <2>2 DEF Where, Notable, CapturedAt, Stopping, StopsOnLinux
  <2>. QED BY <1>1, <1>2, <2>2, <2>3, <2>4, <2>5, CalmGone DEF InLane
<1>. QED BY <1>1, <1>2, <1>3, RaisesOnWindows DEF Owns

LEMMA CreateSuspendedGone ==
    ASSUME IInv, IInv', Sights, Departed, CreateSuspended, UNCHANGED after
    PROVE  Departed'
<1>1. PICK n \in {Initial, Replacement} :
         proc' = [proc EXCEPT ![Replacement] = Newborn("suspended", n, n, FALSE)]
  BY DEF CreateSuspended
<1>2. /\ ctl.at = "launch" /\ platform = "windows" /\ UNCHANGED <<platform, sidecar>>
      /\ ctl' = Goto("j_create")
  BY DEF CreateSuspended, WindowsAt
<1>3. n \in Nat BY Numbers
<1>4. ctl.repl = Nobody /\ ctl.op = "loss" /\ ctl.fin # "clean" BY <1>2, LaunchesAnew
<1>5. Steady(ctl, ctl') /\ ctl'.at = "j_create"
  BY <1>2, Basics, LabelsKnown, GotoSteady DEF Goto, Owns
<1>6. ctl'.at \notin Notable /\ ~Proving'
  BY <1>5 DEF Notable, CapturedAt, Stopping, StopsOnLinux, Proving
<1>. QED BY <1>1, <1>2, <1>3, <1>4, <1>5, <1>6, BornGone DEF Steady

\* What a step on the way changes of the replacement.
LEMMA ReplacementAges ==
    ASSUME IInv, Exists(Replacement),
           \/ proc' = [proc EXCEPT ![Replacement].job = TRUE]
           \/ /\ proc[Replacement].st = "suspended"
              /\ proc' = [proc EXCEPT ![Replacement].st = "live"]
           \/ proc' = [proc EXCEPT ![Replacement].st = "gone"]
    PROVE  Ages
<1>. Replacement \in Procs BY Numbers
<1>1. proc \in [Procs -> Processes] BY DEF IInv, TypeOK, HostTypeOK
<1>2. \A p \in Procs : p # Replacement => proc'[p] = proc[p] BY <1>1
<1>3. /\ proc'[Replacement].pid = proc[Replacement].pid
      /\ proc'[Replacement].group = proc[Replacement].group
      /\ proc'[Replacement].root = proc[Replacement].root
      /\ \/ proc'[Replacement].st = proc[Replacement].st
         \/ proc[Replacement].st = "suspended" /\ proc'[Replacement].st = "live"
         \/ proc'[Replacement].st = "gone"
  BY <1>1 DEF Processes
<1>4. Older(Replacement) BY <1>3 DEF Older, Exists, Dead, Listed
<1>5. \A p \in Procs : p # Replacement => Older(p) BY <1>2 DEF Older, Exists, Dead, Listed
<1>. QED BY <1>4, <1>5 DEF Ages

LEMMA JobGone ==
    ASSUME IInv, IInv', Sights, Departed, UNCHANGED after,
           AssignJob \/ Resume \/ UndoJob \/ TerminateUnassigned
    PROVE  Departed'
<1>1. platform = "windows" /\ ctl.at \in Owns /\ UNCHANGED <<platform, sidecar>>
  BY DEF AssignJob, Resume, UndoJob, TerminateUnassigned, WindowsAt, JobVars, Owns
<1>2. Exists(Replacement) BY <1>1 DEF IInv, Recorded, Where, Owns
<1>3. Ages
  <2>1. CASE UNCHANGED proc BY <2>1, SameAges
  <2>2. CASE proc' = Closed(proc) BY <2>2, ClosedAges
  <2>3. CASE \/ proc' = [proc EXCEPT ![Replacement].job = TRUE]
             \/ /\ proc[Replacement].st = "suspended"
                /\ proc' = [proc EXCEPT ![Replacement].st = "live"]
             \/ proc' = [proc EXCEPT ![Replacement].st = "gone"]
    BY <1>2, <2>3, ReplacementAges
  <2>. QED BY <2>1, <2>2, <2>3 DEF AssignJob, Resume, UndoJob, TerminateUnassigned
<1>4. InLane /\ ctl.at # "exiting" BY <1>1, LossGoesOn DEF InLane, Owns
<1>5. CASE ctl' = Raise(ctl) BY <1>1, <1>3, <1>5, RaisesOnWindows
<1>6. CASE \E l \in Owns : ctl' = Goto(l) \/ ctl' = [Goto(l) EXCEPT !.handle = TRUE]
  <2>1. PICK l \in Owns : ctl' = Goto(l) \/ ctl' = [Goto(l) EXCEPT !.handle = TRUE] BY <1>6
  <2>. DEFINE a == Goto(l)
  <2>2. Steady(ctl, a) /\ a.at = l /\ a \in Controllers
    BY Basics, LabelsKnown, GotoSteady, AtChanges DEF Goto, Same
  <2>3. ctl' = a \/ ctl' = [a EXCEPT !.handle = TRUE] BY <2>1
  <2>. HIDE DEF a
  <2>4. Steady(ctl, ctl') /\ ctl'.at = l BY <2>2, <2>3 DEF Steady, Controllers
  <2>5. ctl'.at \in OnWindows /\ ctl'.at # "w_close" BY <2>4 DEF OnWindows, Owns
  <2>6. Where' = l /\ l \notin {"w_check", "w_stop", "w_verify"} BY <2>4 DEF Where, Owns
  <2>. QED BY <1>1, <1>3, <1>4, <2>4, <2>5, <2>6, WindowsGone
<1>. QED BY <1>5, <1>6 DEF AssignJob, Resume, UndoJob, TerminateUnassigned, Owns

\* Nothing of the replacement's ran outside the job, so that nothing survives it.
LEMMA CloseJobGone ==
    ASSUME IInv, IInv', Sights, Departed, CloseJob, UNCHANGED after
    PROVE  Departed'
<1>1. /\ platform = "windows" /\ ctl.at = "w_close" /\ UNCHANGED <<platform, sidecar>>
      /\ \/ /\ proc' = Closed(proc)
            /\ ctl' = [ctl EXCEPT !.handle = FALSE, !.proven = TRUE, !.at = "w_closed"]
         \/ ctl' = Raise(ctl) /\ (proc' = Closed(proc) \/ UNCHANGED proc)
  BY DEF CloseJob, WindowsAt, JobVars
<1>2. Ages BY <1>1, ClosedAges, SameAges
<1>3. CASE ctl' = Raise(ctl) BY <1>1, <1>2, <1>3, RaisesOnWindows DEF StopsJob
<1>4. CASE /\ proc' = Closed(proc)
           /\ ctl' = [ctl EXCEPT !.handle = FALSE, !.proven = TRUE, !.at = "w_closed"]
  <2>1. /\ ctl'.at = "w_closed" /\ ctl'.op = ctl.op /\ ctl'.pid = ctl.pid
        /\ ctl'.restarts = ctl.restarts /\ ctl'.init = ctl.init /\ ctl'.repl = ctl.repl
        /\ ctl'.fin = ctl.fin
    BY <1>4, Basics DEF Controllers
  <2>2. ASSUME NEW p \in Procs, proc'[p].root = Replacement PROVE Dead(p)'
    <3>1. proc'[p] = IF proc[p].job THEN [proc[p] EXCEPT !.st = "gone"] ELSE proc[p]
      BY <1>4 DEF Closed
    <3>2. CASE proc[p].job
      <4>1. proc'[p].st = "gone" \/ proc'[p].st = proc[p].st BY <3>1
      <4>2. proc[p] \in Processes BY DEF IInv, TypeOK, HostTypeOK
      <4>3. proc'[p].st = "gone" BY <3>1, <3>2, <4>2 DEF Processes
      <4>. QED BY <4>3 DEF Dead
    <3>3. CASE ~proc[p].job
      <4>1. proc'[p] = proc[p] BY <3>1, <3>3
      <4>2. ~Live(p) BY <1>1, <2>2, <3>3, <4>1 DEF IInv, Contained, NeverUncontained, Lineage
      <4>3. proc[p].st # "suspended"
        BY <1>1 DEF Departed, Suspended, Emptied, Listed
      <4>. QED BY <4>1, <4>2, <4>3 DEF Dead, Live
    <3>. QED BY <3>2, <3>3
  <2>3. (\A p \in Lineage(Replacement) : Dead(p))' BY <2>2 DEF Lineage
  <2>4. ctl.op \in {"finalize", "undo"} BY <1>1, WindowsOp DEF StopsJob
  <2>5. InLane /\ ctl.fin # "clean" BY <1>1, <2>4, Unreported DEF InLane
  <2>6. Where' = "w_closed" /\ ~Proving' BY <2>1 DEF Where, Proving
  <2>7. Watched'
    BY <2>1, <2>6 DEF Watched, CapturedAt, Stopping, StopsOnLinux, StopsOnMac, Begun
  <2>8. Reported' BY <1>1, <2>1, <2>5, LaneReports
  <2>9. Succeeds(ctl') /\ Names(sidecar') BY <1>1, <2>1 DEF Departed, Paired, Succeeds
  <2>. QED BY <1>1, <1>2, <2>1, <2>3, <2>4, <2>6, <2>7, <2>8, <2>9, GoneStep
<1>. QED BY <1>1, <1>3, <1>4

LEMMA FinalizeEvidenceGone ==
    ASSUME IInv, IInv', Sights, Departed, FinalizeEvidence, UNCHANGED after
    PROVE  Departed'
<1>1. /\ platform = "windows" /\ ctl.at = "w_evidence" /\ UNCHANGED <<platform, proc, sidecar>>
      /\ (ctl.proven /\ ctl' = Cleaned(ctl)) \/ ctl' = Raise(ctl)
  BY DEF FinalizeEvidence, WindowsAt, Watch
<1>2. ctl.op = "finalize" BY <1>1, JobStopped DEF StopsJob
<1>3. ASSUME ctl.proven, ctl.restarts > 0 PROVE Cleared
  <2>1. \A p \in Lineage(Replacement) : Dead(p) BY <1>3 DEF Departed, Emptied
  <2>2. Dead(Replacement)
    BY <2>1, Numbers DEF Departed, Grouped, Lineage, Exists, Dead
  <2>3. Dead(Initial) BY <1>3 DEF Departed, Former
  <2>. QED BY <1>1, <2>1, <2>2, <2>3 DEF Cleared, NoService, Services
<1>4. Ages BY <1>1, SameAges
<1>5. CASE ctl.proven /\ ctl' = Cleaned(ctl) BY <1>1, <1>2, <1>3, <1>5, CleanedGone
<1>. QED BY <1>1, <1>4, <1>5, RaisesOnWindows

LEMMA WindowsNextGone ==
    ASSUME IInv, IInv', Sights, Departed, WindowsNext, UNCHANGED after
    PROVE  Departed'
BY PlacesGone, FinalizeWindowsGone, SnapshotGone, LateDescendantsGone, PopenedGone,
   CreateSuspendedGone, JobGone, CloseJobGone, FinalizeEvidenceGone
   DEF WindowsNext, JobNext

-----------------------------------------------------------------------------
\* The cleanup after the lane.

\* Nobody who runs under the number the sidecar led to: no service.
LEMMA NoServiceUnder ==
    ASSUME IInv, Sights, Departed, ctl.op = "outer",
           \/ Listing(ctl.pid) = {}
           \/ platform # "windows" /\ \A p \in Listing(ctl.pid) : ~Live(p)
    PROVE  NoService
<1>. USE DEF Departed
<1>0. Services = {Initial, Replacement} /\ Services \subseteq Procs BY Numbers DEF Services
<1>1. sidecar # Pending BY DEF Sights, Expecting
<1>2. ASSUME NEW s \in Services, proc[s].pid = ctl.pid PROVE Dead(s)
  <2>1. s \in Listing(ctl.pid) \/ ~Listed(s) BY <1>0, <1>2 DEF Listing
  <2>2. ~Listed(s) => Dead(s) BY DEF Listed, Dead
  <2>3. platform # "windows" /\ ~Live(s) => Dead(s) BY <1>0 DEF Suspended, Live, Dead
  <2>. QED BY <2>1, <2>2, <2>3
<1>3. CASE Exists(Replacement)
  <2>1. Dead(Replacement) BY <1>0, <1>1, <1>2, <1>3 DEF Paired, Names
  <2>2. ctl.restarts > 0 BY <1>3, Basics DEF IInv, Single
  <2>. QED BY <1>0, <2>1, <2>2 DEF Former, NoService
<1>4. CASE ~Exists(Replacement)
  <2>1. Dead(Initial) BY <1>0, <1>1, <1>2, <1>4 DEF Paired, Names
  <2>2. Dead(Replacement) BY <1>4 DEF Exists, Dead
  <2>. QED BY <1>0, <2>1, <2>2 DEF NoService
<1>. QED BY <1>3, <1>4

\* On Windows the process the sidecar names is the service there is.
LEMMA NoServiceStopped ==
    ASSUME IInv, Sights, Departed, ctl.op = "outer", ctl.at = "o_stopped"
    PROVE  NoService
<1>. USE DEF Departed
<1>0. Services = {Initial, Replacement} BY Numbers DEF Services
<1>1. platform = "windows" /\ ~Listed(sidecar) BY DEF Watched
<1>2. sidecar \in Services BY <1>1, TargetIsService DEF Target
<1>3. Dead(sidecar) BY <1>1 DEF Dead, Listed
<1>4. CASE sidecar = Initial
  <2>1. ~Exists(Replacement) BY <1>4 DEF IInv, Recorded, SidecarIsCurrent
  <2>. QED BY <1>0, <1>3, <1>4, <2>1 DEF NoService, Dead, Exists
<1>5. CASE sidecar = Replacement
  <2>1. Exists(Replacement) BY <1>1, <1>5 DEF IInv, Recorded
  <2>2. ctl.restarts > 0 BY <2>1, Basics DEF IInv, Single
  <2>. QED BY <1>0, <1>3, <1>5, <2>2 DEF NoService, Former
<1>. QED BY <1>0, <1>2, <1>4, <1>5

\* A step of the cleanup that only moves it.
LEMMA MovesOutside ==
    ASSUME IInv, IInv', Sights, Departed, ctl.op \in {"gone", "outer"},
           UNCHANGED <<platform, proc, sidecar>>,
           NEW l \in Ended \cup {"o_id", "o_id2", "o_term", "o_kill", "o_stop", "o_stop2",
                                 "o_children", "o_leader"},
           ctl' = Goto(l),
           l = "o_children" /\ ~after'.blind => NoService,
           after'.service = "ok" /\ ~after'.blind =>
              NoService \/ (after.service = "ok" /\ ~after.blind)
    PROVE  Departed'
<1>1. l \in Labels BY LabelsKnown DEF Outside
<1>2. Steady(ctl, ctl') /\ ctl'.at = l BY <1>1, Basics, GotoSteady DEF Goto
<1>3. Where' \notin {"w_check", "w_stop", "w_verify"} /\ l \notin {"w_late", "o_stopped"}
  BY <1>2 DEF Where, Ended
<1>. QED BY <1>2, <1>3, SameAges, OutsideGone

\* The step ends, with a success only over no service.
LEMMA NextGone ==
    ASSUME IInv, IInv', Sights, Departed, ctl.op \in {"gone", "outer"},
           UNCHANGED <<platform, proc, sidecar>>, NEW v \in {"ok", "failed"}, Next3(v),
           v = "ok" /\ ~after.blind => NoService
    PROVE  Departed'
<1>1. after'.service = v /\ after'.blind = after.blind BY Basics DEF Next3
<1>2. \E l \in {"r_probe", "done"} : ctl' = Goto(l) BY DEF Next3
<1>. QED BY <1>1, <1>2, MovesOutside DEF Ended

LEMMA ReadSidecarGone ==
    ASSUME IInv, IInv', Sights, Departed, ReadSidecar
    PROVE  Departed'
<1>1. ctl.at = "o_read" /\ UNCHANGED <<platform, proc, sidecar>>
  BY DEF ReadSidecar, Quiet
<1>2. ctl.op = "gone"
  BY <1>1, Basics DEF IInv, Places, Where, StopsPredecessor, StopsExternal, Restarts, Owns,
                      StopsJob, StopsOnLinux, StopsOnMac, Ended, Outside
<1>3. CASE Target = Pending /\ Next3("failed") BY <1>1, <1>2, <1>3, NextGone
<1>4. CASE /\ Target # Pending /\ UNCHANGED after
           /\ ctl' = [ctl EXCEPT !.op = "outer", !.pid = proc[Target].pid, !.init = Target,
                        !.at = IF platform = "windows" THEN "verify" ELSE "o_live",
                        !.ret = IF platform = "windows" THEN "w_snap" ELSE "o_live"]
  <2>. DEFINE there == IF platform = "windows" THEN "verify" ELSE "o_live"
              back == IF platform = "windows" THEN "w_snap" ELSE "o_live"
              a == [ctl EXCEPT !.op = "outer", !.pid = proc[Target].pid, !.init = Target]
  <2>1. /\ there \in {"verify", "o_live"} /\ back \in {"w_snap", "o_live"}
        /\ ctl' = [a EXCEPT !.at = there, !.ret = back] /\ (there = "verify" => back = "w_snap")
    BY <1>4
  <2>2. Target \in Procs /\ proc[Target].pid \in Nat
    BY <1>4, Numbers DEF Target, IInv, TypeOK, HostTypeOK, Processes
  <2>3. /\ a \in Controllers /\ a.op = "outer" /\ a.repl = ctl.repl /\ a.init = sidecar
        /\ a.pid = proc[sidecar].pid /\ a.restarts = ctl.restarts /\ a.proven = ctl.proven
        /\ a.fin = ctl.fin
    BY <2>2, Basics DEF Controllers, Target
  <2>. HIDE DEF a, there, back
  <2>4. /\ ctl'.at = there /\ ctl'.ret = back /\ ctl'.op = "outer" /\ ctl'.repl = ctl.repl
        /\ ctl'.init = sidecar /\ ctl'.pid = proc[sidecar].pid
        /\ ctl'.restarts = ctl.restarts /\ ctl'.proven = ctl.proven /\ ctl'.fin = ctl.fin
    BY <2>1, <2>3 DEF Controllers
  <2>5. ctl.repl = Nobody BY <1>2 DEF Sights, Expecting
  <2>6. Where' \in {"w_snap", "o_live"} /\ (Proving' => ctl'.ret = "w_snap")
    BY <2>1, <2>4 DEF Where, Proving
  <2>7. Watched' BY <2>1, <2>4, <2>6 DEF Watched, CapturedAt, Stopping, StopsOnLinux
  <2>8. Reported'
    BY <1>1, <1>4, <2>1, <2>4 DEF Departed, Reported, CleanMeansGone, CleanupMeansGone, Lineage, Dead
  <2>9. Succeeds(ctl') /\ Names(sidecar')
    BY <1>1, <2>1, <2>4, <2>5, Numbers DEF Departed, Paired, Succeeds
  <2>10. sidecar # Pending BY <1>4 DEF Target
  <2>11. Ages BY <1>1, SameAges
  <2>. QED BY <1>1, <2>1, <2>4, <2>6, <2>7, <2>8, <2>9, <2>10, <2>11, GoneStep
<1>. QED BY <1>3, <1>4 DEF ReadSidecar

LEMMA LookGone ==
    ASSUME IInv, IInv', Sights, Departed, LookForService \/ AwaitStop
    PROVE  Departed'
<1>1. /\ ctl.at \in {"o_live", "o_stop", "o_stop2"} /\ UNCHANGED <<platform, proc, sidecar>>
  BY DEF LookForService, AwaitStop, Quiet
<1>2. ctl.op = "outer" BY <1>1, OutsideOp
<1>3. \/ /\ Next3("ok") \/ (ctl' = Goto("o_children") /\ UNCHANGED after)
         /\ \/ Listing(ctl.pid) = {}
            \/ platform # "windows" /\ \A p \in Listing(ctl.pid) : ~Live(p)
      \/ /\ after' \in {[after EXCEPT !.service = "ok", !.blind = TRUE], [after EXCEPT !.blind = TRUE]}
         /\ ctl' \in {Goto("done"), Goto("o_children")}
      \/ ctl' \in {Goto("o_id"), Goto("o_id2"), Goto("o_term"), Goto("o_kill")} /\ UNCHANGED after
      \/ Next3("failed")
  BY DEF LookForService, AwaitStop, Present
<1>4. CASE /\ Next3("ok") \/ (ctl' = Goto("o_children") /\ UNCHANGED after)
           /\ \/ Listing(ctl.pid) = {}
              \/ platform # "windows" /\ \A p \in Listing(ctl.pid) : ~Live(p)
  <2>1. NoService BY <1>2, <1>4, NoServiceUnder
  <2>. QED BY <1>1, <1>2, <1>4, <2>1, NextGone, MovesOutside
<1>5. CASE /\ after' \in {[after EXCEPT !.service = "ok", !.blind = TRUE], [after EXCEPT !.blind = TRUE]}
           /\ ctl' \in {Goto("done"), Goto("o_children")}
  <2>1. after'.blind BY <1>5, Basics
  <2>. QED BY <1>1, <1>2, <1>5, <2>1, MovesOutside DEF Ended
<1>6. CASE ctl' \in {Goto("o_id"), Goto("o_id2"), Goto("o_term"), Goto("o_kill")} /\ UNCHANGED after
  BY <1>1, <1>2, <1>6, MovesOutside DEF Departed, Reported, CleanupMeansGone, NoService
<1>7. CASE Next3("failed") BY <1>1, <1>2, <1>7, NextGone
<1>. QED BY <1>3, <1>4, <1>5, <1>6, <1>7

LEMMA StopGone ==
    ASSUME IInv, IInv', Sights, Departed, MatchIdentity \/ SignalService \/ StopLeader
    PROVE  Departed'
<1>1. /\ ctl.at \in {"o_id", "o_id2", "o_term", "o_kill", "o_leader"}
      /\ UNCHANGED <<platform, proc, sidecar>>
      /\ \/ Next3("failed")
         \/ /\ ctl' \in {Goto("o_term"), Goto("o_kill"), Goto("o_stop"), Goto("o_stop2")}
            /\ UNCHANGED after
  BY DEF MatchIdentity, SignalService, StopLeader, Quiet
<1>2. ctl.op = "outer" BY <1>1, OutsideOp
<1>. QED BY <1>1, <1>2, NextGone, MovesOutside
         DEF Departed, Reported, CleanupMeansGone, NoService

LEMMA CountGone ==
    ASSUME IInv, IInv', Sights, Departed, CountChildren \/ WindowsStopped \/ Fallback
    PROVE  Departed'
<1>1. /\ ctl.at \in {"o_children", "o_stopped", "o_fallback"}
      /\ UNCHANGED <<platform, proc, sidecar>>
  BY DEF CountChildren, WindowsStopped, Fallback, Quiet
<1>2. ctl.op = "outer" BY <1>1, OutsideOp
<1>3. \/ Next3("ok") /\ (ctl.at = "o_fallback" => Listing(ctl.pid) = {})
      \/ Next3("failed")
      \/ ctl' = Goto("o_leader") /\ UNCHANGED after
  BY DEF CountChildren, WindowsStopped, Fallback, Present
<1>4. CASE Next3("ok") /\ (ctl.at = "o_fallback" => Listing(ctl.pid) = {})
  <2>1. CASE ctl.at = "o_children"
    BY <1>1, <1>2, <1>4, <2>1, NextGone DEF Departed, Reported
  <2>2. CASE ctl.at = "o_stopped"
    BY <1>1, <1>2, <1>4, <2>2, NoServiceStopped, NextGone
  <2>3. CASE ctl.at = "o_fallback"
    BY <1>1, <1>2, <1>4, <2>3, NoServiceUnder, NextGone
  <2>. QED BY <1>1, <2>1, <2>2, <2>3
<1>5. CASE Next3("failed") BY <1>1, <1>2, <1>5, NextGone
<1>6. CASE ctl' = Goto("o_leader") /\ UNCHANGED after
  BY <1>1, <1>2, <1>6, MovesOutside DEF Departed, Reported, CleanupMeansGone, NoService
<1>. QED BY <1>3, <1>4, <1>5, <1>6

LEMMA RouteGone ==
    ASSUME IInv, IInv', Sights, Departed, ServiceIsDead \/ Restore \/ VerifyRoute
    PROVE  Departed'
<1>1. /\ ctl.at \in {"r_probe", "r_decide", "r_verify"} /\ UNCHANGED <<platform, proc, sidecar>>
      /\ ctl' \in {Goto("r_decide"), Goto("r_verify"), Goto("done")}
      /\ \/ UNCHANGED after
         \/ after' \in {[after EXCEPT !.route = "failed"], [after EXCEPT !.route = "ok"]}
  BY DEF ServiceIsDead, Restore, VerifyRoute, RouteFails, Quiet
<1>2. ctl.op \in {"gone", "outer"}
  BY <1>1, Basics DEF IInv, Places, Where, StopsPredecessor, StopsExternal, Restarts, Owns,
                      StopsJob, StopsOnLinux, StopsOnMac, Ended, Outside
<1>3. after'.service = after.service /\ after'.blind = after.blind BY <1>1, Basics
<1>. QED BY <1>1, <1>2, <1>3, MovesOutside DEF Ended

LEMMA CleanupNextGone ==
    ASSUME IInv, IInv', Sights, Departed, CleanupNext
    PROVE  Departed'
BY ReadSidecarGone, LookGone, StopGone, CountGone, RouteGone DEF CleanupNext

-----------------------------------------------------------------------------
\* The machine, which runs on between any two steps of the controller.

LEMMA MachineAges ==
    ASSUME IInv, IInv', Sights, Departed, Ages, UNCHANGED <<ctl, after, platform, sidecar>>
    PROVE  Departed'
<1>. USE DEF Departed
<1>1. /\ NoService => NoService'
      /\ Cleared => Cleared'
      /\ \A p \in Procs : Exists(p) => Older(p)
      /\ \A s \in Services : Older(s)
  BY AgesKeeps
<1>2. sidecar \in Procs \cup {Pending} BY DEF IInv, TypeOK, HostTypeOK
<1>3. ctl.op = "outer" => (Listed(sidecar)' => Listed(sidecar))
  <2>1. ctl.op = "outer" => sidecar # Pending BY DEF Sights, Expecting
  <2>. QED BY <1>1, <1>2, <2>1 DEF Paired, Names, Older, Listed
<1>4. Watched' BY <1>3 DEF Watched, Where, Proving
<1>5. CleanMeansGone'
  BY <1>1 DEF Reported, CleanMeansGone, Cleared, NoService, Lineage
<1>6. CleanupMeansGone' BY <1>1 DEF Reported, CleanupMeansGone, NoService
<1>7. Reported' BY <1>1, <1>5, <1>6 DEF Reported
<1>8. Succeeds(ctl') /\ Names(sidecar') BY DEF Paired, Succeeds
<1>9. Where' = Where BY DEF Where
<1>10. ctl'.op = "outer" => sidecar # Pending BY DEF Sights, Expecting
<1>. QED BY <1>4, <1>7, <1>8, <1>9, <1>10, GoneStep DEF Paired, Emptied

LEMMA ExitAges ==
    ASSUME IInv, NEW p \in Procs, Exit(p) \/ Collected(p)
    PROVE  Ages
<1>1. proc \in [Procs -> Processes] BY DEF IInv, TypeOK, HostTypeOK
<1>2. CASE Exit(p)
  <2>1. PICK st \in {"zombie", "gone"} :
           proc' = [q \in Procs |->
                      IF q = p THEN [proc[p] EXCEPT !.st = st]
                      ELSE IF POSIX /\ proc[q].parent = p
                           THEN [proc[q] EXCEPT !.parent = Nobody]
                           ELSE proc[q]]
    BY <1>2 DEF Exit
  <2>2. Live(p) BY <1>2 DEF Exit
  <2>3. ASSUME NEW q \in Procs PROVE Older(q)
    <3>1. CASE q = p
      <4>1. proc'[q] = [proc[q] EXCEPT !.st = st] BY <2>1, <3>1
      <4>2. /\ proc'[q].st = st /\ proc'[q].pid = proc[q].pid /\ proc'[q].group = proc[q].group
            /\ proc'[q].root = proc[q].root
        BY <1>1, <4>1 DEF Processes
      <4>. QED BY <2>2, <3>1, <4>2 DEF Older, Exists, Dead, Listed, Live
    <3>2. CASE q # p
      <4>1. proc'[q] = proc[q] \/ proc'[q] = [proc[q] EXCEPT !.parent = Nobody]
        BY <2>1, <3>2
      <4>2. /\ proc'[q].st = proc[q].st /\ proc'[q].pid = proc[q].pid
            /\ proc'[q].group = proc[q].group /\ proc'[q].root = proc[q].root
        BY <1>1, <4>1 DEF Processes
      <4>. QED BY <4>2 DEF Older, Exists, Dead, Listed
    <3>. QED BY <3>1, <3>2
  <2>. QED BY <2>3 DEF Ages
<1>3. CASE Collected(p)
  <2>1. proc' = [proc EXCEPT ![p].st = "gone"] /\ proc[p].st = "zombie" BY <1>3 DEF Collected
  <2>2. /\ proc'[p].st = "gone" /\ proc'[p].pid = proc[p].pid /\ proc'[p].group = proc[p].group
        /\ proc'[p].root = proc[p].root
        /\ \A q \in Procs : q # p => proc'[q] = proc[q]
    BY <1>1, <2>1 DEF Processes
  <2>3. \A q \in Procs : Older(q) BY <2>1, <2>2 DEF Older, Exists, Dead, Listed
  <2>. QED BY <2>3 DEF Ages
<1>. QED BY <1>2, <1>3

LEMMA ForkAges ==
    ASSUME IInv, NEW p \in Procs, NEW c \in Descendants, Fork(p, c)
    PROVE  Ages
<1>1. proc \in [Procs -> Processes] BY DEF IInv, TypeOK, HostTypeOK
<1>2. PICK g \in {proc[p].group} \cup (IF POSIX THEN {c} ELSE {}) :
         proc' = [proc EXCEPT ![c] =
                    [st |-> "live", pid |-> c, parent |-> p, group |-> g,
                     root |-> proc[p].root, job |-> proc[p].job]]
  BY DEF Fork
<1>3. Live(p) /\ proc[c].st = "unborn" BY DEF Fork
<1>4. c \in Procs /\ c \notin Services BY Numbers
<1>5. /\ proc'[c].st = "live" /\ proc'[c].group = g /\ proc'[c].root = proc[p].root
      /\ \A q \in Procs : q # c => proc'[q] = proc[q]
  BY <1>1, <1>2, <1>4
<1>6. g = proc[p].group \/ g \notin Services BY <1>2, <1>4
<1>7. Newer(c) BY <1>3, <1>4, <1>5, <1>6 DEF Newer, Exists, Lineage
<1>8. \A q \in Procs : q # c => Older(q) BY <1>5 DEF Older, Exists, Dead, Listed
<1>. QED BY <1>7, <1>8 DEF Ages

LEMMA StrangerAges ==
    ASSUME IInv, NEW p \in Strangers, NEW n \in Pids, StrangerStarts(p, n)
    PROVE  Ages
<1>. DEFINE r == [NoProcess EXCEPT !.st = "live", !.pid = n, !.group = n]
<1>1. proc \in [Procs -> Processes] BY DEF IInv, TypeOK, HostTypeOK
<1>2. proc[p].st = "unborn" /\ proc' = [proc EXCEPT ![p] = r] BY DEF StrangerStarts
<1>3. r.st = "live" /\ r.root = Nobody BY DEF NoProcess
<1>. HIDE DEF r
<1>4. p \in Procs /\ p \notin Services /\ Nobody # Replacement BY Numbers
<1>5. proc'[p] = r /\ \A q \in Procs : q # p => proc'[q] = proc[q] BY <1>1, <1>2, <1>4
<1>6. Newer(p) BY <1>2, <1>3, <1>4, <1>5 DEF Newer, Exists
<1>7. \A q \in Procs : q # p => Older(q) BY <1>5 DEF Older, Exists, Dead, Listed
<1>. QED BY <1>6, <1>7 DEF Ages

LEMMA MachineGone ==
    ASSUME IInv, IInv', Sights, Departed, MachineNext
    PROVE  Departed'
<1>1. UNCHANGED <<ctl, after, platform, sidecar>>
  BY DEF MachineNext, controlVars, Exit, Collected, Fork, StrangerStarts, RouteChanges
<1>2. Ages
  BY ExitAges, ForkAges, StrangerAges, SameAges DEF MachineNext, RouteChanges
<1>. QED BY <1>1, <1>2, MachineAges

-----------------------------------------------------------------------------
LEMMA InitDeparted == Init => Departed
<1>. SUFFICES ASSUME Init PROVE Departed
  OBVIOUS
<1>1. IInv BY InitIInv
<1>2. /\ Initial \in Procs /\ Replacement \in Procs /\ Initial # Replacement
      /\ Initial # Nobody /\ Replacement # Nobody /\ Initial # Pending
  BY Numbers
<1>3. /\ proc[Initial].st = "live" /\ proc[Initial].pid = Initial
      /\ \A p \in Procs : p # Initial => proc[p] = NoProcess
      /\ sidecar = Initial
  BY <1>2 DEF Init, HostInit, NoProcess
<1>4. /\ ctl.at = "create" /\ ctl.op = "create" /\ ctl.repl = Nobody /\ ctl.restarts = 0
      /\ ctl.fin = "none" /\ ctl.proven = FALSE /\ after.service = "none"
  BY DEF Init, ControlInit, CleanupInit
<1>5. NoProcess.st = "unborn" /\ NoProcess.root = Nobody BY DEF NoProcess
<1>6. ~Exists(Replacement) BY <1>2, <1>3, <1>5 DEF Exists
<1>7. Where = "create" /\ ~Proving BY <1>4 DEF Where, Proving
<1>8. Suspended BY <1>2, <1>3, <1>5 DEF Suspended
<1>9. Former BY <1>4, <1>7 DEF Former
<1>10. Grouped BY <1>6 DEF Grouped
<1>11. Paired BY <1>2, <1>3, <1>4, <1>6 DEF Paired, Succeeds, Names, Exists
<1>12. Watched BY <1>4, <1>7 DEF Watched, CapturedAt, Stopping, StopsOnLinux
<1>13. Emptied BY <1>4, <1>7 DEF Emptied
<1>14. Reported BY <1>4 DEF Reported, CleanMeansGone, CleanupMeansGone
<1>. QED BY <1>8, <1>9, <1>10, <1>11, <1>12, <1>13, <1>14 DEF Departed

LEMMA NextDeparted ==
    ASSUME IInv, Sights, Departed, [Next]_vars
    PROVE  Departed'
<1>1. IInv' BY NextIInv
<1>2. CASE UNCHANGED vars
  <2>1. UNCHANGED <<ctl, after, platform, proc, sidecar>>
    BY <1>2 DEF vars, hostVars, controlVars
  <2>. QED BY <1>1, <2>1, SameAges, MachineAges
<1>. QED
  BY <1>1, <1>2, MachineGone, ControlNextGone, LinuxNextGone, MacNextGone, WindowsNextGone,
     CleanupNextGone
     DEF Next

LEMMA DepartedInvariant == Spec => [](IInv /\ Sights /\ Departed)
<1>1. Init => IInv /\ Sights /\ Departed BY InitIInv, InitSights, InitDeparted
<1>2. IInv /\ Sights /\ Departed /\ [Next]_vars => (IInv /\ Sights /\ Departed)'
  BY NextIInv, NextSights, NextDeparted
<1>. QED BY <1>1, <1>2, PTL DEF Spec

\* A finalization that succeeds after a restart leaves no service running, on
\* Windows nobody of the replacement's and on macOS nobody of its group,
\* whatever exits, forks or takes over a number between the steps of the
\* finalizers of hosted/linux.py, hosted/macos.py and hosted/windows.py, and
\* it stays so whatever comes after the lane.
THEOREM CleanIsGone == Spec => []CleanMeansGone
<1>1. Departed => CleanMeansGone BY DEF Departed, Reported
<1>. QED BY <1>1, DepartedInvariant, PTL

\* A cleanup of the functional workflows that succeeds without a probe having
\* failed has left no service running, wherever the lane stopped before it and
\* whichever of the two services the sidecar names.
THEOREM CleanupIsGone == Spec => []CleanupMeansGone
<1>1. Departed => CleanupMeansGone BY DEF Departed, Reported
<1>. QED BY <1>1, DepartedInvariant, PTL
=============================================================================

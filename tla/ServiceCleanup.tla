--------------------------- MODULE ServiceCleanup ---------------------------
(***************************************************************************)
(* What runs after the lane whatever happened to it: the always() cleanup  *)
(* of functional.yml, functional-macos.yml and functional-windows.yml with *)
(* hosted/finalize_windows_service.py, and on macOS the restoration of the *)
(* default route by hosted/macos_route.py.  All they know of the lane is   *)
(* the sidecar, and on Windows whether the functional step succeeded.      *)
(***************************************************************************)
EXTENDS WindowsService

VARIABLE after      \* outcome of the cleanup steps

CleanupInit == after = [service |-> "none", blind |-> FALSE, route |-> "none"]

Target == sidecar
Quiet == UNCHANGED <<job, platform, proc, harmed, sidecar, pidFile>>

\* The next step of the workflow after the service cleanup.
Next3(outcome) ==
    /\ after' = [after EXCEPT !.service = outcome]
    /\ ctl' = Goto(IF platform = "macos" THEN "r_probe" ELSE "done")

\* Mutant of ReadSidecar: where no identity is recorded nothing is to be stopped.
NothingRecorded ==
    /\ ctl.at = "o_read"
    /\ IF Target = Pending
       THEN Next3("ok")
       ELSE /\ ctl' = [ctl EXCEPT !.op = "outer", !.pid = proc[Target].pid, !.init = Target,
                         !.at = IF platform = "windows" THEN "verify" ELSE "o_live",
                         !.ret = IF platform = "windows" THEN "w_snap" ELSE "o_live"]
            /\ UNCHANGED after
    /\ Quiet /\ UNCHANGED <<born, route>>

\* A sidecar without an identity fails closed; the PID file is no authority.
ReadSidecar ==
    /\ ctl.at = "o_read"
    /\ IF Target = Pending
       THEN Next3("failed")
       ELSE /\ ctl' = [ctl EXCEPT !.op = "outer", !.pid = proc[Target].pid, !.init = Target,
                         !.at = IF platform = "windows" THEN "verify" ELSE "o_live",
                         !.ret = IF platform = "windows" THEN "w_snap" ELSE "o_live"]
            /\ UNCHANGED after
    /\ Quiet /\ UNCHANGED <<born, route>>

\* The service is looked for.  functional.yml takes a probe that fails for an
\* absent process (blind); macOS tells the two apart and fails closed.
Present == Listing(ctl.pid) # {}

LookForService ==
    /\ ctl.at = "o_live"
    /\ \/ /\ platform = "linux"
          /\ \A p \in Listing(ctl.pid) : ~Live(p)
          /\ Next3("ok") /\ UNCHANGED born
       \/ /\ platform = "linux"
          /\ after' = [after EXCEPT !.service = "ok", !.blind = TRUE]
          /\ ctl' = Goto("done") /\ UNCHANGED born
       \/ /\ platform = "linux" /\ \E p \in Listing(ctl.pid) : Live(p)
          /\ ctl' = Goto("o_id") /\ UNCHANGED <<born, after>>
       \/ /\ platform = "macos" /\ ~Present
          /\ ctl' = Goto("o_children") /\ UNCHANGED <<born, after>>
       \/ /\ platform = "macos" /\ Holder(ctl.pid) = Target /\ Live(Target)
          /\ ctl' = Goto("o_term") /\ Proved /\ UNCHANGED after
       \/ /\ platform = "macos"
          /\ Next3("failed") /\ UNCHANGED born
    /\ Quiet /\ UNCHANGED route

\* identity_matches, before each of the two signals on Linux: executable,
\* start time and group.
MatchIdentity ==
    /\ ctl.at \in {"o_id", "o_id2"}
    /\ \/ /\ Holder(ctl.pid) = Target /\ Live(Target) /\ Target \in Services
          /\ ctl' = Goto(IF ctl.at = "o_id" THEN "o_term" ELSE "o_kill")
          /\ Proved /\ UNCHANGED after
       \/ Next3("failed") /\ UNCHANGED born
    /\ Quiet /\ UNCHANGED route

\* kill -TERM, and kill -KILL for one that resists, to the process alone.
SignalService ==
    /\ ctl.at \in {"o_term", "o_kill"}
    /\ \/ /\ Signal(Listing(ctl.pid))
          /\ ctl' = Goto(IF ctl.at = "o_term" THEN "o_stop" ELSE "o_stop2")
          /\ UNCHANGED after
       \/ Next3("failed") /\ UNCHANGED harmed
    /\ UNCHANGED <<job, platform, proc, born, sidecar, pidFile, route>>

\* The wait after a signal ends with the service gone or with the time up.
AwaitStop ==
    /\ ctl.at \in {"o_stop", "o_stop2"}
    /\ \/ /\ IF platform = "linux" THEN \A p \in Listing(ctl.pid) : ~Live(p) ELSE ~Present
          /\ ctl' = Goto("o_children") /\ UNCHANGED <<born, after>>
       \/ /\ platform = "linux"
          /\ after' = [after EXCEPT !.blind = TRUE]
          /\ ctl' = Goto("o_children") /\ UNCHANGED born
       \/ /\ ctl.at = "o_stop" /\ platform = "linux"
          /\ ctl' = Goto("o_id2") /\ UNCHANGED <<born, after>>
       \/ /\ ctl.at = "o_stop" /\ platform = "macos"
          /\ Holder(ctl.pid) = Target /\ Live(Target)
          /\ ctl' = Goto("o_kill") /\ Proved /\ UNCHANGED after
       \/ Next3("failed") /\ UNCHANGED born
    /\ Quiet /\ UNCHANGED route

\* Nobody may have the stopped service for a parent.
CountChildren ==
    /\ ctl.at = "o_children"
    /\ IF ChildrenOfPid(ctl.pid) = {} THEN Next3("ok") \/ Next3("failed") ELSE Next3("failed")
    /\ Quiet /\ UNCHANGED <<born, route>>

\* Windows: finalize_windows_service stopped the tree of the sidecar's
\* process, or else the leader-only fallback may accept an absent process,
\* but only if the functional step succeeded.
FunctionalSucceeded == ctl.loss = "ok" /\ ctl.fin = "clean"

WindowsStopped ==
    /\ ctl.at = "o_stopped"
    /\ Next3("ok") \/ Next3("failed")
    /\ Quiet /\ UNCHANGED <<born, route>>

Fallback ==
    /\ ctl.at = "o_fallback"
    /\ \/ ~Present /\ FunctionalSucceeded /\ Next3("ok") /\ UNCHANGED born
       \/ Holder(ctl.pid) = Target /\ ctl' = Goto("o_leader") /\ Proved /\ UNCHANGED after
       \/ Next3("failed") /\ UNCHANGED born
    /\ Quiet /\ UNCHANGED route

StopLeader ==
    /\ ctl.at = "o_leader"
    /\ Signal(Listing(ctl.pid))
    /\ Next3("failed")
    /\ UNCHANGED <<job, platform, proc, born, sidecar, pidFile, route>>

-----------------------------------------------------------------------------
\* macos_route.restore: only over a service proved dead by its sidecar.

RouteFails == ctl' = Goto("done") /\ after' = [after EXCEPT !.route = "failed"]

\* Mutant of ServiceIsDead: a valid sidecar is taken for the service's death.
ServiceAssumedDead ==
    /\ ctl.at = "r_probe"
    /\ \/ Target # Pending /\ ctl' = Goto("r_decide") /\ UNCHANGED after
       \/ RouteFails
    /\ Quiet /\ UNCHANGED <<born, route>>

ServiceIsDead ==
    /\ ctl.at = "r_probe"
    /\ \/ /\ Target # Pending /\ Listing(proc[Target].pid) = {}
          /\ ctl' = Goto("r_decide") /\ UNCHANGED after
       \/ RouteFails
    /\ Quiet /\ UNCHANGED <<born, route>>

\* decide_restore: an absent route is added, a tunnel's is changed back (away,
\* both), the baseline needs nothing, anything else is ambiguous.
Restore ==
    /\ ctl.at = "r_decide"
    /\ \/ /\ route \in {"baseline", "away"}
          /\ route' = "baseline" /\ ctl' = Goto("r_verify") /\ UNCHANGED after
       \/ RouteFails /\ UNCHANGED route
    /\ Quiet /\ UNCHANGED born

VerifyRoute ==
    /\ ctl.at = "r_verify"
    /\ \/ route = "baseline" /\ ctl' = Goto("done") /\ after' = [after EXCEPT !.route = "ok"]
       \/ RouteFails
    /\ Quiet /\ UNCHANGED <<born, route>>

CleanupNext ==
    \/ ReadSidecar \/ LookForService \/ MatchIdentity \/ SignalService \/ AwaitStop
    \/ CountChildren \/ WindowsStopped \/ Fallback \/ StopLeader
    \/ ServiceIsDead \/ Restore \/ VerifyRoute
=============================================================================

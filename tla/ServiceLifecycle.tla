-------------------------- MODULE ServiceLifecycle --------------------------
(***************************************************************************)
(* The life of the VPN service under one hosted lane, on each of the three *)
(* desktop platforms: the lane's controller, the workflow's cleanup after  *)
(* it, and the machine, which runs on by itself all the time.              *)
(***************************************************************************)
EXTENDS ServiceCleanup

vars == <<hostVars, controlVars, after>>

Init == HostInit /\ ControlInit /\ CleanupInit

MachineNext ==
    /\ \/ \E p \in Procs : Exit(p)
       \/ \E p \in Procs : Collected(p)
       \/ \E p \in Procs, c \in Descendants : Fork(p, c)
       \/ \E p \in Strangers, n \in Pids : StrangerStarts(p, n)
       \/ \E p \in Services, r \in {"away", "foreign"} : RouteChanges(p, r)
    /\ UNCHANGED <<controlVars, after>>

Next ==
    \/ MachineNext
    \/ /\ ControlNext \/ LinuxNext \/ MacNext \/ WindowsNext
       /\ UNCHANGED after
    \/ CleanupNext

Spec == Init /\ [][Next]_vars

-----------------------------------------------------------------------------
TypeOK ==
    /\ HostTypeOK /\ ControlTypeOK
    /\ after \in [service : {"none", "ok", "failed"}, blind : BOOLEAN,
                  route : {"none", "ok", "failed"}]

\* A signal goes to the process it was meant for, with two exceptions.  A
\* process that took over the number after the proof next to the signal can
\* be hit, in the gap no program can close.  And on macOS a process that took
\* over the number of a listed member before its first probe is taken for
\* that member (macos.py:556-604), proved again as what it is and killed.  No
\* other unrelated process is ever signalled.
Adopted == IF platform = "macos" THEN ctl.taken ELSE {}
OnlyProvenSignalled == harmed \subseteq Adopted

\* The sidecar never names a predecessor once its successor exists, not even
\* if the lane is killed between two steps of the restart: the cleanup that
\* reads it would otherwise certify the wrong process.
Exists(p) == proc[p].st # "unborn"
SidecarIsCurrent == sidecar = Initial => ~Exists(Replacement)

\* A finalization that reports success leaves no service behind that the
\* controller has launched; on Windows nothing of the job, on macOS nothing in
\* the service's group.
Dead(p) == proc[p].st \notin {"live", "suspended"}
CleanMeansGone ==
    ctl.fin = "clean" /\ ctl.restarts > 0 =>
        /\ \A s \in Services : Dead(s)
        /\ platform = "windows" => \A p \in Lineage(Replacement) : Dead(p)
        /\ platform = "macos" =>
              \A p \in Lineage(Replacement) :
                 proc[p].group = proc[Replacement].group => Dead(p)

\* hosted/linux.py:748: "Never certify cleanup from a leader disappearance
\* alone": success means that every process captured with the replacement is
\* dead, those that have left its group included.
CapturedAreGone == ctl.fin = "clean" => \A p \in ctl.seen : Dead(p)

\* On Windows a replacement never runs outside an open kill-on-close job, so
\* that it cannot outlive the lane, however the lane ends.
NeverUncontained ==
    platform = "windows" =>
        \A p \in Lineage(Replacement) : Live(p) => proc[p].job /\ job.open

\* A cleanup after the lane that reports success leaves no service running,
\* unless a probe of functional.yml failed and was taken for an absence.
CleanupMeansGone ==
    after.service = "ok" /\ ~after.blind => \A s \in Services : Dead(s)

\* A restored default route stays: it is restored only when no service is
\* left that could take it away again.
RouteStaysRestored == after.route = "ok" => route = "baseline"
=============================================================================

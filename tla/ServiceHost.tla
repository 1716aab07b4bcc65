---------------------------- MODULE ServiceHost ----------------------------
(***************************************************************************)
(* The machine a hosted lane runs on, as far as the service controllers    *)
(* of hosted/linux.py, hosted/macos.py and hosted/windows.py can see it:   *)
(* the process table, process groups, the identity sidecar, the PID file   *)
(* and, on macOS, the default route.                                       *)
(*                                                                         *)
(* A process number stands for an identity, a PID with its start time; the *)
(* PID itself is a number that is free again once nothing in the table     *)
(* carries it.                                                             *)
(***************************************************************************)
EXTENDS Naturals, FiniteSets

CONSTANTS
    Platforms,      \* the platforms an instance looks at
    Descendants,    \* processes the service may fork
    Strangers,      \* processes that have nothing to do with the service
    Pids            \* numbers a stranger may be given

Initial == 1            \* the service the workflow launched
Replacement == 2        \* the one launched by the process-loss scenario
Services == {Initial, Replacement}
Procs == Services \cup Descendants \cup Strangers
Nobody == 0
Pending == 0            \* the sidecar's invalid marker, "pending\n"
LauncherGroup == 9      \* on Linux the launcher's group, which its child keeps

ASSUME HostAssumption ==
    /\ Platforms \subseteq {"linux", "macos", "windows"}
    /\ Descendants \subseteq 3..8 /\ Strangers \subseteq 3..8
    /\ Descendants \cap Strangers = {}
    /\ Pids \subseteq Nat \ {0}

VARIABLES
    platform,   \* chosen by factory.py from the --platform argument
    proc,       \* the process table
    born,       \* processes born since the last proof of an identity before a signal
    harmed,     \* strangers signalled although they were there at that proof
    sidecar,    \* the identity file: Pending or the process it names
    pidFile,    \* the PID file
    route       \* the default route, on macOS

hostVars == <<platform, proc, born, harmed, sidecar, pidFile, route>>

POSIX == platform # "windows"

\* What the table holds: a zombie is still listed, as is a suspended process.
Listed(p) == proc[p].st \in {"live", "zombie", "suspended"}
Live(p) == proc[p].st = "live"
Listing(n) == {p \in Procs : Listed(p) /\ proc[p].pid = n}
Holder(n) == IF Listing(n) = {} THEN Nobody ELSE CHOOSE p \in Listing(n) : TRUE

\* A number is handed out again when no process and no group carries it.
Free(n) == \A p \in Procs : Listed(p) => proc[p].pid # n /\ (POSIX => proc[p].group # n)

InGroup(g) == {p \in Procs : Live(p) /\ proc[p].group = g}
Lineage(s) == {p \in Procs : proc[p].root = s}
Children(p) == {c \in Procs : Listed(c) /\ proc[c].parent = p}

\* ParentProcessId is a number, so on Windows a process also answers for
\* the orphans of an earlier holder of its PID.
ChildrenOfPid(n) ==
    {c \in Procs : Listed(c) /\ proc[c].parent # Nobody /\ proc[proc[c].parent].pid = n}

\* The tree a census draws from one process: links that were cut when a
\* parent died are not in it.
Tree(p) ==
    LET level1 == Children(p)
        level2 == UNION {Children(c) : c \in level1}
    IN  {p} \cup level1 \cup level2

TreeOfPid(n) ==
    LET level1 == ChildrenOfPid(n)
        level2 == UNION {ChildrenOfPid(proc[c].pid) : c \in level1}
    IN  level1 \cup level2

NoProcess == [st |-> "unborn", pid |-> 0, parent |-> Nobody, group |-> 0,
              root |-> Nobody, job |-> FALSE]

HostInit ==
    /\ platform \in Platforms
    /\ proc = [p \in Procs |->
                 IF p = Initial
                 THEN [NoProcess EXCEPT !.st = "live", !.pid = Initial,
                                        !.group = Initial, !.root = Initial]
                 ELSE NoProcess]
    /\ born = {} /\ harmed = {}
    /\ sidecar = Initial /\ pidFile = Initial
    /\ route = "baseline"

-----------------------------------------------------------------------------
\* Steps of the machine itself.

\* A process ends, by itself or because of a signal.  On POSIX its children
\* go to another parent and it stays a zombie until it is collected; on
\* Windows the children keep the number of their dead parent.
Exit(p) ==
    /\ Live(p)
    /\ \E st \in IF POSIX THEN {"zombie", "gone"} ELSE {"gone"} :
          proc' = [q \in Procs |->
                     IF q = p THEN [proc[p] EXCEPT !.st = st]
                     ELSE IF POSIX /\ proc[q].parent = p
                          THEN [proc[q] EXCEPT !.parent = Nobody]
                          ELSE proc[q]]
    /\ UNCHANGED <<platform, born, harmed, sidecar, pidFile, route>>

Collected(p) ==
    /\ proc[p].st = "zombie"
    /\ proc' = [proc EXCEPT ![p].st = "gone"]
    /\ UNCHANGED <<platform, born, harmed, sidecar, pidFile, route>>

\* The service or a descendant forks.  The child inherits group and job; on
\* POSIX it may have left the group by the time anybody looks (setsid).
Fork(p, c) ==
    /\ Live(p) /\ proc[p].root # Nobody
    /\ c \in Descendants /\ proc[c].st = "unborn" /\ Free(c)
    /\ \A d \in Descendants : d < c => proc[d].st # "unborn"
    /\ \E g \in {proc[p].group} \cup (IF POSIX THEN {c} ELSE {}) :
          proc' = [proc EXCEPT ![c] =
                     [st |-> "live", pid |-> c, parent |-> p, group |-> g,
                      root |-> proc[p].root, job |-> proc[p].job]]
    /\ born' = born \cup {c}
    /\ UNCHANGED <<platform, harmed, sidecar, pidFile, route>>

\* An unrelated process starts, and may be given a number that was used before.
StrangerStarts(p, n) ==
    /\ p \in Strangers /\ proc[p].st = "unborn"
    /\ n \in Pids /\ Free(n)
    /\ proc' = [proc EXCEPT ![p] = [NoProcess EXCEPT !.st = "live", !.pid = n, !.group = n]]
    /\ born' = born \cup {p}
    /\ UNCHANGED <<platform, harmed, sidecar, pidFile, route>>

\* A running VPN client changes the default route: it is a tunnel's or missing
\* (away), or one that is neither of these nor the baseline.
RouteChanges(p, r) ==
    /\ platform = "macos" /\ p \in Services /\ Live(p)
    /\ r \in {"away", "foreign"} /\ route # r
    /\ route' = r
    /\ UNCHANGED <<platform, proc, born, harmed, sidecar, pidFile>>

-----------------------------------------------------------------------------
\* What a command of the controller does to the machine.

\* An identity has just been read and is the expected one.
Proved == born' = {}

\* A signal is delivered.  It takes effect as an Exit at some later time, or
\* never; what is recorded is whether it could have hit a stranger that the
\* proof before it should have met.
Signal(targets) ==
    harmed' = harmed \cup {p \in targets : proc[p].root = Nobody /\ p \notin born}

Processes == [st : {"unborn", "suspended", "live", "zombie", "gone"},
              pid : Nat, parent : Procs \cup {Nobody}, group : Nat,
              root : Services \cup {Nobody}, job : BOOLEAN]

HostTypeOK ==
    /\ platform \in Platforms
    /\ proc \in [Procs -> Processes]
    /\ born \subseteq Procs /\ harmed \subseteq Procs
    /\ sidecar \in Procs \cup {Pending}
    /\ pidFile \in Nat
    /\ route \in {"baseline", "away", "foreign"}
=============================================================================

---------------------------- MODULE ProcessTree ----------------------------
(***************************************************************************)
(* The Linux processes of one hosted command: the supervisor that          *)
(* SubprocessRunner.run starts, the command itself (the leader) and what   *)
(* the command forks.  This is the part of the kernel that                 *)
(* hosted/linux_subreaper.py and hosted/cli.py rely on: parents, zombies,  *)
(* PR_SET_CHILD_SUBREAPER, the process group of start_new_session and      *)
(* SIGKILL.  None of it is code of the repository.                         *)
(*                                                                         *)
(* Processes are numbered in the order of their creation, so that a number *)
(* stands for the pair (pid, start time) the runner calls an identity.     *)
(***************************************************************************)
EXTENDS Integers

CONSTANT MaxProcesses    \* bound: the leader and the processes forked after it

ASSUME TreeAssumption == MaxProcesses \in Nat \ {0}

VARIABLES
    state,     \* process -> its state
    parent,    \* process -> who waits for it
    group,     \* process -> the leader of its process group
    born       \* the number of the youngest process

treeVars == <<state, parent, group, born>>

Supervisor == 0
Leader == 1
Candidates == 1..MaxProcesses    \* the command's processes
Processes == {Supervisor} \cup Candidates
Outside == -1                    \* the runner for the supervisor, init for the others

\* "doomed": SIGKILL was sent and has not taken effect yet; such a process
\* forks no more, but one in an uninterruptible sleep may stay for long.
States == {"unborn", "live", "doomed", "zombie", "gone"}

TreeTypeOK ==
    /\ state \in [Processes -> States]
    /\ parent \in [Processes -> Processes \cup {Outside}]
    /\ group \in [Processes -> Processes]
    /\ born \in 0..MaxProcesses

TreeInit ==
    /\ state = [p \in Processes |-> "unborn"]
    /\ parent = [p \in Processes |-> Outside]
    /\ group = [p \in Processes |-> Supervisor]
    /\ born = 0

Alive(p) == state[p] \in {"live", "doomed"}
Exists(p) == Alive(p) \/ state[p] = "zombie"
Kids(p) == {c \in Candidates : Exists(c) /\ parent[c] = p}

\* Mutant: the supervisor is no subreaper.
NoAdopter(p) == Outside

\* _enable_subreaper: an orphan goes to the nearest subreaper among its ancestors.
Adopter(p) == IF p # Supervisor /\ Alive(Supervisor) THEN Supervisor ELSE Outside

\* p ends.  init reaps at once, every other parent has to.
Die(p) ==
    /\ parent' = [c \in Processes |-> IF c \in Kids(p) THEN Adopter(p) ELSE parent[c]]
    /\ state' = [q \in Processes |->
         CASE q = p -> IF p # Supervisor /\ parent[p] = Outside THEN "gone" ELSE "zombie"
           [] q \in Kids(p) /\ state[q] = "zombie" /\ Adopter(p) = Outside -> "gone"
           [] OTHER -> state[q]]
    /\ UNCHANGED <<group, born>>

\* SIGKILL for every living process of S.
Doom(S) ==
    /\ state' = [p \in Processes |-> IF p \in S /\ state[p] = "live" THEN "doomed" ELSE state[p]]
    /\ UNCHANGED <<parent, group, born>>

\* The parent of the zombie p collects its status.
Bury(p) ==
    /\ state[p] = "zombie"
    /\ state' = [state EXCEPT ![p] = "gone"]
    /\ UNCHANGED <<parent, group, born>>

\* The parents of the processes below root lead to it.
Below(root) ==
    LET under[p \in Processes] ==
            \/ p = root
            \/ parent[p] \in 0..(p - 1) /\ under[parent[p]]
    IN {p \in Processes : Exists(p) /\ under[p]}

----------------------------------------------------------------------------
\* What the command's processes do.

Fork(p) ==
    /\ p \in Candidates /\ state[p] = "live"
    /\ born < MaxProcesses
    /\ born' = born + 1
    /\ state' = [state EXCEPT ![born + 1] = "live"]
    /\ parent' = [parent EXCEPT ![born + 1] = p]
    /\ group' = [group EXCEPT ![born + 1] = group[p]]

\* setsid: p leaves its group for one of its own.
Detach(p) ==
    /\ p \in Candidates /\ state[p] = "live" /\ group[p] # p
    /\ group' = [group EXCEPT ![p] = p]
    /\ UNCHANGED <<state, parent, born>>

Exit(p) == p \in Candidates /\ Alive(p) /\ Die(p)

\* A parent that is one of the command's processes waits.
Collect(p) == p \in Candidates /\ parent[p] \in Candidates /\ Bury(p)

\* The SIGKILL sent to the supervisor takes effect.
SupervisorDies == state[Supervisor] = "doomed" /\ Die(Supervisor)

\* Somebody else kills the supervisor: the command, or the OOM killer.
SupervisorShot == state[Supervisor] = "live" /\ Doom({Supervisor})

Environment ==
    \/ \E p \in Candidates : Fork(p) \/ Detach(p) \/ Exit(p) \/ Collect(p)
    \/ SupervisorDies
    \/ SupervisorShot
=============================================================================

-------------------------- MODULE CommandRunProofs --------------------------
(***************************************************************************)
(* For any number of processes.  The supervisor: while it lives no process *)
(* of the command escapes it, and if it reports a complete containment it  *)
(* has outlived all of them.  The argument is that the parent of a process *)
(* is older than the process, so that a supervisor without children is a   *)
(* supervisor without descendants.                                         *)
(*                                                                         *)
(* SubprocessRunner.run: it lets the supervisor do only what the           *)
(* supervisor does by itself, it returns a result only for a command of    *)
(* which nothing is left, and it retains at most one record.  Every step   *)
(* of run is a step of the supervisor's specification or leaves its        *)
(* variables alone, so that the supervisor's invariant holds here as well. *)
(***************************************************************************)
EXTENDS CommandRun, FiniteSetTheorems, WellFoundedInduction, TLAPS

\* A set of naturals has a least element; the library's induction theorems
\* take a predicate as their argument, this one follows from the
\* well-foundedness of inclusion on finite sets.
LEMMA Lowest ==
    ASSUME NEW T, T \subseteq Nat, T # {}
    PROVE  \E x \in T : \A y \in T : x <= y
<1> DEFINE Segments == {0..n : n \in T}
           R == StrictSubsetOrdering(Nat)
<1>1. Segments \subseteq FiniteSubsetsOf(Nat)
  <2>1. \A n \in T : IsFiniteSet(0..n) /\ 0..n \subseteq Nat
    BY FS_Interval
  <2>. QED BY <2>1 DEF FiniteSubsetsOf
<1>2. PICK s \in Segments : \A y \in Segments : <<y, s>> \notin R
  <2>. HIDE DEF R
  <2>1. IsWellFoundedOn(R, FiniteSubsetsOf(Nat))
    BY FS_StrictSubsetOrderingWellFounded DEF R
  <2>. Segments # {} OBVIOUS
  <2>. HIDE DEF Segments
  <2>. QED BY <2>1, <1>1, WFMin
<1>3. PICK x \in T : s = 0..x OBVIOUS
<1>4. ASSUME NEW y \in T PROVE ~(y < x)
  <2>1. SUFFICES ASSUME y < x PROVE FALSE OBVIOUS
  <2>2. x \in 0..x /\ x \notin 0..y BY <2>1
  <2>3. 0..y \subseteq Nat /\ 0..x \subseteq Nat /\ 0..y \subseteq 0..x /\ 0..y # 0..x
    BY <2>1, <2>2
  <2>4. <<0..y, s>> \in R BY <2>3, <1>3 DEF StrictSubsetOrdering
  <2>. QED BY <2>4, <1>2
<1>. QED BY <1>4

----------------------------------------------------------------------------
\* The inductive invariant.

\* Exactly the processes up to born have been forked.
Numbered == \A p \in Candidates : state[p] = "unborn" <=> p > born

\* The supervisor's life follows its program.
Lived ==
    /\ sup = "idle" <=> state[Supervisor] = "unborn"
    /\ sup \in {"idle", "setup"} => born = 0
    /\ sup \notin {"idle", "setup", "left"} => born >= Leader
    /\ sup = "left" => ~Alive(Supervisor)

\* COMPLETE is the last word of the supervisor.
Unfinished == sup # "left" => ~Wrote("COMPLETE")

NoneExists == \A p \in Candidates : ~Exists(p)

\* It is only written when no process is left, or after what says otherwise.
Reported ==
    /\ sup = "report" /\ found # "uncontained" => NoneExists
    /\ Wrote("COMPLETE") /\ ~Wrote("SURVIVOR_UNCONTAINED") => NoneExists

IInv == SupervisorTypeOK /\ Numbered /\ Lived /\ NoneEscapes /\ Unfinished /\ Reported

\* The domain of the processes in arithmetic.
LEMMA Numbers ==
    /\ MaxProcesses \in Nat /\ MaxProcesses >= 1
    /\ Supervisor = 0 /\ Leader = 1 /\ Outside = -1
    /\ Candidates = 1..MaxProcesses
    /\ Processes = 0..MaxProcesses
BY TreeAssumption DEF Supervisor, Leader, Outside, Candidates, Processes

\* A supervisor without children has no descendants.
LEMMA NoKidsNobody ==
    ASSUME SupervisorTypeOK, NoneEscapes, Alive(Supervisor), Kids(Supervisor) = {}
    PROVE  NoneExists
<1> DEFINE Rest == {p \in Candidates : Exists(p)}
<1>1. SUFFICES ASSUME Rest # {} PROVE FALSE
  BY DEF NoneExists
<1>2. Rest \subseteq Nat
  BY Numbers
<1>3. PICK p \in Rest : \A q \in Rest : p <= q
  <2>. HIDE DEF Rest
  <2>. QED BY <1>1, <1>2, Lowest
<1>4. parent[p] # Supervisor
  BY DEF Kids
<1>5. parent[p] \in 1..(p - 1) /\ Alive(parent[p])
  BY <1>4 DEF NoneEscapes, Kept
<1>6. parent[p] \in Rest
  BY <1>5, Numbers DEF Exists
<1>. QED BY <1>3, <1>5, <1>6, Numbers

----------------------------------------------------------------------------
\* What happens to the tree.

Tree == TreeTypeOK /\ Numbered /\ NoneEscapes

\* No process comes into being or back to life.
Quiet ==
    /\ born' = born
    /\ \A p \in Processes : /\ state'[p] = "unborn" <=> state[p] = "unborn"
                            /\ Exists(p)' => Exists(p)
                            /\ Alive(p)' => Alive(p)

\* A process ends.
LEMMA DieSafe ==
    ASSUME Tree, NEW p \in Processes, Alive(p), Die(p)
    PROVE  Tree' /\ Quiet
<1>. USE DEF Tree
<1>1. Kids(p) \subseteq Candidates /\ Adopter(p) \in Processes \cup {Outside}
  BY Numbers DEF Kids, Adopter
<1>2. TreeTypeOK'
  BY <1>1 DEF Die, TreeTypeOK, States
<1>3. Quiet
  <2>1. ASSUME NEW q \in Processes
        PROVE  /\ state'[q] = "unborn" <=> state[q] = "unborn"
               /\ Exists(q)' => Exists(q)
               /\ Alive(q)' => Alive(q)
    <3>1. CASE q = p
      BY <3>1 DEF Die, Alive, Exists
    <3>2. CASE q # p /\ q \in Kids(p) /\ state[q] = "zombie" /\ Adopter(p) = Outside
      BY <3>2 DEF Die, Alive, Exists
    <3>3. CASE q # p /\ ~(q \in Kids(p) /\ state[q] = "zombie" /\ Adopter(p) = Outside)
      BY <3>3 DEF Die, Alive, Exists
    <3>. QED BY <3>1, <3>2, <3>3
  <2>. QED BY <2>1 DEF Quiet, Die
<1>4. Numbered'
  BY <1>3, Numbers DEF Quiet, Numbered
<1>5. NoneEscapes'
  <2>1. SUFFICES ASSUME Alive(Supervisor)', NEW c \in Candidates, Exists(c)'
                 PROVE  Kept(c)'
    BY DEF NoneEscapes
  <2>2. Alive(Supervisor) /\ p # Supervisor /\ Exists(c)
    BY <2>1, <1>3, Numbers DEF Quiet, Die, Alive
  <2>3. Adopter(p) = Supervisor
    BY <2>2 DEF Adopter
  <2>4. CASE c \in Kids(p)
    BY <2>3, <2>4, Numbers DEF Die, Kept
  <2>5. CASE c \notin Kids(p)
    <3>1. parent'[c] = parent[c] /\ parent[c] # p
      BY <2>2, <2>5, Numbers DEF Die, Kids
    <3>2. CASE parent[c] = Supervisor
      BY <3>1, <3>2 DEF Kept
    <3>3. CASE parent[c] \in 1..(c - 1) /\ Alive(parent[c])
      <4>1. parent[c] \in Processes
        BY <3>3, Numbers
      <4>2. state'[parent[c]] = state[parent[c]]
        BY <3>1, <3>3, <4>1, <2>3, Numbers DEF Die, Alive
      <4>. QED BY <3>1, <3>3, <4>2 DEF Alive, Kept
    <3>. QED BY <3>2, <3>3, <2>2 DEF NoneEscapes, Kept
  <2>. QED BY <2>4, <2>5
<1>. QED BY <1>2, <1>3, <1>4, <1>5

\* SIGKILL is sent.
LEMMA DoomSafe ==
    ASSUME Tree, NEW S, Doom(S)
    PROVE  Tree' /\ Quiet
<1>1. \A q \in Processes : /\ state'[q] = "unborn" <=> state[q] = "unborn"
                           /\ Exists(q)' <=> Exists(q)
                           /\ Alive(q)' <=> Alive(q)
  BY DEF Doom, Alive, Exists
<1>2. Quiet
  BY <1>1 DEF Quiet, Doom
<1>3. TreeTypeOK' /\ Numbered'
  BY <1>1, Numbers DEF Tree, TreeTypeOK, Numbered, Doom, States
<1>4. NoneEscapes'
  <2>1. SUFFICES ASSUME Alive(Supervisor)', NEW c \in Candidates, Exists(c)'
                 PROVE  Kept(c)'
    BY DEF NoneEscapes
  <2>2. parent'[c] = parent[c]
    BY DEF Doom
  <2>3. parent[c] = Supervisor \/ (parent[c] \in 1..(c - 1) /\ Alive(parent[c]))
    BY <2>1, <1>1, Numbers DEF Tree, NoneEscapes, Kept
  <2>. QED BY <2>2, <2>3, <1>1, Numbers DEF Kept
<1>. QED BY <1>2, <1>3, <1>4 DEF Tree

\* A status is collected.
LEMMA BurySafe ==
    ASSUME Tree, NEW p \in Processes, Bury(p)
    PROVE  Tree' /\ Quiet
<1>1. \A q \in Processes : /\ state'[q] = "unborn" <=> state[q] = "unborn"
                           /\ Exists(q)' => Exists(q)
                           /\ Alive(q)' <=> Alive(q)
  BY DEF Tree, TreeTypeOK, Bury, Alive, Exists
<1>2. Quiet
  BY <1>1 DEF Quiet, Bury
<1>3. TreeTypeOK' /\ Numbered'
  BY <1>1, Numbers DEF Tree, TreeTypeOK, Numbered, Bury, States
<1>4. NoneEscapes'
  <2>1. SUFFICES ASSUME Alive(Supervisor)', NEW c \in Candidates, Exists(c)'
                 PROVE  Kept(c)'
    BY DEF NoneEscapes
  <2>2. parent'[c] = parent[c]
    BY DEF Bury
  <2>3. parent[c] = Supervisor \/ (parent[c] \in 1..(c - 1) /\ Alive(parent[c]))
    BY <2>1, <1>1, Numbers DEF Tree, NoneEscapes, Kept
  <2>. QED BY <2>2, <2>3, <1>1, Numbers DEF Kept
<1>. QED BY <1>2, <1>3, <1>4 DEF Tree

\* The tree does not change.
LEMMA StillSafe ==
    ASSUME Tree, UNCHANGED treeVars
    PROVE  Tree' /\ Quiet
BY DEF Tree, TreeTypeOK, Numbered, NoneEscapes, Kept, Quiet, Alive, Exists, treeVars

\* A process is forked.
LEMMA ForkSafe ==
    ASSUME Tree, NEW p \in Candidates, Fork(p)
    PROVE  /\ Tree'
           /\ born' >= born
           /\ state'[Supervisor] = state[Supervisor]
<1>1. /\ born + 1 \in Candidates /\ born + 1 \in Processes /\ born \in Nat
      /\ p <= born /\ state[born + 1] = "unborn"
  BY Numbers DEF Tree, TreeTypeOK, Numbered, Fork
<1>2. \A q \in Processes : q # born + 1 => state'[q] = state[q] /\ parent'[q] = parent[q]
  BY DEF Tree, TreeTypeOK, Fork
<1>3. state'[born + 1] = "live" /\ parent'[born + 1] = p
  BY <1>1 DEF Tree, TreeTypeOK, Fork
<1>4. TreeTypeOK'
  <2>1. p \in Processes /\ born' \in 0..MaxProcesses
    BY <1>1, Numbers DEF Fork
  <2>. QED BY <1>1, <2>1 DEF Tree, TreeTypeOK, Fork, States
<1>5. Numbered'
  BY <1>1, <1>2, <1>3, Numbers DEF Tree, Numbered, Fork
<1>6. NoneEscapes'
  <2>1. SUFFICES ASSUME Alive(Supervisor)', NEW c \in Candidates, Exists(c)'
                 PROVE  Kept(c)'
    BY DEF NoneEscapes
  <2>2. CASE c = born + 1
    BY <2>2, <1>1, <1>2, <1>3, Numbers DEF Fork, Alive, Kept
  <2>3. CASE c # born + 1
    <3>1. Alive(Supervisor) /\ Exists(c) /\ parent'[c] = parent[c]
      BY <2>1, <2>3, <1>1, <1>2, Numbers DEF Alive, Exists
    <3>2. parent[c] = Supervisor \/ (parent[c] \in 1..(c - 1) /\ Alive(parent[c]))
      BY <3>1 DEF Tree, NoneEscapes, Kept
    <3>3. parent[c] \in 1..(c - 1) /\ Alive(parent[c]) => Alive(parent[c])'
      <4>1. parent[c] \in 1..(c - 1) => parent[c] \in Processes
        BY Numbers
      <4>. QED BY <4>1, <3>1, <1>1, <1>2, Numbers DEF Alive
    <3>. QED BY <3>1, <3>2, <3>3 DEF Kept
  <2>. QED BY <2>2, <2>3
<1>7. born' >= born /\ state'[Supervisor] = state[Supervisor]
  BY <1>1, <1>2, Numbers DEF Fork
<1>. QED BY <1>4, <1>5, <1>6, <1>7 DEF Tree

\* What the others do leaves the tree in order; only a living process forks.
LEMMA OutsidersSafe ==
    ASSUME Tree, Outsiders
    PROVE  /\ Tree'
           /\ \/ Quiet
              \/ /\ born >= Leader /\ born' >= Leader /\ ~NoneExists
                 /\ state'[Supervisor] = state[Supervisor]
<1>1. ASSUME NEW p \in Candidates, Fork(p)
      PROVE  /\ Tree'
             /\ born >= Leader /\ born' >= Leader /\ ~NoneExists
             /\ state'[Supervisor] = state[Supervisor]
  <2>1. Exists(p) /\ p <= born /\ p >= Leader /\ born \in Nat
    BY <1>1, Numbers DEF Tree, TreeTypeOK, Numbered, Fork, Exists, Alive
  <2>2. Tree' /\ born' >= born /\ state'[Supervisor] = state[Supervisor]
    BY <1>1, ForkSafe
  <2>3. born' \in Nat
    BY <2>2, Numbers DEF Tree, TreeTypeOK
  <2>. QED BY <2>1, <2>2, <2>3, Numbers DEF NoneExists
<1>2. ASSUME NEW p \in Candidates, Detach(p)
      PROVE  Tree' /\ Quiet
  <2>1. \A q : Alive(q)' = Alive(q) /\ Exists(q)' = Exists(q) /\ Kept(q)' = Kept(q)
    BY <1>2 DEF Detach, Alive, Exists, Kept
  <2>. QED BY <1>2, <2>1 DEF Detach, Tree, TreeTypeOK, Numbered, NoneEscapes, Quiet
<1>3. ASSUME NEW p \in Candidates, Exit(p)
      PROVE  Tree' /\ Quiet
  BY <1>3, DieSafe, Numbers DEF Exit
<1>4. ASSUME NEW p \in Candidates, Collect(p)
      PROVE  Tree' /\ Quiet
  BY <1>4, BurySafe, Numbers DEF Collect
<1>5. CASE SupervisorDies
  BY <1>5, DieSafe, Numbers DEF SupervisorDies, Alive
<1>6. CASE SupervisorShot
  BY <1>6, DoomSafe DEF SupervisorShot
<1>7. ASSUME NEW S \in SUBSET Processes, Doom(S)
      PROVE  Tree' /\ Quiet
  BY <1>7, DoomSafe
<1>8. CASE Bury(Supervisor)
  BY <1>8, BurySafe, Numbers
<1>. QED BY <1>1, <1>2, <1>3, <1>4, <1>5, <1>6, <1>7, <1>8 DEF Outsiders, Environment

----------------------------------------------------------------------------
\* The steps of the supervisor.

\* Who does not exist in a quiet step does not exist after it.
LEMMA QuietNobody ==
    ASSUME Quiet, NoneExists
    PROVE  NoneExists'
BY Numbers DEF Quiet, NoneExists

\* The supervisor's variables stay and no process comes into being.
LEMMA StaySafe ==
    ASSUME IInv, Tree', Quiet, UNCHANGED supVars
    PROVE  IInv'
<1>1. SupTypeOK'
  BY DEF IInv, SupervisorTypeOK, SupTypeOK, supVars
<1>2. \A r : Wrote(r)' <=> Wrote(r)
  BY DEF Wrote, supVars
<1>3. Lived'
  BY Numbers DEF IInv, Lived, Quiet, supVars
<1>4. Unfinished'
  BY <1>2 DEF IInv, Unfinished, supVars
<1>5. Reported'
  BY <1>2, QuietNobody DEF IInv, Reported, supVars
<1>. QED BY <1>1, <1>3, <1>4, <1>5 DEF IInv, Tree, SupervisorTypeOK

\* The command forks.
LEMMA GrowSafe ==
    ASSUME IInv, Tree', UNCHANGED supVars,
           born >= Leader, born' >= Leader, ~NoneExists,
           state'[Supervisor] = state[Supervisor]
    PROVE  IInv'
<1>1. SupTypeOK'
  BY DEF IInv, SupervisorTypeOK, SupTypeOK, supVars
<1>2. \A r : Wrote(r)' <=> Wrote(r)
  BY DEF Wrote, supVars
<1>3. Lived'
  BY Numbers DEF IInv, Lived, Alive, supVars
<1>4. Unfinished'
  BY <1>2 DEF IInv, Unfinished, supVars
<1>5. Reported'
  BY <1>2 DEF IInv, Reported, supVars
<1>. QED BY <1>1, <1>3, <1>4, <1>5 DEF IInv, Tree, SupervisorTypeOK

\* The statements at which the supervisor waits, looks and kills.
Busy == {"wait", "waitAll", "reap", "census", "kill", "sweep"}

\* At them the supervisor writes nothing, and it goes on to its report as
\* "contained" only when nobody is left.
LEMMA WorkSafe ==
    ASSUME IInv, Tree', Quiet, SupTypeOK', records' = records,
           sup \in Busy, sup' \in Busy \cup {"report"},
           sup' = "report" /\ found' # "uncontained" => NoneExists
    PROVE  IInv'
<1>1. \A r : Wrote(r)' <=> Wrote(r)
  BY DEF Wrote
<1>2. Lived'
  BY Numbers DEF IInv, Lived, Quiet, Busy
<1>3. Unfinished' /\ ~Wrote("COMPLETE")'
  BY <1>1 DEF IInv, Unfinished, Busy
<1>4. Reported'
  BY <1>3, QuietNobody DEF Reported
<1>. QED BY <1>2, <1>3, <1>4 DEF IInv, Tree, SupervisorTypeOK

\* The supervisor is in the tree, and its children are.
LEMMA Rooted ==
    ASSUME IInv
    PROVE  /\ Tree /\ SupTypeOK
           /\ Supervisor \in Processes /\ Leader \in Processes
           /\ Kids(Supervisor) \subseteq Processes /\ Kids(Supervisor) \subseteq Candidates
           /\ Alive(Supervisor) /\ Kids(Supervisor) = {} => NoneExists
BY Numbers, NoKidsNobody DEF IInv, Tree, SupervisorTypeOK, Kids

LEMMA WaitSafe ==
    ASSUME IInv, WaitLeader
    PROVE  IInv'
<1>1. Tree' /\ Quiet
  BY Rooted, BurySafe DEF WaitLeader
<1>2. SupTypeOK'
  BY Rooted DEF WaitLeader, SupTypeOK, Statements
<1>. QED BY <1>1, <1>2, WorkSafe DEF WaitLeader, Runs, Busy

\* A child is collected; the supervisor stays where it is.
LEMMA BuryChild ==
    ASSUME IInv, sup \in Busy, NEW c \in Kids(Supervisor), Bury(c), UNCHANGED supVars
    PROVE  IInv'
BY Rooted, BurySafe, StaySafe

\* The report of a supervisor that has no children left.
LEMMA NothingLeft ==
    ASSUME IInv, sup \in Busy, Alive(Supervisor), Kids(Supervisor) = {},
           NEW how \in {"nothing", "contained"}, Report(how),
           UNCHANGED <<bound, leader, targets, spent, records, code>>
    PROVE  IInv'
<1>1. Tree' /\ Quiet
  BY Rooted, StillSafe DEF Report, treeVars
<1>2. SupTypeOK'
  BY Rooted DEF Report, SupTypeOK, Statements
<1>. QED BY <1>1, <1>2, Rooted, WorkSafe DEF Report

\* The report that something could not be contained.
LEMMA NotContained ==
    ASSUME IInv, sup \in Busy, Report("uncontained"),
           UNCHANGED <<bound, leader, targets, spent, records, code>>
    PROVE  IInv'
<1>1. Tree' /\ Quiet
  BY Rooted, StillSafe DEF Report, treeVars
<1>2. SupTypeOK'
  BY Rooted DEF Report, SupTypeOK, Statements
<1>. QED BY <1>1, <1>2, WorkSafe DEF Report

\* The supervisor goes on, with the children of its census or without them.
LEMMA GoesOn ==
    ASSUME IInv, sup \in Busy, NEW s \in Busy, Proceed(s), targets' \in SUBSET Candidates,
           UNCHANGED <<bound, leader, spent, records, code>>
    PROVE  IInv'
<1>1. Tree' /\ Quiet
  BY Rooted, StillSafe DEF Proceed, treeVars
<1>2. SupTypeOK'
  BY Rooted DEF Proceed, SupTypeOK, Statements, Busy
<1>. QED BY <1>1, <1>2, WorkSafe DEF Proceed, Busy

LEMMA WaitAllSafe ==
    ASSUME IInv, WaitAll
    PROVE  IInv'
<1>1. sup \in Busy /\ Alive(Supervisor)
  BY DEF WaitAll, Runs, Busy, Alive
<1>2. ASSUME NEW c \in Kids(Supervisor), Bury(c), UNCHANGED <<sup, found>> PROVE IInv'
  BY <1>1, <1>2, BuryChild DEF WaitAll, supVars
<1>3. ASSUME Kids(Supervisor) = {}, Report("nothing") PROVE IInv'
  BY <1>1, <1>3, NothingLeft DEF WaitAll
<1>. QED BY <1>2, <1>3 DEF WaitAll

LEMMA ReapExitedSafe ==
    ASSUME IInv, ReapExited
    PROVE  IInv'
<1>1. sup \in Busy /\ Alive(Supervisor) /\ targets \in SUBSET Candidates
  BY Rooted DEF ReapExited, Runs, Busy, Alive, SupTypeOK
<1>2. ASSUME NEW c \in Kids(Supervisor), Bury(c), UNCHANGED <<sup, found>> PROVE IInv'
  BY <1>1, <1>2, BuryChild DEF ReapExited, supVars
<1>3. ASSUME Kids(Supervisor) = {}, Report("nothing") PROVE IInv'
  BY <1>1, <1>3, NothingLeft DEF ReapExited
<1>4. CASE Report("uncontained")
  BY <1>1, <1>4, NotContained DEF ReapExited
<1>5. CASE Proceed("census")
  BY <1>1, <1>5, GoesOn DEF ReapExited, Busy
<1>. QED BY <1>2, <1>3, <1>4, <1>5 DEF ReapExited

LEMMA CensusSafe ==
    ASSUME IInv, Census
    PROVE  IInv'
<1>1. sup \in Busy /\ Alive(Supervisor)
  BY DEF Census, Runs, Busy, Alive
<1>2. CASE Report("uncontained") /\ UNCHANGED targets
  BY <1>1, <1>2, NotContained DEF Census
<1>3. CASE Kids(Supervisor) = {} /\ Report("contained") /\ UNCHANGED targets
  BY <1>1, <1>3, NothingLeft DEF Census
<1>4. CASE targets' = Kids(Supervisor) /\ Proceed("kill")
  BY <1>1, <1>4, Rooted, GoesOn DEF Census, Busy
<1>. QED BY <1>2, <1>3, <1>4 DEF Census

LEMMA KillChildSafe ==
    ASSUME IInv, KillChild
    PROVE  IInv'
<1>1. sup \in Busy /\ Alive(Supervisor) /\ targets \in SUBSET Candidates
  BY Rooted DEF KillChild, Runs, Busy, Alive, SupTypeOK
<1>2. ASSUME NEW c \in targets, targets' = targets \ {c}, Doom({c}), UNCHANGED <<sup, found>>
      PROVE  IInv'
  <2>1. Tree' /\ Quiet
    BY <1>2, Rooted, DoomSafe
  <2>2. SupTypeOK'
    BY <1>1, <1>2, Rooted DEF KillChild, SupTypeOK
  <2>. QED BY <1>1, <1>2, <2>1, <2>2, WorkSafe DEF KillChild, Busy
<1>3. CASE Report("uncontained") /\ UNCHANGED targets
  BY <1>1, <1>3, NotContained DEF KillChild
<1>4. CASE Proceed("sweep") /\ UNCHANGED targets
  BY <1>1, <1>4, GoesOn DEF KillChild, Busy
<1>. QED BY <1>2, <1>3, <1>4 DEF KillChild

LEMMA SweepSafe ==
    ASSUME IInv, Sweep
    PROVE  IInv'
<1>1. sup \in Busy /\ Alive(Supervisor) /\ targets \in SUBSET Candidates
  BY Rooted DEF Sweep, Runs, Busy, Alive, SupTypeOK
<1>2. ASSUME NEW c \in Kids(Supervisor), Bury(c), UNCHANGED <<sup, found>> PROVE IInv'
  BY <1>1, <1>2, BuryChild DEF Sweep, supVars
<1>3. CASE Kids(Supervisor) = {} /\ Report("contained")
  BY <1>1, <1>3, NothingLeft DEF Sweep
<1>4. CASE Report("uncontained")
  BY <1>1, <1>4, NotContained DEF Sweep
<1>5. CASE Proceed("census")
  BY <1>1, <1>5, GoesOn DEF Sweep, Busy
<1>. QED BY <1>2, <1>3, <1>4, <1>5 DEF Sweep

\* The supervisor forks the command.
LEMMA ForkLeaderSafe ==
    ASSUME IInv, Runs("setup"), NEW alive \in BOOLEAN, ForkLeader(alive)
    PROVE  /\ Tree'
           /\ born' = Leader /\ state'[Supervisor] = "live"
<1>1. born = 0 /\ Tree
  BY Rooted DEF IInv, Lived, Runs
<1>2. /\ \A q \in Processes : q # Leader => state'[q] = state[q]
      /\ state'[Leader] \in {"live", "zombie"} /\ parent'[Leader] = Supervisor
  BY Rooted DEF ForkLeader, Tree, TreeTypeOK
<1>3. state'[Supervisor] = "live"
  BY <1>2, Numbers DEF Runs
<1>4. TreeTypeOK'
  BY <1>1, Numbers DEF ForkLeader, Tree, TreeTypeOK, States
<1>5. Numbered'
  BY <1>1, <1>2, Numbers DEF ForkLeader, Tree, Numbered
<1>6. NoneEscapes'
  <2>1. ASSUME NEW c \in Candidates, Exists(c)' PROVE c = Leader
    BY <1>1, <1>2, <2>1, Numbers DEF Tree, Numbered, Exists, Alive
  <2>. QED BY <1>2, <2>1 DEF NoneEscapes, Kept
<1>. QED BY <1>3, <1>4, <1>5, <1>6 DEF Tree, ForkLeader

LEMMA SetupSafe ==
    ASSUME IInv, Setup
    PROVE  IInv'
<1>1. /\ records' \in {<<>>, <<"SETUP_FAILED">>, <<"READY", "FORK_FAILED">>, <<"READY">>,
                       <<"READY", "EXEC_FAILED">>}
  BY DEF Setup
<1>2. ~Wrote("COMPLETE")'
  BY <1>1 DEF Wrote
<1>3. records' \in Seq(Record)
  <2>1. {"SETUP_FAILED", "READY", "FORK_FAILED", "EXEC_FAILED"} \subseteq Record
    BY DEF Record
  <2>2. /\ <<>> \in Seq(Record) /\ <<"READY", "FORK_FAILED">> \in Seq(Record)
        /\ <<"SETUP_FAILED">> \in Seq(Record) /\ <<"READY">> \in Seq(Record)
        /\ <<"READY", "EXEC_FAILED">> \in Seq(Record)
    BY <2>1
  <2>. QED BY <1>1, <2>2
<1>4. CASE Leave("code")
  <2>1. Tree' /\ Quiet
    BY <1>4, Rooted, DieSafe DEF Setup, Runs, Leave, Alive
  <2>2. SupTypeOK'
    BY <1>3, <1>4, Rooted DEF Setup, Leave, SupTypeOK, Statements
  <2>3. Lived'
    BY <1>4, Rooted, Numbers DEF IInv, Lived, Setup, Runs, Leave, Die, Alive
  <2>. QED BY <1>2, <1>4, <2>1, <2>2, <2>3 DEF IInv, Tree, SupervisorTypeOK, Unfinished,
              Reported, Leave
<1>5. ASSUME NEW alive \in BOOLEAN, ForkLeader(alive)
      PROVE  IInv'
  <2>1. Tree' /\ born' = Leader /\ state'[Supervisor] = "live"
    BY <1>5, ForkLeaderSafe DEF Setup
  <2>2. SupTypeOK'
    BY <1>3, <1>5, Rooted DEF Setup, ForkLeader, SupTypeOK, Statements
  <2>3. Lived'
    BY <1>5, <2>1, Numbers DEF Lived, ForkLeader
  <2>. QED BY <1>2, <1>5, <2>1, <2>2, <2>3 DEF IInv, Tree, SupervisorTypeOK, Unfinished,
              Reported, ForkLeader
<1>. QED BY <1>4, <1>5 DEF Setup

\* What the prefixes of the final records hold.
LEMMA Finals ==
    ASSUME NEW n \in 0..Len(FinalRecords), SupTypeOK
    PROVE  LET last == SubSeq(FinalRecords, 1, n) IN
           /\ last \in Seq(Record)
           /\ (\E i \in DOMAIN last : last[i] = "COMPLETE") /\ found = "uncontained"
                 => \E i \in DOMAIN last : last[i] = "SURVIVOR_UNCONTAINED"
<1> DEFINE end == IF leader = "none" THEN "WAIT_FAILED" ELSE "COMPLETE"
           last == SubSeq(FinalRecords, 1, n)
<1>1. end \in Record /\ {"SURVIVOR_KILLED", "SURVIVOR_UNCONTAINED"} \subseteq Record
  BY DEF Record
<1>2. /\ FinalRecords \in Seq(Record)
      /\ Len(FinalRecords) \in Nat
      /\ found = "uncontained" => FinalRecords = <<"SURVIVOR_KILLED", "SURVIVOR_UNCONTAINED", end>>
  <2>1. CASE found = "nothing"
    <3>1. FinalRecords = <<end>> BY <2>1 DEF FinalRecords
    <3>. QED BY <3>1, <2>1, <1>1
  <2>2. CASE found = "contained"
    <3>1. FinalRecords = <<"SURVIVOR_KILLED", end>> BY <2>2 DEF FinalRecords
    <3>. QED BY <3>1, <2>2, <1>1
  <2>3. CASE found = "uncontained"
    <3>1. FinalRecords = <<"SURVIVOR_KILLED", "SURVIVOR_UNCONTAINED", end>>
      BY <2>3 DEF FinalRecords
    <3>. QED BY <3>1, <2>3, <1>1
  <2>. QED BY <2>1, <2>2, <2>3 DEF SupTypeOK
<1>3. /\ last \in Seq(Record) /\ Len(last) = n
      /\ \A i \in 1..n : last[i] = FinalRecords[i]
  BY <1>2
<1>4. ASSUME NEW i \in DOMAIN last, last[i] = "COMPLETE", found = "uncontained"
      PROVE  \E j \in DOMAIN last : last[j] = "SURVIVOR_UNCONTAINED"
  <2>1. FinalRecords = <<"SURVIVOR_KILLED", "SURVIVOR_UNCONTAINED", end>>
    BY <1>2, <1>4
  <2>2. i \in 1..n /\ n \in 0..3 /\ DOMAIN last = 1..n
    BY <1>3, <2>1
  <2>3. i = 3 /\ n = 3
    BY <1>3, <1>4, <2>1, <2>2
  <2>4. 2 \in DOMAIN last /\ last[2] = "SURVIVOR_UNCONTAINED"
    BY <1>3, <2>1, <2>2, <2>3
  <2>. QED BY <2>4
<1>. HIDE DEF last
<1>5. /\ last \in Seq(Record)
      /\ (\E i \in DOMAIN last : last[i] = "COMPLETE") /\ found = "uncontained"
            => \E i \in DOMAIN last : last[i] = "SURVIVOR_UNCONTAINED"
  BY <1>3, <1>4
<1>. QED BY <1>5 DEF last

\* Appending to the records.
LEMMA Appended ==
    ASSUME records \in Seq(Record), NEW last \in Seq(Record), records' = records \o last, NEW r
    PROVE  /\ records' \in Seq(Record)
           /\ Wrote(r)' <=> Wrote(r) \/ \E i \in DOMAIN last : last[i] = r
<1>1. /\ records' \in Seq(Record)
      /\ Len(records') = Len(records) + Len(last)
      /\ \A i \in 1..(Len(records) + Len(last)) :
            records'[i] = IF i <= Len(records) THEN records[i] ELSE last[i - Len(records)]
  OBVIOUS
<1>2. /\ DOMAIN records' = 1..(Len(records) + Len(last))
      /\ DOMAIN records = 1..Len(records) /\ DOMAIN last = 1..Len(last)
      /\ Len(records) \in Nat /\ Len(last) \in Nat
  BY <1>1
<1>3. ASSUME Wrote(r)' PROVE Wrote(r) \/ \E i \in DOMAIN last : last[i] = r
  <2>1. PICK i \in 1..(Len(records) + Len(last)) : records'[i] = r
    BY <1>2, <1>3 DEF Wrote
  <2>2. CASE i <= Len(records)
    <3>1. i \in DOMAIN records /\ records[i] = r
      BY <1>1, <1>2, <2>1, <2>2
    <3>. QED BY <3>1 DEF Wrote
  <2>3. CASE ~(i <= Len(records))
    <3>1. i - Len(records) \in DOMAIN last /\ last[i - Len(records)] = r
      BY <1>1, <1>2, <2>1, <2>3
    <3>. QED BY <3>1
  <2>. QED BY <2>2, <2>3
<1>4. ASSUME Wrote(r) PROVE Wrote(r)'
  <2>1. PICK i \in DOMAIN records : records[i] = r
    BY <1>4 DEF Wrote
  <2>2. i \in DOMAIN records' /\ records'[i] = r
    BY <1>1, <1>2, <2>1
  <2>. QED BY <2>2 DEF Wrote
<1>5. ASSUME NEW i \in DOMAIN last, last[i] = r PROVE Wrote(r)'
  <2>1. i + Len(records) \in DOMAIN records' /\ records'[i + Len(records)] = r
    BY <1>1, <1>2, <1>5
  <2>. QED BY <2>1 DEF Wrote
<1>. QED BY <1>1, <1>3, <1>4, <1>5

LEMMA FinishSafe ==
    ASSUME IInv, Finish
    PROVE  IInv'
<1>1. PICK n \in 0..Len(FinalRecords) :
         /\ records' = records \o SubSeq(FinalRecords, 1, n)
         /\ Leave(IF n = Len(FinalRecords) /\ leader = "signal" THEN "signal" ELSE "code")
  BY DEF Finish
<1> DEFINE last == SubSeq(FinalRecords, 1, n)
<1>2. /\ last \in Seq(Record)
      /\ (\E i \in DOMAIN last : last[i] = "COMPLETE") /\ found = "uncontained"
            => \E i \in DOMAIN last : last[i] = "SURVIVOR_UNCONTAINED"
  BY Rooted, Finals
<1>3. records' = records \o last
  BY <1>1
<1>. HIDE DEF last
<1>4. /\ records' \in Seq(Record)
      /\ \A r : Wrote(r)' <=> Wrote(r) \/ \E i \in DOMAIN last : last[i] = r
  BY <1>2, <1>3, Rooted, Appended DEF SupTypeOK
<1>5. sup' = "left" /\ code' \in {"code", "signal"} /\ Die(Supervisor)
  BY <1>1 DEF Leave
<1>6. sup = "report" /\ Alive(Supervisor) /\ Supervisor \in Processes
  BY Rooted DEF Finish, Runs, Alive
<1>7. Tree' /\ Quiet
  BY <1>5, <1>6, Rooted, DieSafe
<1>8. SupTypeOK'
  BY <1>4, <1>5, Rooted DEF Finish, SupTypeOK, Statements
<1>9. Lived'
  BY <1>5, <1>6, <1>7, Numbers DEF IInv, Lived, Quiet, Die, Alive
<1>10. Reported'
  <2>1. ASSUME Wrote("COMPLETE")', ~Wrote("SURVIVOR_UNCONTAINED")' PROVE NoneExists'
    <3>1. \E i \in DOMAIN last : last[i] = "COMPLETE"
      BY <1>4, <1>6, <2>1 DEF IInv, Unfinished
    <3>2. found # "uncontained"
      BY <1>2, <1>4, <2>1, <3>1
    <3>. QED BY <1>6, <1>7, <3>2, QuietNobody DEF IInv, Reported
  <2>. QED BY <1>5, <2>1 DEF Reported
<1>. QED BY <1>5, <1>7, <1>8, <1>9, <1>10 DEF IInv, Tree, SupervisorTypeOK, Unfinished

LEMMA StartSafe ==
    ASSUME IInv, Start
    PROVE  IInv'
<1>1. /\ born = 0 /\ born' = 0 /\ state'[Supervisor] = "live"
      /\ \A q \in Candidates : state'[q] = state[q] /\ state[q] = "unborn"
  BY Rooted, Numbers DEF IInv, Lived, Start, Tree, TreeTypeOK, Numbered
<1>2. NoneExists /\ NoneExists'
  BY <1>1 DEF NoneExists, Exists, Alive
<1>3. TreeTypeOK'
  BY Rooted DEF Start, Tree, TreeTypeOK, States
<1>4. Numbered' /\ NoneEscapes'
  BY <1>1, <1>2, Numbers DEF Numbered, NoneEscapes, NoneExists
<1>5. SupTypeOK'
  BY Rooted DEF Start, SupTypeOK, Statements
<1>6. Lived'
  BY <1>1, Numbers DEF Lived, Start
<1>7. ~Wrote("COMPLETE")'
  BY DEF IInv, Unfinished, Start, Wrote
<1>. QED BY <1>2, <1>3, <1>4, <1>5, <1>6, <1>7 DEF IInv, SupervisorTypeOK, Unfinished, Reported

LEMMA ReapDeadlineSafe ==
    ASSUME IInv, ReapDeadline
    PROVE  IInv'
<1>1. Tree' /\ Quiet
  BY Rooted, StillSafe DEF ReapDeadline, treeVars
<1>2. SupTypeOK'
  BY Rooted DEF ReapDeadline, SupTypeOK
<1>. QED BY <1>1, <1>2, WorkSafe DEF ReapDeadline, Busy, treeVars

----------------------------------------------------------------------------
\* The theorems.

LEMMA Initially ==
    ASSUME TreeInit, SupInit
    PROVE  IInv
<1>1. \A p \in Processes : state[p] = "unborn" /\ ~Alive(p) /\ ~Exists(p)
  BY DEF TreeInit, Alive, Exists
<1>2. TreeTypeOK
  BY Numbers DEF TreeInit, TreeTypeOK, States
<1>3. SupTypeOK
  <2>1. <<>> \in Seq(Record) OBVIOUS
  <2>. QED BY <2>1 DEF SupInit, SupTypeOK, Statements
<1>4. Numbered /\ NoneEscapes /\ NoneExists
  BY <1>1, Numbers DEF TreeInit, Numbered, NoneEscapes, NoneExists
<1>5. ~Wrote("COMPLETE")
  BY DEF SupInit, Wrote
<1>. QED BY <1>1, <1>2, <1>3, <1>4, <1>5, Numbers DEF TreeInit, SupInit, IInv, SupervisorTypeOK,
            Lived, Unfinished, Reported

LEMMA Inductive ==
    ASSUME IInv, [SupervisorNext]_allVars
    PROVE  IInv'
<1>1. CASE Start
  BY <1>1, StartSafe
<1>2. CASE SupervisorStep
  BY <1>2, SetupSafe, WaitSafe, WaitAllSafe, ReapExitedSafe, CensusSafe, KillChildSafe,
     SweepSafe, FinishSafe DEF SupervisorStep
<1>3. CASE ReapDeadline
  BY <1>3, ReapDeadlineSafe
<1>4. CASE Outsiders /\ UNCHANGED supVars
  BY <1>4, Rooted, OutsidersSafe, StaySafe, GrowSafe
<1>5. CASE UNCHANGED allVars
  <2>1. UNCHANGED treeVars /\ UNCHANGED supVars
    BY <1>5 DEF allVars
  <2>. QED BY <2>1, Rooted, StillSafe, StaySafe
<1>. QED BY <1>1, <1>2, <1>3, <1>4, <1>5 DEF SupervisorNext

\* The supervisor keeps the inductive invariant whatever the command forks,
\* kills or detaches and whenever it is killed itself.
THEOREM Containment == SupervisorSpec => []IInv
<1>1. SupervisorInit => IInv
  BY Initially DEF SupervisorInit
<1>2. IInv /\ [SupervisorNext]_allVars => IInv'
  BY Inductive
<1>. QED BY <1>1, <1>2, PTL DEF SupervisorSpec

\* The processes and the supervisor keep their types.
THEOREM SupervisorTypes == SupervisorSpec => []SupervisorTypeOK
<1>1. IInv => SupervisorTypeOK
  BY DEF IInv
<1>. QED BY <1>1, Containment, PTL

\* _enable_subreaper: no orphan of the command, in whatever session, gets
\* away from a living supervisor.
THEOREM OrphansAreKept == SupervisorSpec => []NoneEscapes
<1>1. IInv => NoneEscapes
  BY DEF IInv
<1>. QED BY <1>1, Containment, PTL

\* The record COMPLETE, without SURVIVOR_UNCONTAINED, certifies that every
\* process of the command is gone, in both modes of the supervisor.
THEOREM CompleteCertifies == SupervisorSpec => []CompleteMeansReaped
<1>1. IInv => CompleteMeansReaped
  BY DEF IInv, Reported, NoneExists, Exists, CompleteMeansReaped, Empty
<1>. QED BY <1>1, Containment, PTL

-----------------------------------------------------------------------------
----------------------------------------------------------------------------
\* The run is an environment of the supervisor.

\* The supervisor is started at most once.
Begun == at = "launch" => sup = "idle"

\* A set of processes is signalled, the supervisor's status is collected, or
\* neither.
LEMMA OutsideStep ==
    ASSUME UNCHANGED supVars,
           (\E T : Doom(T)) \/ Bury(Supervisor) \/ UNCHANGED treeVars
    PROVE  [SupervisorNext]_allVars
<1> DEFINE living == {p \in Processes : state[p] = "live"}
<1>1. ASSUME NEW T, Doom(T) PROVE Doom(T \cap living)
  BY <1>1 DEF Doom
<1>2. \A T : T \cap living \in SUBSET living
  OBVIOUS
<1>3. (\E T : Doom(T)) => \E S \in SUBSET living : Doom(S)
  <2> HIDE DEF living
  <2>. QED BY <1>1, <1>2
<1>. QED BY <1>3 DEF SupervisorNext, Outsiders, allVars

\* What the runner's own statements do to the processes.
LEMMA RunnerIsOutside ==
    ASSUME RunnerStep \/ RunnerFault, ~Launch
    PROVE  /\ UNCHANGED supVars
           /\ (\E T : Doom(T)) \/ Bury(Supervisor) \/ UNCHANGED treeVars
<1>1. CASE CommunicateReturns BY <1>1 DEF CommunicateReturns
<1>2. CASE CommunicateTimesOut BY <1>2 DEF CommunicateTimesOut
<1>3. CASE FinishTree BY <1>3 DEF FinishTree
<1>4. CASE EndSurvivors BY <1>4 DEF EndSurvivors
<1>5. CASE KillCensus BY <1>5 DEF KillCensus
<1>6. CASE KillTree BY <1>6 DEF KillTree
<1>7. CASE AwaitTree BY <1>7 DEF AwaitTree
<1>8. CASE KillLate BY <1>8 DEF KillLate
<1>9. CASE ProveTree BY <1>9 DEF ProveTree
<1>10. CASE Reap BY <1>10 DEF Reap
<1>11. CASE FinalProof BY <1>11 DEF FinalProof
<1>12. CASE ReadStatus BY <1>12 DEF ReadStatus
<1>13. CASE Retain BY <1>13 DEF Retain
<1>14. CASE RunnerFault
  BY <1>14 DEF RunnerFault, CommunicateFails, AwaitFails, ReadFails
<1>. QED BY <1>1, <1>2, <1>3, <1>4, <1>5, <1>6, <1>7, <1>8, <1>9, <1>10, <1>11, <1>12, <1>13,
            <1>14 DEF RunnerStep

LEMMA Simulated ==
    ASSUME Begun, [Next]_vars
    PROVE  [SupervisorNext]_allVars
<1>1. CASE Launch
  <2>1. CASE UNCHANGED <<treeVars, sup>>
    BY <1>1, <2>1 DEF Launch, allVars, supVars
  <2>2. CASE /\ state' = [state EXCEPT ![Supervisor] = "live"]
             /\ sup' = "setup"
             /\ UNCHANGED <<parent, group, born>>
    BY <1>1, <2>2 DEF Launch, Begun, SupervisorNext, Start
  <2>. QED BY <1>1, <2>1, <2>2 DEF Launch
<1>2. CASE (RunnerStep \/ RunnerFault) /\ ~Launch
  BY <1>2, RunnerIsOutside, OutsideStep
<1>3. CASE SupervisorStep \/ ReapDeadline
  BY <1>3 DEF SupervisorNext
<1>4. CASE Surroundings
  BY <1>4 DEF Surroundings, SupervisorNext, Outsiders
<1>5. CASE Tick \/ Done \/ UNCHANGED vars
  BY <1>5 DEF Tick, Done, vars, allVars
<1>. QED BY <1>1, <1>2, <1>3, <1>4, <1>5 DEF Next

\* Nothing but the launch starts the supervisor.
LEMMA BegunStays ==
    ASSUME Begun, [Next]_vars
    PROVE  Begun'
<1>1. CASE RunnerStep \/ RunnerFault
  <2>1. at' # "launch"
    BY <1>1 DEF RunnerStep, RunnerFault, Launch, CommunicateReturns, CommunicateTimesOut,
       CommunicateFails, FinishTree, EndSurvivors, KillCensus, KillTree, AwaitTree, AwaitFails,
       KillLate, ProveTree, Reap, FinalProof, ReadStatus, ReadFails, Retain, Conclude, GoTo,
       AfterKill
  <2>. QED BY <2>1 DEF Begun
<1>2. CASE (SupervisorStep \/ ReapDeadline) /\ UNCHANGED runVars
  <2>1. sup # "idle"
    BY <1>2 DEF SupervisorStep, Setup, WaitLeader, WaitAll, ReapExited, Census, KillChild, Sweep,
       Finish, ReapDeadline, Runs
  <2>. QED BY <1>2, <2>1 DEF Begun, runVars
<1>3. CASE UNCHANGED <<at, sup>>
  BY <1>3 DEF Begun
<1>4. CASE Surroundings
  BY <1>4 DEF Surroundings, Begun, supVars
<1>5. CASE Tick \/ Done \/ UNCHANGED vars
  BY <1>3, <1>5 DEF Tick, Done, vars, supVars, runVars
<1>. QED BY <1>1, <1>2, <1>4, <1>5 DEF Next

\* run implements the specification of the supervisor's surroundings: it
\* starts the supervisor once, signals, and collects its status.
THEOREM RunnerImplementsSupervisor == Spec => SupervisorSpec
<1>1. Init => SupervisorInit /\ Begun
  BY DEF SupervisorInit, Init, SupInit, Begun
<1>2. Begun /\ [Next]_vars => Begun' /\ [SupervisorNext]_allVars
  BY Simulated, BegunStays
<1>. QED BY <1>1, <1>2, PTL DEF Spec, SupervisorSpec

----------------------------------------------------------------------------
\* The inductive invariant of the run.

\* The runner's own variables keep their types.
RunTypeOK ==
    /\ at \in Stages
    /\ path \in {"ok", "timeout", "error"}
    /\ clock \in Working..Over
    /\ known \in SUBSET Processes /\ moved \in SUBSET Processes /\ observed \in BOOLEAN
    /\ proof \in TreeStatuses /\ status \in TreeStatuses
    /\ failure \in Failures
    /\ sink \in Nat
    /\ verdict \in Verdicts

\* Which of the three paths a statement belongs to.
OnPath ==
    /\ at \in {"launch", "communicate", "finish", "term"} => path = "ok"
    /\ at \in {"census", "signal", "await", "reap"} => path # "ok"
    /\ at \in {"late", "prove", "final"} => path = "timeout"

\* The tree is certified only where it is looked at for the last time.
Settled ==
    /\ proof # "none" => path = "timeout" /\ at \in {"reap", "final", "status", "retain", "over"}
    /\ status # "none" /\ path # "error" => at \in {"term", "status", "retain", "over"}

\* The record and the verdict belong together.
Accounted == OneRecord /\ (at # "over" => sink = 0 /\ verdict = "none")

\* The supervisor has nothing to add: no process is left.
Passed == records = <<"READY", "COMPLETE">>

\* A result is returned on the word of the supervisor alone.
Vouched ==
    /\ at = "retain" /\ path = "ok" /\ failure = "none" => Passed
    /\ verdict = "returned" => Passed

\* A supervisor that had to kill says so.
Told == found # "nothing" /\ Wrote("COMPLETE") => Wrote("SURVIVOR_KILLED")

RInv == Begun /\ RunTypeOK /\ OnPath /\ Settled /\ Accounted /\ Vouched /\ Told

\* The supervisor's last word is COMPLETE: nothing of it changes any more.
LEMMA PassedStays ==
    ASSUME IInv, Passed, [SupervisorNext]_allVars
    PROVE  Passed' /\ sup = "left"
<1>1. sup = "left"
  BY DEF Passed, Wrote, IInv, Unfinished
<1>2. records' = records
  BY <1>1 DEF SupervisorNext, Start, SupervisorStep, Setup, WaitLeader, WaitAll, ReapExited,
     Census, KillChild, Sweep, Finish, ReapDeadline, Runs, allVars, supVars
<1>. QED BY <1>1, <1>2 DEF Passed

\* The final records name the survivors.
LEMMA FinalsTell ==
    ASSUME NEW n \in 0..Len(FinalRecords), SupTypeOK, found # "nothing"
    PROVE  LET last == SubSeq(FinalRecords, 1, n) IN
           (\E i \in DOMAIN last : last[i] = "COMPLETE")
              => \E i \in DOMAIN last : last[i] = "SURVIVOR_KILLED"
<1> DEFINE end == IF leader = "none" THEN "WAIT_FAILED" ELSE "COMPLETE"
           last == SubSeq(FinalRecords, 1, n)
<1>1. \/ FinalRecords = <<"SURVIVOR_KILLED", end>>
      \/ FinalRecords = <<"SURVIVOR_KILLED", "SURVIVOR_UNCONTAINED", end>>
  BY DEF FinalRecords, SupTypeOK
<1>2. Len(FinalRecords) \in {2, 3} /\ FinalRecords[1] = "SURVIVOR_KILLED"
      /\ \E T : FinalRecords \in Seq(T)
  <2>1. DEFINE T == {"SURVIVOR_KILLED", "SURVIVOR_UNCONTAINED", end}
  <2>2. /\ <<"SURVIVOR_KILLED", end>> \in Seq(T)
        /\ <<"SURVIVOR_KILLED", "SURVIVOR_UNCONTAINED", end>> \in Seq(T)
    OBVIOUS
  <2>3. Len(FinalRecords) \in {2, 3} /\ FinalRecords[1] = "SURVIVOR_KILLED"
    BY <1>1
  <2>4. FinalRecords \in Seq(T)
    <3>. HIDE DEF T, end
    <3>. QED BY <1>1, <2>2
  <2>. QED BY <2>3, <2>4
<1>3. DOMAIN last = 1..n /\ \A i \in 1..n : last[i] = FinalRecords[i]
  BY <1>2
<1>. HIDE DEF last
<1>4. ASSUME NEW i \in DOMAIN last PROVE last[1] = "SURVIVOR_KILLED" /\ 1 \in DOMAIN last
  BY <1>2, <1>3
<1>5. (\E i \in DOMAIN last : last[i] = "COMPLETE")
          => \E i \in DOMAIN last : last[i] = "SURVIVOR_KILLED"
  BY <1>4
<1>. QED BY <1>5 DEF last

LEMMA ToldStays ==
    ASSUME IInv, Told, [SupervisorNext]_allVars
    PROVE  Told'
<1>1. CASE Finish
  <2>1. PICK n \in 0..Len(FinalRecords) : records' = records \o SubSeq(FinalRecords, 1, n)
    BY <1>1 DEF Finish
  <2> DEFINE last == SubSeq(FinalRecords, 1, n)
  <2>2. last \in Seq(Record) /\ records \in Seq(Record)
    BY Rooted, Finals DEF SupTypeOK
  <2>3. ASSUME found # "nothing", Wrote("COMPLETE")' PROVE Wrote("SURVIVOR_KILLED")'
    <3>1. (\E i \in DOMAIN last : last[i] = "COMPLETE")
             => \E i \in DOMAIN last : last[i] = "SURVIVOR_KILLED"
      BY <2>3, Rooted, FinalsTell
    <3>2. records' = records \o last
      BY <2>1
    <3>. HIDE DEF last
    <3>3. \A r : Wrote(r)' <=> Wrote(r) \/ \E i \in DOMAIN last : last[i] = r
      BY <2>2, <3>2, Appended
    <3>4. ~Wrote("COMPLETE")
      BY <1>1 DEF IInv, Unfinished, Finish, Runs
    <3>. QED BY <2>3, <3>1, <3>3, <3>4
  <2>. QED BY <1>1, <2>3 DEF Told, Finish
<1>2. CASE Setup
  <2>1. records' \in {<<>>, <<"SETUP_FAILED">>, <<"READY", "FORK_FAILED">>, <<"READY">>,
                      <<"READY", "EXEC_FAILED">>}
    BY <1>2 DEF Setup
  <2>2. ~Wrote("COMPLETE")'
    BY <2>1 DEF Wrote
  <2>. QED BY <2>2 DEF Told
<1>3. CASE records' = records /\ (found' = found \/ sup # "left")
  <2>1. \A r : Wrote(r)' <=> Wrote(r)
    BY <1>3 DEF Wrote
  <2>. QED BY <1>3, <2>1 DEF Told, IInv, Unfinished
<1>4. CASE Start \/ ReapDeadline \/ (Outsiders /\ UNCHANGED supVars) \/ UNCHANGED allVars
  BY <1>3, <1>4 DEF Start, ReapDeadline, supVars, allVars
<1>5. CASE WaitLeader \/ WaitAll \/ ReapExited \/ Census \/ KillChild \/ Sweep
  BY <1>3, <1>5 DEF WaitLeader, WaitAll, ReapExited, Census, KillChild, Sweep, Runs
<1>. QED BY <1>1, <1>2, <1>4, <1>5 DEF SupervisorNext, SupervisorStep

----------------------------------------------------------------------------
\* The statements of run.

\* What the probes answer and what the censuses find.
LEMMA Probes ==
    ASSUME TreeTypeOK
    PROVE  /\ \A direct \in BOOLEAN : TreeStatus(direct) \subseteq {"unknown", "gone", "alive"}
           /\ \A seen \in Monitored : seen \subseteq Processes
           /\ Below(Supervisor) \subseteq Processes
<1>1. \A direct \in BOOLEAN : TreeStatus(direct) \subseteq {"unknown", "gone", "alive"}
  BY DEF TreeStatus, CensusStatus, DirectStatus
<1>2. \A seen \in Monitored : seen \subseteq Processes
  <2>1. Candidates \subseteq Processes /\ Supervisor \in Processes
    BY Numbers
  <2>. QED BY <2>1 DEF Monitored
<1>3. Below(Supervisor) \subseteq Processes
  BY DEF Below
<1>. QED BY <1>1, <1>2, <1>3

\* The part of the invariant that is about the runner alone.
Sound == RunTypeOK /\ OnPath /\ Settled /\ Accounted

\* The variables that only the end of run changes.
LEMMA Underway ==
    ASSUME Sound, at # "over", NEW s \in Stages, GoTo(s), s # "over"
    PROVE  Accounted' /\ sink' \in Nat /\ verdict' \in Verdicts
BY DEF Sound, Accounted, OneRecord, GoTo, RunTypeOK

LEMMA Ending ==
    ASSUME Sound, at # "over", NEW r \in Verdicts \ {"none", "EVIDENCE_UNAVAILABLE"}, Conclude(r)
    PROVE  /\ Accounted' /\ sink' \in Nat /\ verdict' \in Verdicts /\ at' = "over"
           /\ verdict' \in {r, "EVIDENCE_UNAVAILABLE"}
BY DEF Sound, Accounted, OneRecord, Conclude, RunTypeOK, Verdicts

LEMMA LaunchSound ==
    ASSUME Sound, Launch
    PROVE  Sound' /\ verdict' # "returned" /\ at' # "retain"
<1>1. at = "launch" /\ at # "over"
  BY DEF Launch
<1>2. CASE \E c \in {"SUBREAPER_UNAVAILABLE", "COMMAND_UNAVAILABLE"} : Conclude(c)
  <2>1. Accounted' /\ sink' \in Nat /\ verdict' \in Verdicts /\ at' = "over"
        /\ verdict' # "returned"
    BY <1>1, <1>2, Ending DEF Verdicts
  <2>. QED BY <1>1, <2>1 DEF Launch, Sound, RunTypeOK, OnPath, Settled, Stages
<1>3. CASE GoTo("communicate")
  BY <1>1, <1>3, Underway DEF Launch, Sound, RunTypeOK, OnPath, Settled, Stages, GoTo, Accounted
<1>. QED BY <1>2, <1>3 DEF Launch

LEMMA CommunicateSound ==
    ASSUME Sound, CommunicateReturns \/ CommunicateTimesOut \/ CommunicateFails
    PROVE  Sound' /\ at' # "retain" /\ at' # "over"
<1>1. at = "communicate"
  BY DEF CommunicateReturns, CommunicateTimesOut, CommunicateFails
<1>2. PICK s \in {"finish", "census"} : GoTo(s)
  BY DEF CommunicateReturns, CommunicateTimesOut, CommunicateFails
<1>3. Accounted' /\ sink' \in Nat /\ verdict' \in Verdicts
  BY <1>1, <1>2, Underway DEF Stages
<1>. QED BY <1>1, <1>2, <1>3 DEF CommunicateReturns, CommunicateTimesOut, CommunicateFails, Sound,
            RunTypeOK, OnPath, Settled, Stages, GoTo

LEMMA FinishTreeSound ==
    ASSUME Sound, TreeTypeOK, FinishTree
    PROVE  Sound' /\ at' # "retain" /\ at' # "over"
<1>1. at = "finish" /\ proof = "none" /\ path = "ok"
  BY DEF FinishTree, Sound, OnPath, Settled
<1>2. PICK s \in {"status", "term"} : GoTo(s)
  BY DEF FinishTree
<1>3. Accounted' /\ sink' \in Nat /\ verdict' \in Verdicts
  BY <1>1, <1>2, Underway DEF Stages
<1>4. /\ known' \in SUBSET Processes /\ moved' = {} /\ observed' \in BOOLEAN
      /\ status' \in {"gone", "survivor"}
  BY Probes DEF FinishTree
<1>. QED BY <1>1, <1>2, <1>3, <1>4 DEF FinishTree, Sound, RunTypeOK, OnPath, Settled, Stages, GoTo,
            TreeStatuses

LEMMA KillSound ==
    ASSUME Sound, TreeTypeOK, KillCensus \/ KillTree
    PROVE  Sound' /\ at' # "retain" /\ at' # "over"
<1>1. at \in {"census", "signal"} /\ path # "ok"
  BY DEF KillCensus, KillTree, Sound, OnPath
<1>2. PICK s \in {"signal", "await"} : GoTo(s)
  BY DEF KillCensus, KillTree
<1>3. Accounted' /\ sink' \in Nat /\ verdict' \in Verdicts
  BY <1>1, <1>2, Underway DEF Stages
<1>4. known' \in SUBSET Processes /\ moved' \in SUBSET Processes /\ observed' \in BOOLEAN
  BY Probes DEF KillCensus, KillTree, Sound, RunTypeOK
<1>. QED BY <1>1, <1>2, <1>3, <1>4 DEF KillCensus, KillTree, Sound, RunTypeOK, OnPath, Settled,
            Stages, GoTo

LEMMA AwaitSound ==
    ASSUME Sound, AwaitTree \/ AwaitFails
    PROVE  Sound' /\ at' # "retain" /\ at' # "over"
<1>1. at = "await" /\ path # "ok"
  BY DEF AwaitTree, AwaitFails, Sound, OnPath
<1>2. PICK s \in {"await", AfterKill} : GoTo(s)
  BY DEF AwaitTree, AwaitFails
<1>3. s \in {"await", "late", "reap"} /\ (s = "late" => path = "timeout")
  BY <1>2 DEF AfterKill
<1>4. Accounted' /\ sink' \in Nat /\ verdict' \in Verdicts
  BY <1>1, <1>2, <1>3, Underway DEF Stages
<1>. QED BY <1>1, <1>2, <1>3, <1>4 DEF AwaitTree, AwaitFails, Sound, RunTypeOK, OnPath, Settled,
            Stages, GoTo

LEMMA ProveSound ==
    ASSUME Sound, TreeTypeOK, KillLate \/ ProveTree
    PROVE  Sound' /\ at' # "retain" /\ at' # "over"
<1>1. at \in {"late", "prove"} /\ path = "timeout"
  BY DEF KillLate, ProveTree, Sound, OnPath
<1>2. PICK s \in {"prove", "reap"} : GoTo(s)
  BY DEF KillLate, ProveTree
<1>3. Accounted' /\ sink' \in Nat /\ verdict' \in Verdicts
  BY <1>1, <1>2, Underway DEF Stages
<1>4. known' \in SUBSET Processes
  BY Probes DEF KillLate, ProveTree, Sound, RunTypeOK
<1>5. proof' \in TreeStatuses /\ (proof' # "none" => proof' = proof \/ at' = "reap")
  BY Probes DEF KillLate, ProveTree, Sound, RunTypeOK, TreeStatuses, GoTo
<1>. QED BY <1>1, <1>2, <1>3, <1>4, <1>5 DEF KillLate, ProveTree, Sound, RunTypeOK, OnPath,
            Settled, Stages, GoTo

LEMMA ReapSound ==
    ASSUME Sound, TreeTypeOK, EndSurvivors \/ Reap \/ FinalProof
    PROVE  Sound' /\ at' # "retain" /\ at' # "over"
<1>1. at \in {"term", "reap", "final"}
  BY DEF EndSurvivors, Reap, FinalProof
<1>2. PICK s \in {"reap", "final", "status"} : GoTo(s) /\ (s = "reap" => path # "ok")
                                               /\ (s = "final" => path = "timeout")
  BY DEF EndSurvivors, Reap, FinalProof, Sound, OnPath
<1>3. Accounted' /\ sink' \in Nat /\ verdict' \in Verdicts
  BY <1>1, <1>2, Underway DEF Stages
<1>4. status' \in TreeStatuses
  BY Probes DEF EndSurvivors, Reap, FinalProof, FinalStatus, Sound, RunTypeOK, TreeStatuses
<1>5. status' = status \/ at' = "status"
  BY DEF EndSurvivors, Reap, FinalProof, GoTo
<1>. QED BY <1>1, <1>2, <1>3, <1>4, <1>5 DEF EndSurvivors, Reap, FinalProof, Sound, RunTypeOK,
            OnPath, Settled, Stages, GoTo

LEMMA ReadSound ==
    ASSUME Sound, ReadStatus \/ ReadFails
    PROVE  /\ Sound' /\ at' = "retain"
           /\ path' = "ok" /\ failure' = "none" => Passed
<1>1. at = "status" /\ GoTo("retain")
  BY DEF ReadStatus, ReadFails
<1>2. Accounted' /\ sink' \in Nat /\ verdict' \in Verdicts
  BY <1>1, Underway DEF Stages
<1>3. PipeVerdict(records) \in Failures /\ (PipeVerdict(records) = "none" => Passed)
  BY DEF PipeVerdict, Failures, Passed
<1>4. failure' \in Failures
  BY <1>3 DEF ReadStatus, ReadFails, Notes, Failures
<1>5. path' = "ok" /\ failure' = "none" => Passed
  BY <1>3 DEF ReadStatus, ReadFails, Notes
<1>. QED BY <1>1, <1>2, <1>4, <1>5 DEF ReadStatus, ReadFails, Sound, RunTypeOK, OnPath, Settled,
            Stages, GoTo

LEMMA RetainSound ==
    ASSUME Sound, Retain
    PROVE  /\ Sound' /\ at' # "retain"
           /\ verdict' = "returned" => path = "ok" /\ failure = "none"
<1> DEFINE code_ == CASE path = "ok" -> Judgement
                      [] path = "timeout" -> "COMMAND_TIMEOUT"
                      [] path = "error" -> "COMMAND_UNAVAILABLE"
<1>1. at = "retain"
  BY DEF Retain
<1>2. /\ code_ \in Verdicts \ {"none", "EVIDENCE_UNAVAILABLE"}
      /\ code_ = "returned" => path = "ok" /\ failure = "none"
  BY DEF Judgement, Verdicts, Failures, Sound, RunTypeOK
<1>3. CASE Conclude(code_) /\ UNCHANGED path /\ observed' = FALSE /\ proof' = "none" /\ failure' = "none"
  <2>. HIDE DEF code_
  <2>1. /\ Accounted' /\ sink' \in Nat /\ verdict' \in Verdicts /\ at' = "over"
        /\ verdict' \in {code_, "EVIDENCE_UNAVAILABLE"}
    BY <1>1, <1>2, <1>3, Ending
  <2>2. UNCHANGED <<clock, known, moved, status>>
    BY DEF Retain
  <2>3. "none" \in TreeStatuses /\ "none" \in Failures
    BY DEF TreeStatuses, Failures
  <2>. QED BY <1>1, <1>2, <1>3, <2>1, <2>2, <2>3 DEF Sound, RunTypeOK, OnPath, Settled, Stages
<1>4. CASE path = "ok" /\ path' = "error" /\ GoTo("census") /\ UNCHANGED <<observed, proof, failure>>
  <2>1. Accounted' /\ sink' \in Nat /\ verdict' \in Verdicts /\ verdict' = "none"
    BY <1>1, <1>4, Underway DEF Stages, GoTo, Sound, Accounted
  <2>. QED BY <1>1, <1>4, <2>1 DEF Retain, Sound, RunTypeOK, OnPath, Settled, Stages, GoTo
<1>. QED BY <1>3, <1>4 DEF Retain

----------------------------------------------------------------------------
\* The theorems.

\* The runner's variables are left alone.
LEMMA RunnerStill ==
    ASSUME Sound, UNCHANGED <<at, path, known, observed, proof, status, failure, sink, verdict>>,
           clock' \in Working..Over, moved' \in SUBSET Processes
    PROVE  Sound'
BY DEF Sound, RunTypeOK, OnPath, Settled, Accounted, OneRecord

LEMMA RInvInductive ==
    ASSUME IInv, RInv, [Next]_vars
    PROVE  RInv'
<1>1. [SupervisorNext]_allVars /\ Begun'
  BY Simulated, BegunStays DEF RInv
<1>2. Told' /\ (Passed => Passed')
  BY <1>1, ToldStays, PassedStays DEF RInv
<1>3. TreeTypeOK /\ Sound
  BY DEF IInv, SupervisorTypeOK, RInv, Sound
<1>4. CASE Launch
  <2>1. Sound' /\ verdict' # "returned" /\ at' # "retain"
    BY <1>3, <1>4, LaunchSound
  <2>. QED BY <1>1, <1>2, <2>1 DEF RInv, Sound, Vouched
<1>5. CASE \/ CommunicateReturns \/ CommunicateTimesOut \/ CommunicateFails \/ FinishTree
           \/ KillCensus \/ KillTree \/ AwaitTree \/ AwaitFails \/ KillLate \/ ProveTree
           \/ EndSurvivors \/ Reap \/ FinalProof
  <2>1. Sound' /\ at' # "retain" /\ at' # "over"
    BY <1>3, <1>5, CommunicateSound, FinishTreeSound, KillSound, AwaitSound, ProveSound, ReapSound
  <2>2. verdict' = "none"
    BY <2>1 DEF Sound, Accounted
  <2>. QED BY <1>1, <1>2, <2>1, <2>2 DEF RInv, Sound, Vouched
<1>6. CASE ReadStatus \/ ReadFails
  <2>1. Sound' /\ at' = "retain" /\ (path' = "ok" /\ failure' = "none" => Passed)
    BY <1>3, <1>6, ReadSound
  <2>2. verdict' = "none"
    BY <2>1 DEF Sound, Accounted
  <2>. QED BY <1>1, <1>2, <2>1, <2>2 DEF RInv, Sound, Vouched
<1>7. CASE Retain
  <2>1. Sound' /\ at' # "retain" /\ (verdict' = "returned" => path = "ok" /\ failure = "none")
    BY <1>3, <1>7, RetainSound
  <2>2. at = "retain"
    BY <1>7 DEF Retain
  <2>. QED BY <1>1, <1>2, <2>1, <2>2 DEF RInv, Sound, Vouched
<1>8. CASE UNCHANGED <<at, path, known, observed, proof, status, failure, sink, verdict>>
           /\ clock' \in Working..Over /\ moved' \in SUBSET Processes
  <2>1. Sound'
    BY <1>3, <1>8, RunnerStill
  <2>. QED BY <1>1, <1>2, <1>8, <2>1 DEF RInv, Sound, Vouched
<1>9. CASE \/ (SupervisorStep \/ ReapDeadline) /\ UNCHANGED runVars
           \/ Done \/ UNCHANGED vars
  <2>1. UNCHANGED runVars
    BY <1>9 DEF Done, vars
  <2>2. clock \in Working..Over /\ moved \in SUBSET Processes
    BY DEF RInv, RunTypeOK
  <2>. QED BY <1>8, <2>1, <2>2 DEF runVars
<1>10. CASE Tick
  <2>1. clock' \in Working..Over /\ moved' \in SUBSET Processes
    BY <1>3, <1>10 DEF Tick, Sound, RunTypeOK, Working, Over
  <2>. QED BY <1>8, <1>10, <2>1 DEF Tick
<1>11. CASE Surroundings
  <2>1. clock' \in Working..Over /\ moved' \in SUBSET Processes
    BY <1>11 DEF Surroundings, RInv, RunTypeOK
  <2>. QED BY <1>8, <1>11, <2>1 DEF Surroundings
<1>. QED BY <1>4, <1>5, <1>6, <1>7, <1>9, <1>10, <1>11 DEF Next, RunnerStep, RunnerFault

LEMMA RInitially ==
    ASSUME Init
    PROVE  RInv
<1>1. /\ at = "launch" /\ path = "ok" /\ clock = 0 /\ known = {} /\ moved = {} /\ observed = FALSE
      /\ proof = "none" /\ status = "none" /\ failure = "none" /\ sink = 0 /\ verdict = "none"
      /\ sup = "idle" /\ found = "nothing"
  BY DEF Init, SupInit, Working
<1>2. RunTypeOK
  <2>1. /\ at \in Stages /\ path \in {"ok", "timeout", "error"}
        /\ proof \in TreeStatuses /\ status \in TreeStatuses
        /\ failure \in Failures /\ verdict \in Verdicts
    BY <1>1 DEF Stages, TreeStatuses, Failures, Verdicts
  <2>2. clock \in Working..Over /\ sink \in Nat
    BY <1>1 DEF Working, Over
  <2>3. known \in SUBSET Processes /\ moved \in SUBSET Processes /\ observed \in BOOLEAN
    BY <1>1
  <2>. QED BY <2>1, <2>2, <2>3 DEF RunTypeOK
<1>. QED BY <1>1, <1>2 DEF RInv, Begun, OnPath, Settled, Accounted, OneRecord, Vouched, Told

\* run keeps its invariant beside the supervisor's.
THEOREM RunInvariance == Spec => [](IInv /\ RInv)
<1>1. Init => RInv
  BY RInitially
<1>2. IInv /\ RInv /\ [Next]_vars => RInv'
  BY RInvInductive
<1>3. Spec => []IInv
  BY RunnerImplementsSupervisor, Containment, PTL
<1>. QED BY <1>1, <1>2, <1>3, PTL DEF Spec

\* The processes, the supervisor and the runner keep their types.
THEOREM RunTypes == Spec => []TypeOK
<1>1. IInv /\ RInv => TypeOK
  BY DEF IInv, SupervisorTypeOK, RInv, RunTypeOK, TypeOK
<1>. QED BY <1>1, RunInvariance, PTL

\* The result of a command is returned only when no process of the command
\* is left, wherever it may have gone.
THEOREM ReturnedMeansEmpty == Spec => []CleanMeansEmpty
<1>1. IInv /\ RInv => CleanMeansEmpty
  <2>1. SUFFICES ASSUME IInv, RInv, verdict = "returned" PROVE Empty
    BY DEF CleanMeansEmpty
  <2>2. Passed
    BY <2>1 DEF RInv, Vouched
  <2>3. Wrote("COMPLETE") /\ ~Wrote("SURVIVOR_UNCONTAINED")
    BY <2>2 DEF Passed, Wrote
  <2>. QED BY <2>1, <2>3 DEF IInv, Reported, NoneExists, Exists, Empty
<1>. QED BY <1>1, RunInvariance, PTL

\* A command whose supervisor had to look for survivors is never returned as
\* a success.
THEOREM SurvivorsFail == Spec => []SurvivorFailsTheCommand
<1>1. IInv /\ RInv => SurvivorFailsTheCommand
  <2>1. SUFFICES ASSUME IInv, RInv, verdict = "returned"
                 PROVE  sup \notin {"census", "kill", "sweep"} /\ found = "nothing"
    BY DEF SurvivorFailsTheCommand
  <2>2. Passed
    BY <2>1 DEF RInv, Vouched
  <2>3. Wrote("COMPLETE") /\ ~Wrote("SURVIVOR_KILLED")
    BY <2>2 DEF Passed, Wrote
  <2>. QED BY <2>1, <2>3 DEF IInv, Unfinished, RInv, Told
<1>. QED BY <1>1, RunInvariance, PTL

\* run retains one evidence record at most, and one for every verdict but
\* EVIDENCE_UNAVAILABLE.
THEOREM RecordedOnce == Spec => []OneRecord
<1>1. RInv => OneRecord
  BY DEF RInv, Accounted
<1>. QED BY <1>1, RunInvariance, PTL

----------------------------------------------------------------------------
\* The certificate of the process tree.

\* p is in the process group of the run.
InGroup(p) == group[p] = Supervisor

\* Nothing run can see is alive.
Sealed == KnownAlive = {} /\ GroupAlive = {}

\* Numbers are not given twice, the supervisor stays in its group, and what
\* was certified stays so.
Covered ==
    /\ sup = "idle" => at \in {"launch", "over"} /\ known = {} /\ proof = "none" /\ status = "none"
    /\ known \subseteq 0..born
    /\ InGroup(Supervisor)
    /\ proof = "gone" => Sealed
    /\ status = "gone" /\ path # "error" => Sealed

\* What a step of the supervisor does to the processes.
Gentle ==
    \/ \E p \in Processes : Die(p) \/ Bury(p) \/ Detach(p)
    \/ \E T : Doom(T)
    \/ UNCHANGED treeVars

LEMMA SupervisorGentle ==
    ASSUME SupervisorStep, ~(Runs("setup") /\ \E alive \in BOOLEAN : ForkLeader(alive))
    PROVE  Gentle
<1>1. Supervisor \in Processes /\ Leader \in Processes /\ Kids(Supervisor) \subseteq Processes
  BY Numbers DEF Kids
<1>2. CASE Setup BY <1>1, <1>2 DEF Setup, Leave, Gentle
<1>3. CASE WaitLeader BY <1>1, <1>3 DEF WaitLeader, Gentle
<1>4. CASE WaitAll BY <1>1, <1>4 DEF WaitAll, Report, Gentle, treeVars
<1>5. CASE ReapExited BY <1>1, <1>5 DEF ReapExited, Report, Proceed, Gentle, treeVars
<1>6. CASE Census BY <1>6 DEF Census, Report, Proceed, Gentle, treeVars
<1>7. CASE KillChild BY <1>7 DEF KillChild, Report, Proceed, Gentle, treeVars
<1>8. CASE Sweep BY <1>1, <1>8 DEF Sweep, Report, Proceed, Gentle, treeVars
<1>9. CASE Finish BY <1>1, <1>9 DEF Finish, Leave, Gentle
<1>. QED BY <1>2, <1>3, <1>4, <1>5, <1>6, <1>7, <1>8, <1>9 DEF SupervisorStep

LEMMA OutsidersGentle ==
    ASSUME Outsiders, \A p \in Candidates : ~Fork(p)
    PROVE  Gentle
BY Numbers DEF Outsiders, Environment, Exit, Collect, SupervisorDies, SupervisorShot, Gentle

\* A gentle step gives no life and no place in the group.
LEMMA GentleFades ==
    ASSUME TreeTypeOK, Gentle
    PROVE  /\ born' = born /\ group'[Supervisor] = group[Supervisor]
           /\ \A q \in Processes : Alive(q)' => Alive(q) /\ (InGroup(q)' => InGroup(q))
<1>1. Supervisor \in Processes /\ Supervisor \notin Candidates
  BY Numbers
<1>2. ASSUME NEW p \in Processes, Die(p) PROVE \A q \in Processes : Alive(q)' => Alive(q)
  BY <1>2 DEF Die, Alive
<1>3. ASSUME NEW p \in Processes, Bury(p) PROVE \A q \in Processes : Alive(q)' => Alive(q)
  BY <1>3 DEF TreeTypeOK, Bury, Alive
<1>4. ASSUME NEW T, Doom(T) PROVE \A q \in Processes : Alive(q)' => Alive(q)
  BY <1>4 DEF Doom, Alive
<1>5. ASSUME UNCHANGED state PROVE \A q : Alive(q)' => Alive(q)
  BY <1>5 DEF Alive
<1>6. \A q \in Processes : Alive(q)' => Alive(q)
  BY <1>2, <1>3, <1>4, <1>5 DEF Gentle, Detach, treeVars
<1>7. ASSUME NEW p, Detach(p)
      PROVE  /\ born' = born /\ group'[Supervisor] = group[Supervisor]
             /\ \A q \in Processes : InGroup(q)' => InGroup(q)
  BY <1>1, <1>7 DEF Detach, TreeTypeOK, InGroup
<1>8. /\ born' = born /\ group'[Supervisor] = group[Supervisor]
      /\ \A q \in Processes : InGroup(q)' => InGroup(q)
  BY <1>7 DEF Gentle, Die, Bury, Doom, treeVars, InGroup
<1>. QED BY <1>6, <1>8

\* What every step keeps.
LEMMA Progress ==
    ASSUME IInv, [SupervisorNext]_allVars
    PROVE  /\ born \in Nat /\ born' \in Nat /\ born <= born'
           /\ group'[Supervisor] = group[Supervisor]
<1>1. TreeTypeOK /\ TreeTypeOK'
  BY Inductive DEF IInv, SupervisorTypeOK
<1>2. born \in Nat /\ born' \in Nat
  BY <1>1, Numbers DEF TreeTypeOK
<1>3. CASE Start
  BY <1>2, <1>3 DEF Start
<1>4. ASSUME Gentle PROVE born <= born' /\ group'[Supervisor] = group[Supervisor]
  BY <1>1, <1>2, <1>4, GentleFades
<1>5. ASSUME NEW alive \in BOOLEAN, ForkLeader(alive), Runs("setup")
      PROVE  born <= born' /\ group'[Supervisor] = group[Supervisor]
  BY <1>2, <1>5, Numbers DEF ForkLeader, IInv, Lived, Runs
<1>6. ASSUME NEW p \in Candidates, Fork(p)
      PROVE  born <= born' /\ group'[Supervisor] = group[Supervisor]
  <2>1. born + 1 # Supervisor /\ Supervisor \in Processes
    BY <1>2, Numbers
  <2>. QED BY <1>1, <1>2, <1>6, <2>1 DEF Fork, TreeTypeOK
<1>7. CASE SupervisorStep
  BY <1>2, <1>4, <1>5, <1>7, SupervisorGentle
<1>8. CASE Outsiders
  BY <1>2, <1>4, <1>6, <1>8, OutsidersGentle
<1>9. CASE UNCHANGED treeVars
  BY <1>2, <1>9 DEF treeVars
<1>. QED BY <1>3, <1>7, <1>8, <1>9 DEF SupervisorNext, ReapDeadline, allVars

\* Who is not seen alive forks nobody who is.
LEMMA SealedStays ==
    ASSUME IInv, Covered, Sealed, known \subseteq Processes, sup # "idle",
           [SupervisorNext]_allVars, known' = known, moved \subseteq moved'
    PROVE  Sealed'
<1>1. TreeTypeOK /\ Supervisor \in Processes
  BY Numbers DEF IInv, SupervisorTypeOK
<1>2. /\ \A q \in known \ moved : ~Alive(q)
      /\ \A q \in Processes : Alive(q) => ~InGroup(q)
  BY DEF Sealed, KnownAlive, GroupAlive, InGroup
<1>3. CASE Gentle
  BY <1>1, <1>2, <1>3, GentleFades DEF Sealed, KnownAlive, GroupAlive, InGroup
<1>4. ASSUME NEW p \in Candidates, Fork(p) PROVE Sealed'
  <2>1. born \in Nat /\ born + 1 \notin known /\ p \in Processes /\ ~InGroup(p) /\ p # born + 1
    <3>1. born \in Nat
      BY <1>1, Numbers DEF TreeTypeOK
    <3>2. born + 1 \notin known
      BY <3>1 DEF Covered
    <3>3. p \in Processes /\ Alive(p) /\ state[p] # "unborn"
      BY <1>4, Numbers DEF Fork, Alive
    <3>4. p <= born
      BY <1>4, <3>1, <3>3, Numbers DEF IInv, Numbered
    <3>. QED BY <1>2, <3>1, <3>2, <3>3, <3>4, Numbers
  <2>2. \A q \in Processes : q # born + 1 => state'[q] = state[q] /\ group'[q] = group[q]
    BY <1>1, <1>4 DEF Fork, TreeTypeOK
  <2>3. \A q \in Processes : q = born + 1 => ~InGroup(q)'
    <3>1. group' = [group EXCEPT ![born + 1] = group[p]] /\ group \in [Processes -> Processes]
      BY <1>1, <1>4 DEF Fork, TreeTypeOK
    <3>2. group'[Supervisor] = group[Supervisor]
      BY <1>1, <2>1, <2>2, Numbers
    <3>3. \A q \in Processes : q = born + 1 => group'[q] = group[p]
      BY <3>1
    <3>. QED BY <2>1, <3>2, <3>3 DEF InGroup
  <2>4. \A q \in Processes : q # born + 1 => (Alive(q)' <=> Alive(q)) /\ (InGroup(q)' <=> InGroup(q))
    <3>1. group'[Supervisor] = group[Supervisor]
      BY <1>1, <2>1, <2>2, Numbers
    <3>. QED BY <2>2, <3>1 DEF Alive, InGroup
  <2>5. KnownAlive' = {}
    BY <1>2, <2>1, <2>4 DEF KnownAlive
  <2>6. \A q \in Processes : Alive(q)' => ~InGroup(q)'
    BY <1>2, <2>3, <2>4
  <2>7. GroupAlive' = {}
    BY <2>6 DEF GroupAlive, InGroup
  <2>. QED BY <2>5, <2>7 DEF Sealed
<1>5. ~Runs("setup")
  BY <1>1, <1>2 DEF Runs, Alive, Covered
<1>6. CASE SupervisorStep
  BY <1>3, <1>5, <1>6, SupervisorGentle
<1>7. CASE Outsiders
  BY <1>3, <1>4, <1>7, OutsidersGentle
<1>8. CASE UNCHANGED treeVars
  BY <1>3, <1>8 DEF Gentle
<1>9. CASE Start
  BY <1>9 DEF Start
<1>. QED BY <1>6, <1>7, <1>8, <1>9 DEF SupervisorNext, ReapDeadline, allVars

\* A tree that is called gone by one of the probes is sealed.
LEMMA GoneIsSealed ==
    ASSUME TreeTypeOK, known \subseteq Processes, NEW direct \in BOOLEAN, "gone" \in TreeStatus(direct)
    PROVE  Sealed
<1>1. CensusStatus = "gone" \/ DirectStatus = "gone"
  BY DEF TreeStatus
<1>2. CASE CensusStatus = "gone"
  BY <1>2 DEF CensusStatus, Sealed
<1>3. CASE DirectStatus = "gone"
  BY <1>3 DEF DirectStatus, Sealed, GroupAlive, Exists
<1>. QED BY <1>1, <1>2, <1>3

\* A step that certifies nothing new.
LEMMA CoveredKept ==
    ASSUME IInv, RInv, Covered, [SupervisorNext]_allVars,
           sup' = "idle" => sup = "idle" /\ at' \in {"launch", "over"},
           known' = known, proof' = proof \/ proof' = "none", moved \subseteq moved',
           status' = status, path' = path \/ path' = "error" \/ status = "none"
    PROVE  Covered'
<1>1. known \subseteq Processes
  BY DEF RInv, RunTypeOK
<1>2. /\ born \in Nat /\ born' \in Nat /\ born <= born'
      /\ group'[Supervisor] = group[Supervisor]
  BY Progress
<1>3. CASE sup = "idle"
  BY <1>2, <1>3 DEF Covered, InGroup
<1>4. CASE sup # "idle"
  <2>1. Sealed => Sealed'
    BY <1>1, <1>4, SealedStays
  <2>2. known' \subseteq 0..born'
    BY <1>2 DEF Covered
  <2>. QED BY <1>2, <1>4, <2>1, <2>2 DEF Covered, InGroup
<1>. QED BY <1>3, <1>4

\* What the censuses add has been forked.
LEMMA CensusBorn ==
    ASSUME IInv
    PROVE  /\ \A seen \in Monitored : seen \subseteq 0..born
           /\ Below(Supervisor) \subseteq 0..born
<1>1. born \in Nat
  BY Numbers DEF IInv, SupervisorTypeOK, TreeTypeOK
<1>2. \A p \in Processes : Exists(p) => p \in 0..born
  BY <1>1, Numbers DEF IInv, Numbered, Exists, Alive
<1>3. Candidates \subseteq Processes /\ Supervisor \in 0..born
  BY <1>1, Numbers
<1>. QED BY <1>2, <1>3 DEF Monitored, Below, Exists

\* A step of run that looks at the tree.
LEMMA CoveredLook ==
    ASSUME IInv, RInv, Covered, RunnerStep, UNCHANGED <<supVars, path, born, group>>,
           at \notin {"launch", "over"},
           known' \subseteq 0..born,
           proof' = "gone" => Sealed',
           status' = "gone" /\ path # "error" => Sealed'
    PROVE  Covered'
<1>1. sup' # "idle"
  BY DEF Covered, supVars
<1>. QED BY <1>1 DEF Covered, InGroup

LEMMA LookSafe ==
    ASSUME IInv, RInv, Covered, FinishTree \/ KillCensus \/ KillLate \/ ProveTree \/ FinalProof
    PROVE  Covered'
<1>1. TreeTypeOK /\ born \in Nat /\ known \subseteq Processes
  <2>1. TreeTypeOK
    BY DEF IInv, SupervisorTypeOK
  <2>2. born \in Nat
    BY <2>1, Numbers DEF TreeTypeOK
  <2>3. RunTypeOK
    BY DEF RInv
  <2>. QED BY <2>1, <2>2, <2>3 DEF RunTypeOK
<1>2. RunnerStep
  BY DEF RunnerStep
<1>3. CASE FinishTree
  <2>1. /\ at = "finish" /\ path = "ok" /\ proof = "none" /\ proof' = "none" /\ path' = path
        /\ UNCHANGED treeVars /\ UNCHANGED supVars /\ known' \in Monitored
    BY <1>3 DEF FinishTree, RInv, OnPath, Settled
  <2>2. known' \subseteq 0..born /\ known' \subseteq Processes
    BY <1>1, <2>1, CensusBorn, Probes
  <2>3. ASSUME status' = "gone" PROVE Sealed'
    <3>1. "gone" \in TreeStatus(FALSE)'
      BY <1>3, <2>3 DEF FinishTree
    <3>2. (CensusStatus = "gone")'
      BY <3>1 DEF TreeStatus
    <3>. QED BY <3>2 DEF CensusStatus, Sealed
  <2>. QED BY <1>2, <2>1, <2>2, <2>3, CoveredLook DEF treeVars
<1>4. CASE KillCensus
  <2>1. /\ at = "census" /\ proof = "none" /\ proof' = "none" /\ path' = path /\ status' = status
        /\ UNCHANGED treeVars /\ UNCHANGED supVars
        /\ status = "none" \/ path = "error"
    BY <1>4 DEF KillCensus, RInv, Settled
  <2>2. known' \subseteq 0..born
    BY <1>4, CensusBorn DEF KillCensus, Covered
  <2>. QED BY <1>2, <2>1, <2>2, CoveredLook DEF treeVars
<1>5. CASE KillLate
  <2>1. /\ at = "late" /\ proof = "none" /\ proof' = "none" /\ path' = path /\ status' = status
        /\ UNCHANGED <<born, group>> /\ UNCHANGED supVars
        /\ status = "none" \/ path = "error"
    BY <1>5 DEF KillLate, RInv, Settled, Doom, treeVars
  <2>2. known' \subseteq 0..born
    BY <1>5, CensusBorn DEF KillLate, Covered
  <2>. QED BY <1>2, <2>1, <2>2, CoveredLook
<1>6. CASE ProveTree
  <2>1. /\ at = "prove" /\ path = "timeout" /\ status = "none" /\ status' = status /\ path' = path
        /\ UNCHANGED treeVars /\ UNCHANGED supVars /\ UNCHANGED <<known, moved>>
        /\ proof' \in TreeStatus(TRUE)
    BY <1>6 DEF ProveTree, RInv, OnPath, Settled
  <2>2. Sealed => Sealed'
    BY <2>1 DEF Sealed, KnownAlive, GroupAlive, Alive, treeVars
  <2>3. proof' = "gone" => Sealed'
    BY <1>1, <2>1, <2>2, GoneIsSealed
  <2>. QED BY <1>2, <2>1, <2>3, CoveredLook DEF treeVars, Covered
<1>7. CASE FinalProof
  <2>1. /\ at = "final" /\ proof' = proof /\ path' = path
        /\ UNCHANGED treeVars /\ UNCHANGED supVars /\ UNCHANGED <<known, moved>>
        /\ status' = proof \/ status' \in TreeStatus(TRUE)
    BY <1>7 DEF FinalProof, FinalStatus
  <2>2. Sealed => Sealed'
    BY <2>1 DEF Sealed, KnownAlive, GroupAlive, Alive, treeVars
  <2>3. (proof' = "gone" \/ status' = "gone") => Sealed'
    BY <1>1, <2>1, <2>2, GoneIsSealed DEF Covered
  <2>. QED BY <1>2, <2>1, <2>3, CoveredLook DEF treeVars, Covered
<1>. QED BY <1>3, <1>4, <1>5, <1>6, <1>7

LEMMA CoveredInductive ==
    ASSUME IInv, RInv, Covered, [Next]_vars
    PROVE  Covered'
<1>1. [SupervisorNext]_allVars
  BY Simulated DEF RInv
<1>2. CASE FinishTree \/ KillCensus \/ KillLate \/ ProveTree \/ FinalProof
  BY <1>2, LookSafe
<1>3. CASE Launch
  <2>1. status = "none" /\ UNCHANGED <<known, moved, proof, status, path>>
        /\ (sup' = "idle" => sup = "idle" /\ at' = "over")
    BY <1>3 DEF Launch, RInv, Begun, Covered, Conclude
  <2>. QED BY <1>1, <2>1, CoveredKept
<1>4. CASE \/ CommunicateReturns \/ CommunicateTimesOut \/ CommunicateFails \/ EndSurvivors
           \/ KillTree \/ AwaitTree \/ AwaitFails \/ Reap \/ ReadStatus \/ ReadFails \/ Retain
  <2>1. /\ UNCHANGED supVars /\ UNCHANGED <<known, moved, status>>
        /\ proof' = proof \/ proof' = "none"
        /\ at \notin {"launch", "over"}
    BY <1>4 DEF CommunicateReturns, CommunicateTimesOut, CommunicateFails, EndSurvivors, KillTree,
       AwaitTree, AwaitFails, Reap, ReadStatus, ReadFails, Retain
  <2>2. path' = path \/ path' = "error" \/ at = "communicate"
    BY <1>4 DEF CommunicateReturns, CommunicateTimesOut, CommunicateFails, EndSurvivors, KillTree,
       AwaitTree, AwaitFails, Reap, ReadStatus, ReadFails, Retain
  <2>3. at = "communicate" => status = "none"
    BY DEF RInv, OnPath, Settled
  <2>4. sup' # "idle"
    BY <2>1 DEF supVars, Covered
  <2>. QED BY <1>1, <2>1, <2>2, <2>3, <2>4, CoveredKept
<1>5. ASSUME UNCHANGED <<at, known, proof, status, path>>, moved \subseteq moved',
             sup' = "idle" => sup = "idle"
      PROVE  Covered'
  BY <1>1, <1>5, CoveredKept DEF Covered
<1>6. CASE (SupervisorStep \/ ReapDeadline) /\ UNCHANGED runVars
  <2>1. sup' # "idle"
    BY <1>6 DEF SupervisorStep, Setup, WaitLeader, WaitAll, ReapExited, Census, KillChild, Sweep,
       Finish, ReapDeadline, Runs, Leave, ForkLeader, Report, Proceed
  <2>. QED BY <1>5, <1>6, <2>1 DEF runVars
<1>7. CASE Surroundings \/ Tick \/ Done \/ UNCHANGED vars
  BY <1>5, <1>7 DEF Surroundings, Tick, Done, vars, supVars, runVars
<1>. QED BY <1>2, <1>3, <1>4, <1>6, <1>7 DEF Next, RunnerStep, RunnerFault

\* Also after a timeout, a tree that run certifies as gone has no living
\* process in its group and none that was recorded and stayed in its group.
THEOREM GoneIsCovered == Spec => []GoneCoversTheKnown
<1>1. Init => Covered
  BY Numbers DEF Init, TreeInit, SupInit, Covered
<1>2. IInv /\ RInv /\ Covered /\ [Next]_vars => Covered'
  BY CoveredInductive
<1>3. Covered => GoneCoversTheKnown
  BY DEF Covered, Sealed, GoneCoversTheKnown
<1>. QED BY <1>1, <1>2, <1>3, RunInvariance, PTL DEF Spec
=============================================================================

---------------------------- MODULE SignalProofs ----------------------------
(***************************************************************************)
(* OnlyProvenSignalled of ServiceLifecycle, for any descendants, strangers *)
(* and process numbers.                                                    *)
(*                                                                         *)
(* A signal goes to a number or to a group.  At the proof before it, the   *)
(* number's one holder is a process of the service, and a group with one   *)
(* of those in it has no strangers (Table); whoever comes later is in      *)
(* born.  So it is enough to know that every proof is one of a process of  *)
(* the service: for the service itself because it was expected under that  *)
(* identity (Expecting), for the members of its tree because they were     *)
(* captured from a proved root (TreeIsOwn) or, on macOS, adopted from such *)
(* a census (GroupIsOwn).                                                  *)
(***************************************************************************)
EXTENDS ServiceProofs

-----------------------------------------------------------------------------
\* The inductive invariant, on top of ServiceProofs'.

\* The service's own processes, and who may be met under a number or in a group.
Rooted == {p \in Procs : proc[p].root # Nobody}
Clear(n) == \A p \in Procs : Listed(p) /\ proc[p].pid = n => p \in Rooted \cup born
ClearGroup(g) == \A p \in Procs : Listed(p) /\ proc[p].group = g => p \in Rooted \cup born

\* What the process table guarantees: a number has one holder, a stranger is
\* in nobody's group and nobody's child.
Table ==
    /\ \A p \in Procs : ~Exists(p) => proc[p] = NoProcess
    /\ \A p, q \in Procs : Listed(p) /\ Listed(q) /\ proc[p].pid = proc[q].pid => p = q
    /\ POSIX => \A p, q \in Procs :
          Listed(p) /\ Listed(q) /\ proc[p].group = proc[q].group => (p \in Rooted <=> q \in Rooted)
    /\ \A p \in Procs : Listed(p) /\ p \notin Rooted => proc[p].group = proc[p].pid
    /\ \A p \in Procs : proc[p].parent # Nobody => p \in Rooted
    /\ \A s \in Services : Exists(s) => s \in Rooted

\* Whom macOS takes for the service's own, and a target it has just proved.
Own == Rooted \cup ctl.taken
Aimed(k) ==
    /\ k \in Own /\ Exists(k)
    /\ \A q \in Procs : Listed(q) /\ proc[q].pid = proc[k].pid => q \in Own \cup born

\* Where a signal is next, an identity has just been proved.
Aims == {"kill", "w_stop", "o_term", "o_kill", "o_leader", "m_group"}
Targets ==
    /\ ctl.at \in Aims => Clear(ctl.pid)
    /\ ctl.at \in {"f_term", "f_group"} => ClearGroup(proc[ctl.repl].group)
    /\ ctl.at = "f_kill" => ctl.obs \in Rooted /\ Clear(proc[ctl.obs].pid)
    /\ ctl.at = "m_kill" => Aimed(ctl.obs)

\* Linux: once its identity is proved the replacement is a service, and what is
\* captured with it is its own.
Proving == ctl.at \in {"verify", "stat"}
Stopping == StopsOnLinux \ {"f_alive", "f_zombie"}
TreeIsOwn ==
    /\ ctl.at \in Stopping \/ (Proving /\ ctl.ret = "f_term") => ctl.repl \in Services
    /\ ctl.at \in Stopping \ {"f_tree"} \/ (Proving /\ ctl.ret = "f_term") => ctl.known \subseteq Rooted
    /\ ctl.at \in {"f_root", "f_stat", "f_kill"} => ctl.todo \subseteq Rooted

\* macOS: what is known is the service's own or was taken for it, and the
\* service's number is known only of a service.  A census may list a stranger
\* under that number, but the probe of it will fail.
Passes == {"m_own", "m_pass", "m_probe", "m_rootid", "m_group", "m_each", "m_kill", "m_census"}
Numbered(p) == Exists(p) /\ (proc[p].pid = ctl.pid => p \in Services)
Candidate(p) == Exists(p) /\ (p \in Rooted \/ proc[p].pid = ctl.pid)
GroupIsOwn ==
    /\ ctl.at \in Passes => \A p \in ctl.known : p \in Own /\ Numbered(p)
    /\ ctl.at \in {"m_own", "m_probe"} => \A p \in ctl.listed : Candidate(p)
    /\ ctl.at = "m_probe" => ctl.rest \subseteq ctl.known
    /\ ctl.at \in {"m_probe", "m_rootid", "m_group", "m_each", "m_kill"} => ctl.todo \subseteq ctl.known

\* Linux: a stranger can be committed for the replacement, but then no service
\* has the number any more and no identity is ever proved again.
Foreign(p) == p \notin Services => \A s \in Services : Listed(s) => proc[s].pid # ctl.pid
Committed ==
    /\ ctl.at = "commit" => Exists(Replacement) /\ ctl.obs \in Procs /\ Foreign(ctl.obs)
    /\ ctl.repl # Nobody => Exists(Replacement) /\ Foreign(ctl.repl)
    /\ ctl.op \notin {"gone", "outer"} => ctl.init \in Services \cup {Nobody}
    /\ Unrestarted /\ Where # "create" => ctl.init \in Services /\ ctl.repl = Nobody
    /\ ctl.at = "adopt" => ctl.obs \in Services
    /\ ctl.at = "stat" => Expected \in Services \cup {Nobody}

Expecting ==
    /\ ctl.at = "w_check" => ctl.obs \in Services
    /\ ctl.op = "outer" => sidecar # Pending
    /\ ctl.at = "o_fallback" => platform = "windows"
    /\ ctl.op \in {"gone", "outer"} => ctl.repl = Nobody
    /\ Proving /\ ctl.ret \in {"f_tree", "f_term"} => ctl.repl # Nobody
    /\ platform = "linux" => Committed

Sights == Table /\ Targets /\ TreeIsOwn /\ GroupIsOwn /\ Expecting /\ OnlyProvenSignalled

\* What a step has to show.  That nobody is dropped from taken (TakenGrows) is
\* the rest.
Harmless == harmed' \subseteq Adopted
Upheld == Table' /\ Targets' /\ TreeIsOwn' /\ GroupIsOwn' /\ Expecting' /\ Harmless

-----------------------------------------------------------------------------
\* The process table.

\* What exists keeps its number, its group and its root, and what is new is in
\* good order.
Onward ==
    /\ Table'
    /\ \A p \in Procs : Exists(p) =>
          /\ Exists(p)' /\ (Listed(p)' => Listed(p))
          /\ proc'[p].pid = proc[p].pid /\ proc'[p].group = proc[p].group
          /\ proc'[p].root = proc[p].root
\* What is new is noted.
Noted ==
    /\ born \subseteq born'
    /\ \A p \in Procs : ~Exists(p) /\ Exists(p)' => p \in born'

\* A table in which processes only end, or move into a job.
LEMMA ThinTable ==
    ASSUME Table, UNCHANGED platform,
           \A p \in Procs :
              /\ proc'[p].pid = proc[p].pid /\ proc'[p].group = proc[p].group
              /\ proc'[p].root = proc[p].root
              /\ proc'[p].parent \in {proc[p].parent, Nobody}
              /\ Exists(p)' <=> Exists(p)
              /\ Listed(p)' => Listed(p)
              /\ ~Exists(p) => proc'[p] = proc[p]
    PROVE  Onward /\ (born \subseteq born' => Noted)
<1>1. Rooted' = Rooted BY DEF Rooted
<1>2. POSIX' = POSIX BY DEF POSIX
<1>3. Table' BY <1>1, <1>2, Numbers DEF Table
<1>. QED BY <1>3 DEF Onward, Noted

\* A table with one process more.
LEMMA BirthTable ==
    ASSUME Table, UNCHANGED platform, proc \in [Procs -> Processes],
           NEW c \in Procs, ~Exists(c), NEW r, proc' = [proc EXCEPT ![c] = r],
           r.st \in {"live", "suspended"}, Free(r.pid),
           r.parent # Nobody \/ c \in Services => r.root # Nobody,
           r.root = Nobody => r.group = r.pid,
           POSIX => \A q \in Procs : Listed(q) /\ proc[q].group = r.group =>
                       (q \in Rooted <=> r.root # Nobody)
    PROVE  Onward /\ (born' = born \cup {c} => Noted)
<1>1. proc'[c] = r /\ \A p \in Procs : p # c => proc'[p] = proc[p]
  OBVIOUS
<1>2. /\ \A p \in Procs : p # c => /\ Exists(p)' <=> Exists(p)
                                   /\ Listed(p)' <=> Listed(p)
                                   /\ p \in Rooted' <=> p \in Rooted
      /\ Exists(c)' /\ Listed(c)' /\ (c \in Rooted' <=> r.root # Nobody)
  BY <1>1 DEF Exists, Listed, Rooted
<1>3. POSIX' = POSIX BY DEF POSIX
<1>4. \A p \in Procs : Listed(p) => proc[p].pid # r.pid
  BY DEF Free
<1>5. Table'
  <2>1. \A p \in Procs : ~Exists(p)' => proc'[p] = NoProcess BY <1>1, <1>2 DEF Table
  <2>2. \A p, q \in Procs : Listed(p)' /\ Listed(q)' /\ proc'[p].pid = proc'[q].pid => p = q
    BY <1>1, <1>2, <1>4 DEF Table
  <2>3. POSIX' => \A p, q \in Procs :
          Listed(p)' /\ Listed(q)' /\ proc'[p].group = proc'[q].group =>
             (p \in Rooted' <=> q \in Rooted')
    BY <1>1, <1>2, <1>3 DEF Table
  <2>4. \A p \in Procs : Listed(p)' /\ p \notin Rooted' => proc'[p].group = proc'[p].pid
    BY <1>1, <1>2 DEF Table
  <2>5. \A p \in Procs : proc'[p].parent # Nobody => p \in Rooted'
    BY <1>1, <1>2 DEF Table
  <2>6. \A s \in Services : Exists(s)' => s \in Rooted'
    BY <1>1, <1>2, Numbers DEF Table
  <2>. QED BY <2>1, <2>2, <2>3, <2>4, <2>5, <2>6 DEF Table
<1>. QED BY <1>1, <1>2, <1>5 DEF Onward, Noted

\* What was clear stays clear as long as no new proof begins.
LEMMA ClearStays ==
    ASSUME Table, Onward, Noted
    PROVE  /\ Rooted \subseteq Rooted'
           /\ \A n : Clear(n) => Clear(n)'
           /\ \A g : ClearGroup(g) => ClearGroup(g)'
           /\ \A p \in Rooted : proc'[p].pid = proc[p].pid /\ proc'[p].group = proc[p].group
<1>1. \A p \in Rooted : Exists(p) BY DEF Table, Rooted, NoProcess
<1>2. Rooted \subseteq Rooted' BY <1>1 DEF Rooted, Onward
<1>3. ASSUME NEW p \in Procs, Listed(p)'
      PROVE  \/ p \in born'
             \/ Listed(p) /\ proc'[p].pid = proc[p].pid /\ proc'[p].group = proc[p].group
  BY <1>3 DEF Onward, Noted, Listed, Exists
<1>4. \A n : Clear(n) => Clear(n)' BY <1>2, <1>3 DEF Clear, Noted
<1>5. \A g : ClearGroup(g) => ClearGroup(g)' BY <1>2, <1>3 DEF ClearGroup, Noted
<1>6. \A p \in Rooted : proc'[p].pid = proc[p].pid /\ proc'[p].group = proc[p].group
  BY <1>1 DEF Onward, Rooted
<1>. QED BY <1>2, <1>4, <1>5, <1>6

LEMMA OwnStays ==
    ASSUME Table, Onward, Noted, UNCHANGED ctl
    PROVE  \A p \in Procs : /\ p \in Own => p \in Own'
                            /\ Numbered(p) => Numbered(p)'
                            /\ Candidate(p) => Candidate(p)'
                            /\ Aimed(p) => Aimed(p)'
<1>1. Rooted \subseteq Rooted' BY ClearStays
<1>2. Own \subseteq Own' BY <1>1 DEF Own
<1>3. ASSUME NEW p \in Procs, Exists(p) PROVE Exists(p)' /\ proc'[p].pid = proc[p].pid
  BY <1>3 DEF Onward
<1>4. ASSUME NEW q \in Procs, Listed(q)'
      PROVE  q \in born' \/ (Listed(q) /\ proc'[q].pid = proc[q].pid)
  BY <1>4 DEF Onward, Noted, Listed, Exists
<1>5. ASSUME NEW p \in Procs, Aimed(p) PROVE Aimed(p)'
  <2>1. p \in Own' /\ Exists(p)' /\ proc'[p].pid = proc[p].pid BY <1>2, <1>3, <1>5 DEF Aimed
  <2>2. ASSUME NEW q \in Procs, Listed(q)', proc'[q].pid = proc'[p].pid
        PROVE  q \in Own' \cup born'
    BY <1>2, <1>4, <1>5, <2>1, <2>2 DEF Aimed, Noted
  <2>. QED BY <2>1, <2>2 DEF Aimed
<1>. QED BY <1>1, <1>2, <1>3, <1>5 DEF Numbered, Candidate

LEMMA SameTable ==
    ASSUME Table, UNCHANGED <<platform, proc>>
    PROVE  Onward /\ (born \subseteq born' => Noted) /\ Rooted' = Rooted
BY ThinTable DEF Exists, Listed, Rooted

\* A process just proved is alone under its number, and so is its group.
LEMMA ProofClears ==
    ASSUME Table, NEW p \in Rooted, Listed(p), UNCHANGED <<platform, proc>>
    PROVE  /\ Clear(proc[p].pid)'
           /\ POSIX => ClearGroup(proc[p].group)'
<1>. Rooted' = Rooted /\ p \in Procs BY DEF Rooted
<1>. QED BY DEF Table, Clear, ClearGroup, Listed

LEMMA Unharmed ==
    ASSUME OnlyProvenSignalled, UNCHANGED harmed
    PROVE  Harmless
BY DEF OnlyProvenSignalled, Harmless

\* A signal to a clear number or group harms nobody.
LEMMA SignalHarmless ==
    ASSUME OnlyProvenSignalled, NEW S \in SUBSET Procs, Signal(S), S \subseteq Rooted \cup born
    PROVE  Harmless
BY DEF OnlyProvenSignalled, Harmless, Signal, Rooted

LEMMA ListingHarmless ==
    ASSUME OnlyProvenSignalled, NEW n, Clear(n), Signal(Listing(n))
    PROVE  Harmless
<1>1. Listing(n) \subseteq Rooted \cup born /\ Listing(n) \subseteq Procs BY DEF Clear, Listing
<1>. QED BY <1>1, SignalHarmless

LEMMA GroupHarmless ==
    ASSUME OnlyProvenSignalled, NEW g, ClearGroup(g), Signal(InGroup(g))
    PROVE  Harmless
<1>1. InGroup(g) \subseteq Rooted \cup born /\ InGroup(g) \subseteq Procs
  BY DEF ClearGroup, InGroup, Live, Listed
<1>. QED BY <1>1, SignalHarmless

\* A stranger's group has its own number.
LEMMA GroupOfNumber ==
    ASSUME Table, NEW n, Clear(n)
    PROVE  ClearGroup(n)
BY DEF Table, Clear, ClearGroup

-----------------------------------------------------------------------------
\* The fields of a controller that matter here.

Alike(c, d) ==
    /\ d.pid = c.pid /\ d.op = c.op /\ d.loss = c.loss
    /\ d.obs = c.obs /\ d.init = c.init /\ d.repl = c.repl
    /\ d.known = c.known /\ d.todo = c.todo /\ d.listed = c.listed /\ d.rest = c.rest
    /\ d.taken = c.taken

LEMMA GotoAlike ==
    ASSUME NEW c \in Controllers, NEW l \in Labels, NEW d, d = [c EXCEPT !.at = l]
    PROVE  Alike(c, d) /\ d.at = l /\ d.ret = c.ret
BY DEF Alike, Controllers

LEMMA VerifyAlike ==
    ASSUME NEW c \in Controllers, NEW l \in Labels, NEW d, d = Verify(c, l)
    PROVE  Alike(c, d) /\ d.at = "verify" /\ d.ret = l
BY DEF Alike, Controllers, Verify

LEMMA IdleAlike ==
    ASSUME NEW c \in Controllers, NEW d, d = Idle(c)
    PROVE  /\ d.pid = c.pid /\ d.init = c.init /\ d.repl = c.repl /\ d.loss = c.loss
           /\ d.at = "idle" /\ d.op = "none" /\ d.taken = c.taken
BY DEF Controllers, Idle

LEMMA CleanedAlike ==
    ASSUME NEW c \in Controllers, NEW d, d = Cleaned(c)
    PROVE  /\ d.pid = c.pid /\ d.init = c.init /\ d.repl = c.repl /\ d.loss = c.loss
           /\ d.at = "exiting" /\ d.op = "none" /\ d.taken = c.taken
<1>. DEFINE i == Idle(c)
<1>1. /\ i \in Controllers
      /\ i.pid = c.pid /\ i.init = c.init /\ i.repl = c.repl /\ i.loss = c.loss
      /\ i.at = "idle" /\ i.op = "none" /\ i.taken = c.taken
  BY IdleKeeps, IdleAlike
<1>. HIDE DEF i
<1>2. d = [i EXCEPT !.at = "exiting", !.fin = "clean"] BY DEF Cleaned, i
<1>. QED BY <1>1, <1>2 DEF Controllers

LEMMA RaiseAlike ==
    ASSUME NEW c \in Controllers, c.op \notin {"none", "gone"}, NEW d, d = Raise(c)
    PROVE  /\ d.pid = c.pid /\ d.init = c.init /\ d.repl = c.repl /\ d.taken = c.taken
           /\ d.at \in {"exiting", "idle", "w_job", "o_fallback"}
           /\ d.op = "outer" => c.op = "outer"
           /\ d.op # "gone" /\ d.op \notin {"create", "loss", "finalize"}
           /\ c.op = "outer" => d.op = "outer"
           /\ d.at = "o_fallback" => c.op = "outer"
           /\ d.op = "none" =>
                 \/ d.loss = c.loss /\ c.op \in {"create", "finalize"}
                 \/ d.loss = "failed"
<1>. DEFINE i == Idle(c)
<1>1. /\ i \in Controllers
      /\ i.pid = c.pid /\ i.init = c.init /\ i.repl = c.repl /\ i.loss = c.loss
      /\ i.at = "idle" /\ i.op = "none" /\ i.taken = c.taken
  BY IdleKeeps, IdleAlike
<1>. HIDE DEF i
<1>. c.handle \in BOOLEAN /\ c.op \in {"create", "none", "loss", "undo", "finalize", "gone", "outer"}
  BY DEF Controllers
<1>2. CASE c.op = "create"
  <2>1. d = [i EXCEPT !.at = "exiting"] BY <1>2 DEF Raise, i
  <2>. QED BY <1>1, <1>2, <2>1 DEF Controllers
<1>3. CASE c.op = "loss" /\ c.handle
  <2>1. d = [c EXCEPT !.op = "undo", !.at = "w_job"] BY <1>3 DEF Raise
  <2>. QED BY <1>3, <2>1 DEF Controllers
<1>4. CASE c.op = "undo" \/ (c.op = "loss" /\ ~c.handle)
  <2>1. d = [i EXCEPT !.loss = "failed"] BY <1>4 DEF Raise, i
  <2>. QED BY <1>1, <1>4, <2>1 DEF Controllers
<1>5. CASE c.op = "finalize"
  <2>1. d = [i EXCEPT !.at = "exiting", !.fin = "failed"] BY <1>5 DEF Raise, i
  <2>. QED BY <1>1, <1>5, <2>1 DEF Controllers
<1>6. CASE c.op = "outer"
  <2>1. d = [c EXCEPT !.at = "o_fallback"] BY <1>6 DEF Raise
  <2>. QED BY <1>6, <2>1 DEF Controllers
<1>. QED BY <1>2, <1>3, <1>4, <1>5, <1>6

-----------------------------------------------------------------------------
\* A step of the controller that commits nothing and proves nothing.

\* The places where the invariant says something of the controller's memory.
Delicate == Aims \cup Stopping \cup Passes
            \cup {"commit", "adopt", "stat", "w_check", "o_fallback"}

\* On Linux: what was committed is kept with its number, or dropped.
Remembers ==
    /\ ctl'.repl = Nobody \/ (ctl'.repl = ctl.repl /\ ctl'.pid = ctl.pid)
    /\ ctl'.op \notin {"gone", "outer"} =>
          \/ ctl'.init = Nobody
          \/ ctl'.init = ctl.init /\ ctl.op \notin {"gone", "outer"}
    /\ Unrestarted' => /\ Unrestarted /\ Where # "create"
                       /\ ctl'.init = ctl.init /\ ctl'.repl = ctl.repl

LEMMA SightsStep ==
    ASSUME IInv, IInv', Sights, Onward, UNCHANGED platform, Harmless,
           Targets', TreeIsOwn', GroupIsOwn',
           ctl'.at \notin {"commit", "adopt", "stat", "w_check"},
           ctl'.at = "o_fallback" => platform = "windows",
           ctl'.op = "outer" => sidecar' # Pending,
           ctl'.op \in {"gone", "outer"} => ctl'.repl = Nobody,
           Proving' /\ ctl'.ret \in {"f_tree", "f_term"} => ctl'.repl # Nobody,
           platform = "linux" => Remembers
    PROVE  Upheld
<1>. USE DEF Sights
<1>1. Table' BY DEF Onward
<1>3. ASSUME platform = "linux" PROVE Committed'
  <2>1. Committed /\ Remembers BY <1>3 DEF Expecting
  <2>2. Replacement \in Procs /\ Services \subseteq Procs /\ Services = {Initial, Replacement}
    BY Numbers DEF Services
  <2>3. ASSUME ctl'.repl # Nobody PROVE Exists(Replacement)' /\ Foreign(ctl.repl)'
    <3>1. Exists(Replacement) /\ Foreign(ctl.repl) /\ ctl'.repl = ctl.repl /\ ctl'.pid = ctl.pid
      BY <2>1, <2>3 DEF Committed, Remembers
    <3>2. \A s \in Services : Exists(s) BY <2>2, <3>1 DEF IInv, Single
    <3>. QED BY <2>2, <3>1, <3>2 DEF Onward, Foreign
  <2>4. ctl'.op \notin {"gone", "outer"} => ctl'.init \in Services \cup {Nobody}
    BY <2>1 DEF Committed, Remembers
  <2>5. Unrestarted' /\ Where' # "create" => ctl'.init \in Services /\ ctl'.repl = Nobody
    BY <2>1 DEF Committed, Remembers
  <2>. QED BY <2>3, <2>4, <2>5 DEF Committed
<1>4. Expecting' BY <1>3 DEF Expecting
<1>. QED BY <1>1, <1>4 DEF Upheld

LEMMA CalmSights ==
    ASSUME IInv, IInv', Sights, Onward, UNCHANGED platform, Harmless,
           ctl'.at \notin Delicate,
           ctl'.op = "outer" => sidecar' # Pending,
           ctl'.op \in {"gone", "outer"} => ctl'.repl = Nobody,
           Proving' => ctl'.ret \notin {"f_tree", "f_term"},
           platform = "linux" => Remembers
    PROVE  Upheld
<1>1. ctl'.at \notin Stopping /\ ctl'.at \notin Aims /\ ctl'.at \notin Passes
  BY DEF Delicate
<1>2. Targets' BY <1>1 DEF Targets, Aims, Stopping, StopsOnLinux, Passes
<1>3. TreeIsOwn' BY <1>1 DEF TreeIsOwn, Stopping, StopsOnLinux
<1>4. GroupIsOwn' BY <1>1 DEF GroupIsOwn, Passes, Aims
<1>. QED BY <1>2, <1>3, <1>4, SightsStep DEF Delicate

\* A step within what was asked for, to a place of no consequence.
LEMMA MoveSights ==
    ASSUME IInv, IInv', Sights, UNCHANGED <<platform, proc, sidecar>>, Harmless,
           ctl'.pid = ctl.pid, ctl'.op = ctl.op, ctl'.loss = ctl.loss,
           ctl'.init = ctl.init, ctl'.repl = ctl.repl,
           ctl'.at \notin Delicate, Proving' => ctl'.ret \notin {"f_tree", "f_term"},
           Unrestarted' => Unrestarted /\ Where # "create"
    PROVE  Upheld
<1>1. Onward BY SameTable DEF Sights
<1>. QED BY <1>1, CalmSights DEF Sights, Expecting, Remembers

\* An exception.
LEMMA RaiseSights ==
    ASSUME IInv, IInv', Sights, Onward, UNCHANGED platform, Harmless,
           ctl.op \notin {"none", "gone"}, sidecar' = sidecar \/ ctl.op # "outer",
           NEW c \in Controllers, ctl' = Raise(c), c.op = ctl.op, c.loss = ctl.loss,
           c.init = ctl.init, c.repl = ctl.repl, c.pid = ctl.pid,
           Where # "create", ctl.op = "outer" => platform = "windows"
    PROVE  Upheld
<1>1. /\ ctl'.pid = c.pid /\ ctl'.init = c.init /\ ctl'.repl = c.repl
      /\ ctl'.at \in {"exiting", "idle", "w_job", "o_fallback"}
      /\ ctl'.op = "outer" => c.op = "outer"
      /\ ctl'.op # "gone" /\ ctl'.op \notin {"create", "loss", "finalize"}
      /\ c.op = "outer" => ctl'.op = "outer"
      /\ ctl'.at = "o_fallback" => c.op = "outer"
      /\ ctl'.op = "none" => \/ ctl'.loss = c.loss /\ c.op \in {"create", "finalize"}
                             \/ ctl'.loss = "failed"
  BY RaiseAlike
<1>2. ctl'.at \notin Aims \cup Stopping \cup Passes \cup {"f_kill", "commit", "adopt", "stat", "w_check"}
      /\ ~Proving'
  BY <1>1 DEF Aims, Stopping, StopsOnLinux, Passes, Proving
<1>3. Unrestarted' => Unrestarted
  BY <1>1 DEF Unrestarted, IInv, Single
<1>4. Targets' /\ TreeIsOwn' /\ GroupIsOwn'
  BY <1>2 DEF Targets, TreeIsOwn, GroupIsOwn, Aims, Stopping, StopsOnLinux, Passes
<1>. QED BY <1>1, <1>2, <1>3, <1>4, SightsStep DEF Sights, Expecting, Remembers

-----------------------------------------------------------------------------
\* Construction, identity proofs and the process-loss scenario.

LEMMA InitSights == Init => Sights
<1>. SUFFICES ASSUME Init PROVE Sights OBVIOUS
<1>1. /\ ctl.at = "create" /\ ctl.op = "create" /\ ctl.obs = Nobody
      /\ ctl.init = Nobody /\ ctl.repl = Nobody
  BY DEF Init, ControlInit
<1>2. /\ harmed = {} /\ proc[Initial].st = "live" /\ proc[Initial].root = Initial
      /\ proc[Initial].parent = Nobody
      /\ \A p \in Procs : p # Initial => proc[p] = NoProcess
  BY Numbers DEF Init, HostInit, NoProcess
<1>3. /\ NoProcess.st = "unborn" /\ NoProcess.parent = Nobody
  BY DEF NoProcess
<1>4. \A p \in Procs : Listed(p) => p = Initial BY <1>2, <1>3 DEF Listed
<1>5. Initial \in Rooted BY <1>2, Numbers DEF Rooted
<1>6. Table
  BY <1>2, <1>3, <1>4, <1>5, Numbers DEF Table, Exists
<1>7. Where = "create" BY <1>1 DEF Where
<1>8. Expecting
  BY <1>1, <1>7 DEF Expecting, Committed, Proving
<1>9. Targets /\ TreeIsOwn /\ GroupIsOwn
  BY <1>1 DEF Targets, TreeIsOwn, GroupIsOwn, Aims, Stopping, StopsOnLinux, Passes, Proving
<1>. QED BY <1>2, <1>6, <1>8, <1>9 DEF Sights, OnlyProvenSignalled, Adopted

\* A step that takes no notice of the machine.
LEMMA QuietStays ==
    ASSUME Sights, UNCHANGED <<platform, proc, harmed>>
    PROVE  Onward /\ Harmless /\ Rooted' = Rooted
BY SameTable, Unharmed DEF Sights

LEMMA CommandFailsSights ==
    ASSUME IInv, IInv', Sights, CommandFails, UNCHANGED after
    PROVE  Upheld
<1>1. /\ ctl.at \in Commands /\ ctl' = Raise(ctl)
      /\ UNCHANGED <<platform, proc, born, harmed, sidecar>>
  BY DEF CommandFails, hostVars
<1>2. ctl.op \notin {"none", "gone"} /\ Where # "create"
  BY <1>1, Basics DEF IInv, Places, Returns, Verified, Where, Commands, Ended
<1>3. ctl.op = "outer" => platform = "windows"
  BY <1>1 DEF IInv, Places, Returns, Verified, Where, Commands, Ended, Outside, StopsExternal
<1>. QED BY <1>1, <1>2, <1>3, Basics, QuietStays, RaiseSights

\* An identity was read: it is expected, and on Linux nobody is expected only
\* while the replacement's is still to be committed.
LEMMA IdentityRead ==
    ASSUME IInv, Sights, VerifyIdentity
    PROVE  /\ Proving /\ ctl'.at = ctl.ret /\ ctl'.ret = ctl.ret /\ ctl'.obs = Holder(ctl.pid)
           /\ ctl'.pid = ctl.pid /\ ctl'.op = ctl.op /\ ctl'.loss = ctl.loss
           /\ ctl'.init = ctl.init /\ ctl'.repl = ctl.repl
           /\ ctl'.known = ctl.known /\ ctl'.todo = ctl.todo
           /\ Holder(ctl.pid) \in Procs /\ Listed(Holder(ctl.pid))
           /\ proc[Holder(ctl.pid)].pid = ctl.pid
           /\ Expected \in {Nobody, Holder(ctl.pid)}
           /\ platform # "linux" => Holder(ctl.pid) \in Services
           /\ platform = "linux" /\ Expected # Nobody => Holder(ctl.pid) \in Services
           /\ born' = {} /\ UNCHANGED <<platform, proc, harmed, sidecar>>
<1>1. /\ Proving /\ ctl' = [ctl EXCEPT !.at = ctl.ret, !.obs = Holder(ctl.pid)]
      /\ Holder(ctl.pid) # Nobody /\ Expected \in {Nobody, Holder(ctl.pid)}
      /\ platform # "linux" => Holder(ctl.pid) \in Services
      /\ born' = {} /\ UNCHANGED <<platform, proc, harmed, sidecar>>
      /\ platform = "linux" => ctl.at = "stat"
  BY DEF VerifyIdentity, Proving, Proved
<1>2. /\ ctl'.at = ctl.ret /\ ctl'.ret = ctl.ret /\ ctl'.obs = Holder(ctl.pid)
      /\ ctl'.pid = ctl.pid /\ ctl'.op = ctl.op /\ ctl'.loss = ctl.loss
      /\ ctl'.init = ctl.init /\ ctl'.repl = ctl.repl
      /\ ctl'.known = ctl.known /\ ctl'.todo = ctl.todo
  BY <1>1, Basics DEF Controllers
<1>3. platform = "linux" => Expected \in Services \cup {Nobody}
  BY <1>1 DEF Sights, Expecting, Committed
<1>. QED BY <1>1, <1>2, <1>3, HolderListed

LEMMA VerifySights ==
    ASSUME IInv, IInv', Sights, VerifyIdentity, UNCHANGED after
    PROVE  Upheld
<1>0. PICK h \in Procs : h = Holder(ctl.pid) BY IdentityRead
<1>1. /\ Proving /\ ctl'.at = ctl.ret /\ ctl'.ret = ctl.ret /\ ctl'.obs = h
      /\ ctl'.pid = ctl.pid /\ ctl'.op = ctl.op /\ ctl'.loss = ctl.loss
      /\ ctl'.init = ctl.init /\ ctl'.repl = ctl.repl
      /\ ctl'.known = ctl.known /\ ctl'.todo = ctl.todo
      /\ h \in Procs /\ Listed(h) /\ proc[h].pid = ctl.pid
      /\ Expected \in {Nobody, h}
      /\ platform # "linux" => h \in Services
      /\ platform = "linux" /\ Expected # Nobody => h \in Services
      /\ born' = {} /\ UNCHANGED <<platform, proc, harmed, sidecar>>
  BY <1>0, IdentityRead
<1>2. ctl.ret \in Verified BY <1>1 DEF IInv, Places, Returns, Proving
<1>3. Onward /\ Harmless /\ Rooted' = Rooted BY <1>1, QuietStays
<1>4. h \in Services => h \in Rooted
  BY <1>1 DEF Sights, Table, Listed, Exists
<1>5. h \in Rooted => Clear(ctl.pid)' BY <1>1, ProofClears DEF Sights
<1>6. Where = ctl.ret /\ Where' = ctl.ret BY <1>1, <1>2 DEF Where, Proving, Verified
<1>7. Unrestarted' <=> Unrestarted BY <1>1, <1>6 DEF Unrestarted
<1>8. ctl.ret = "kill" => h \in Services
  <2>1. CASE platform = "linux"
    <3>1. ctl.ret = "kill" => Unrestarted
      BY <1>6 DEF Unrestarted, StopsPredecessor, IInv, Places, TypeOK, ControlTypeOK, Controllers,
              StopsOnLinux, StopsOnMac, StopsJob, Ended, Outside, StopsExternal
    <3>2. ctl.ret = "kill" => Expected # Nobody
      BY <2>1, <3>1, <1>6, Numbers DEF Expected, Sights, Expecting, Committed
    <3>. QED BY <1>1, <2>1, <3>2
  <2>. QED BY <1>1, <2>1
<1>9. ctl.ret \in {"f_tree", "f_term"} => ctl.repl = h /\ h \in Services /\ POSIX
  <2>1. ctl.ret \in {"f_tree", "f_term"} => ctl.repl # Nobody
    BY <1>1 DEF Sights, Expecting
  <2>2. ctl.ret \in {"f_tree", "f_term"} => platform = "linux"
    BY <1>6, Basics DEF IInv, Places, StopsPredecessor, StopsExternal, Restarts, Owns, StopsJob, StopsOnMac,
           Ended, Outside
  <2>. QED BY <1>1, <2>1, <2>2 DEF Expected, POSIX
<1>10. Targets'
  <2>1. ctl'.at \in Aims => Clear(ctl.pid)'
    BY <1>1, <1>2, <1>4, <1>5, <1>8 DEF Aims, Verified
  <2>2. ctl'.at \in {"f_term", "f_group"} => ClearGroup(proc[ctl.repl].group)'
    BY <1>1, <1>2, <1>4, <1>9, ProofClears DEF Verified, Sights
  <2>3. ctl'.at \notin {"f_kill", "m_kill"} BY <1>1, <1>2 DEF Verified
  <2>. QED BY <1>1, <2>1, <2>2, <2>3 DEF Targets
<1>11. TreeIsOwn'
  BY <1>1, <1>2, <1>3, <1>9 DEF Sights, TreeIsOwn, Verified, Stopping, StopsOnLinux, Proving
<1>12. GroupIsOwn'
  BY <1>1, <1>2 DEF GroupIsOwn, Verified, Passes
<1>13. Expecting'
  <2>1. ctl'.at = "w_check" => ctl'.obs \in Services
    <3>1. ctl'.at = "w_check" => platform = "windows"
      BY <1>1, <1>6 DEF IInv, Places, StopsExternal
    <3>. QED BY <1>1, <3>1
  <2>2. ASSUME platform = "linux" PROVE Committed'
    <3>1. Committed BY <2>2 DEF Sights, Expecting
    <3>2. ctl.ret = "commit" => Exists(Replacement) BY <1>1 DEF IInv, Recorded, Proving
    <3>3. \A s \in Services : Listed(s) /\ proc[s].pid = ctl.pid => s = h
      BY <1>1, Numbers DEF Sights, Table
    <3>4. Foreign(h)' BY <1>1, <3>3, Numbers DEF Foreign, Listed
    <3>5. ctl'.at = "commit" => Exists(Replacement)' /\ ctl'.obs \in Procs /\ h = ctl'.obs
      BY <1>1, <3>2 DEF Exists
    <3>6. ctl'.repl # Nobody => Exists(Replacement)' /\ Foreign(ctl.repl)'
      BY <1>1, <3>1 DEF Committed, Foreign, Exists, Listed
    <3>7. ctl'.at = "adopt" => ctl'.obs \in Services
      <4>1. ctl.ret = "adopt" => Unrestarted
        BY <1>6 DEF Unrestarted, StopsPredecessor, IInv, Places, Single, TypeOK, ControlTypeOK,
                Controllers, StopsOnLinux, StopsOnMac, StopsJob, Ended, Outside, StopsExternal, Restarts, Owns
      <4>2. ctl.ret = "adopt" => Expected # Nobody
        BY <4>1, <1>6, <3>1, Numbers DEF Expected, Committed
      <4>. QED BY <1>1, <2>2, <4>2
    <3>8. ctl'.at # "stat" BY <1>1, <1>2 DEF Verified
    <3>. QED BY <1>1, <1>6, <1>7, <3>1, <3>4, <3>5, <3>6, <3>7, <3>8 DEF Committed
  <2>3. ~Proving' BY <1>1, <1>2 DEF Proving, Verified
  <2>4. ctl'.at # "o_fallback" BY <1>1, <1>2 DEF Verified
  <2>. QED BY <1>1, <2>1, <2>2, <2>3, <2>4 DEF Expecting, Sights
<1>. QED BY <1>3, <1>10, <1>11, <1>12, <1>13 DEF Upheld, Sights, Onward

\* On Linux the cleanup asks for no identity in this way.
LEMMA ProvingOnLinux ==
    ASSUME IInv, Proving, platform = "linux"
    PROVE  ctl.op \notin {"gone", "outer"}
BY DEF IInv, Places, Returns, Verified, Where, Proving, Ended, Outside, StopsExternal

LEMMA ExecutableSights ==
    ASSUME IInv, IInv', Sights, VerifyExecutable, UNCHANGED after
    PROVE  Upheld
<1>1. /\ platform = "linux" /\ ctl.at = "verify" /\ ctl' = Goto("stat")
      /\ Holder(ctl.pid) \in Services /\ Live(Holder(ctl.pid))
      /\ UNCHANGED <<platform, proc, born, harmed, sidecar>>
  BY DEF VerifyExecutable, hostVars
<1>2. Alike(ctl, ctl') /\ ctl'.at = "stat" /\ ctl'.ret = ctl.ret
  BY <1>1, Basics, LabelsKnown, GotoAlike DEF Goto
<1>3. Onward /\ Harmless /\ Rooted' = Rooted BY <1>1, QuietStays
<1>. USE DEF Sights, Alike
<1>4. Targets' /\ GroupIsOwn'
  BY <1>2 DEF Targets, GroupIsOwn, Aims, Passes
<1>5. TreeIsOwn'
  BY <1>1, <1>2, <1>3 DEF TreeIsOwn, Stopping, StopsOnLinux, Proving
<1>6. Where' = Where BY <1>1, <1>2 DEF Where
<1>7. Committed'
  <2>1. Committed /\ ctl.op \notin {"gone", "outer"}
    BY <1>1, ProvingOnLinux DEF Expecting, Proving
  <2>2. Expected \in Services \cup {Nobody}
    <3>1. ctl.repl # Nobody => ctl.repl \in Services
      <4>1. /\ Listed(Holder(ctl.pid)) /\ proc[Holder(ctl.pid)].pid = ctl.pid
        BY <1>1, HolderListed, Numbers
      <4>. QED BY <1>1, <2>1, <4>1 DEF Committed, Foreign
    <3>. QED BY <2>1, <3>1 DEF Expected, Committed
  <2>3. Expected' = Expected BY <1>2 DEF Expected
  <2>4. Unrestarted' <=> Unrestarted BY <1>2, <1>6 DEF Unrestarted
  <2>5. ctl.repl # Nobody => Exists(Replacement)' /\ Foreign(ctl.repl)'
    BY <1>1, <1>2, <2>1 DEF Committed, Foreign, Exists, Listed
  <2>. QED BY <1>2, <1>6, <2>1, <2>2, <2>3, <2>4, <2>5 DEF Committed
<1>8. Expecting'
  BY <1>1, <1>2, <1>7 DEF Expecting, Proving
<1>. QED BY <1>3, <1>4, <1>5, <1>7, <1>8 DEF Upheld, Onward

\* The controller is constructed over the sidecar; on Linux the service it
\* names is the one expected.
LEMMA ConstructionSights ==
    ASSUME IInv, IInv', Sights, UNCHANGED <<platform, proc, harmed>>,
           ctl'.at \in {"verify", "idle"}, ctl'.at = "verify" => ctl'.ret = "adopt",
           ctl'.op \in {"create", "none"}, ctl'.repl = Nobody,
           platform = "linux" => ctl'.init \in Services
    PROVE  Upheld
<1>1. Onward /\ Harmless BY QuietStays
<1>2. Targets' /\ TreeIsOwn' /\ GroupIsOwn'
  BY DEF Targets, TreeIsOwn, GroupIsOwn, Aims, Passes, Stopping, StopsOnLinux, Proving
<1>3. Expecting'
  BY DEF Expecting, Committed, Proving
<1>. QED BY <1>1, <1>2, <1>3 DEF Upheld, Sights, Onward

\* Before the controller exists, and while it is constructed, nothing is committed.
LEMMA Constructing ==
    ASSUME IInv, Sights, ctl.at \in {"create", "adopt"}
    PROVE  /\ ctl.op = "create" /\ ctl.loss = "none" /\ ~Exists(Replacement)
           /\ platform = "linux" => ctl.repl = Nobody
<1>1. ctl.op = "create"
  BY Basics DEF IInv, Places, Where, StopsPredecessor, StopsExternal, Restarts, Owns, StopsJob,
                StopsOnLinux, StopsOnMac, Ended, Outside
<1>. QED BY <1>1 DEF IInv, Single, Unrestarted, Sights, Expecting, Committed

LEMMA CreateSights ==
    ASSUME IInv, IInv', Sights, Create, UNCHANGED after
    PROVE  Upheld
<1>. DEFINE a == Verify(ctl, "adopt")
            i == IF platform = "macos" THEN Nobody ELSE sidecar
<1>1. /\ ctl.at = "create" /\ sidecar \in Services /\ ctl' = [a EXCEPT !.init = i]
      /\ UNCHANGED <<platform, proc, harmed>>
  BY DEF Create
<1>2. Same(ctl, a) /\ Alike(ctl, a) /\ a.at = "verify" /\ a.ret = "adopt"
  BY Basics, LabelsKnown, VerifyChanges, VerifyAlike
<1>3. a \in Controllers BY <1>2 DEF Same
<1>. HIDE DEF a
<1>4. /\ ctl'.at = "verify" /\ ctl'.ret = "adopt" /\ ctl'.init = i
      /\ ctl'.op = ctl.op /\ ctl'.repl = ctl.repl
  BY <1>1, <1>2, <1>3 DEF Alike, Controllers
<1>5. ctl.op = "create" /\ (platform = "linux" => ctl.repl = Nobody)
  BY <1>1, Constructing
<1>6. CASE platform = "linux" BY <1>1, <1>4, <1>5, <1>6, ConstructionSights
<1>7. CASE platform # "linux"
  <2>1. Onward /\ Harmless BY <1>1, QuietStays
  <2>2. ctl'.at \notin Delicate BY <1>4 DEF Delicate, Aims, Stopping, StopsOnLinux, Passes
  <2>. QED BY <1>1, <1>4, <1>5, <1>7, <2>1, <2>2, CalmSights
<1>. QED BY <1>6, <1>7

LEMMA AdoptSights ==
    ASSUME IInv, IInv', Sights, Adopt, UNCHANGED after
    PROVE  Upheld
<1>. DEFINE a == [ctl EXCEPT !.init = ctl.obs]
            c == Idle(a)
<1>1. /\ ctl.at = "adopt"
      /\ UNCHANGED <<platform, proc, harmed>>
      /\ ctl' = c \/ (ctl' = Raise(ctl) /\ UNCHANGED sidecar)
  BY DEF Adopt
<1>2. a \in Controllers /\ a.init = ctl.obs /\ a.repl = ctl.repl
  BY Basics DEF Controllers
<1>. HIDE DEF a
<1>3. c.at = "idle" /\ c.op = "none" /\ c.init = ctl.obs /\ c.repl = ctl.repl
  BY <1>2, IdleAlike
<1>. HIDE DEF c
<1>4. /\ ctl.op = "create" /\ (platform = "linux" => ctl.repl = Nobody)
      /\ platform = "linux" => ctl.obs \in Services
  BY <1>1, Constructing DEF Sights, Expecting, Committed
<1>5. Onward /\ Harmless BY <1>1, QuietStays
<1>6. CASE ctl' = Raise(ctl) /\ UNCHANGED sidecar
  <2>1. Where # "create" BY <1>1 DEF Where
  <2>. QED BY <1>1, <1>4, <1>5, <1>6, <2>1, Basics, RaiseSights
<1>7. CASE ctl' = c /\ platform = "linux"
  BY <1>1, <1>3, <1>4, <1>7, ConstructionSights
<1>8. CASE ctl' = c /\ platform # "linux"
  <2>1. ctl'.at \notin Delicate /\ ~Proving'
    BY <1>3, <1>8 DEF Delicate, Aims, Stopping, StopsOnLinux, Passes, Proving
  <2>. QED BY <1>1, <1>3, <1>5, <1>8, <2>1, CalmSights
<1>. QED BY <1>1, <1>6, <1>7, <1>8

LEMMA LossBeginsSights ==
    ASSUME IInv, IInv', Sights, LossBegins, UNCHANGED after
    PROVE  Upheld
<1>. DEFINE l == IF platform = "linux" THEN "again" ELSE "terminate"
            a == Verify(ctl, l)
<1>1. /\ ctl.at = "idle" /\ ctl.loss = "none" /\ ctl' = [a EXCEPT !.op = "loss"]
      /\ UNCHANGED <<platform, proc, harmed, sidecar>>
  BY DEF LossBegins, hostVars
<1>2. l \in Labels /\ l \in {"again", "terminate"} BY LabelsKnown DEF StopsPredecessor
<1>. HIDE DEF l
<1>3. Same(ctl, a) /\ Alike(ctl, a) /\ a.at = "verify" /\ a.ret = l
  BY <1>2, Basics, VerifyChanges, VerifyAlike
<1>4. a \in Controllers BY <1>3 DEF Same
<1>. HIDE DEF a
<1>5. /\ ctl'.at = "verify" /\ ctl'.ret = l /\ ctl'.op = "loss"
      /\ ctl'.pid = ctl.pid /\ ctl'.init = ctl.init /\ ctl'.repl = ctl.repl
  BY <1>1, <1>3, <1>4 DEF Alike, Controllers
<1>6. ctl.op = "none" /\ Where = "idle"
  BY <1>1, Basics DEF IInv, Places, Where, StopsPredecessor, StopsExternal, Restarts, Owns,
                      StopsJob, StopsOnLinux, StopsOnMac, Ended, Outside
<1>7. Unrestarted BY <1>1, <1>6 DEF Unrestarted
<1>8. Onward /\ Harmless BY <1>1, QuietStays
<1>9. ctl'.at \notin Delicate BY <1>5 DEF Delicate, Aims, Stopping, StopsOnLinux, Passes
<1>. QED BY <1>1, <1>2, <1>5, <1>6, <1>7, <1>8, <1>9, CalmSights DEF Remembers

\* Steps of the scenario that only move the controller.
LEMMA ScenarioSights ==
    ASSUME IInv, IInv', Sights, UNCHANGED after,
           VerifyAgain \/ KillPredecessor \/ WaitDead \/ WritePid \/ Ready
    PROVE  Upheld
<1>1. /\ ctl.at \in {"again", "kill", "wait", "pid", "ready"}
      /\ UNCHANGED <<platform, proc, sidecar>>
      /\ \/ ctl' \in {Goto("wait"), Goto("start"), Goto("ready")}
         \/ ctl' \in {Verify(ctl, "kill"), Verify(ctl, "restarted")}
  BY DEF VerifyAgain, KillPredecessor, WaitDead, WritePid, Ready, hostVars
<1>2. Harmless
  <2>1. CASE KillPredecessor
    BY <2>1, ListingHarmless DEF KillPredecessor, Sights, Targets, Aims
  <2>2. CASE UNCHANGED harmed BY <2>2, <1>1, QuietStays
  <2>. QED BY <2>1, <2>2 DEF VerifyAgain, WaitDead, WritePid, Ready, hostVars
<1>3. ctl.op = "loss" BY <1>1, LossGoesOn
<1>4. {"wait", "start", "ready", "kill", "restarted"} \subseteq Labels
  BY LabelsKnown DEF StopsPredecessor, Restarts
<1>5. /\ Alike(ctl, ctl')
      /\ \/ ctl'.at \in {"wait", "start", "ready"}
         \/ ctl'.at = "verify" /\ ctl'.ret \in {"kill", "restarted"}
  BY <1>1, <1>4, Basics, GotoAlike, VerifyAlike DEF Goto
<1>6. ctl'.at \notin Delicate /\ (Proving' => ctl'.ret \notin {"f_tree", "f_term"})
  BY <1>5 DEF Delicate, Aims, Stopping, StopsOnLinux, Passes, Proving
<1>7. Unrestarted' => Unrestarted /\ Where # "create"
  <2>1. CASE ctl.at \in {"pid", "ready"}
    <3>1. Where' \in {"ready", "restarted"}
      <4>1. ctl'.at = "ready" \/ (ctl'.at = "verify" /\ ctl'.ret = "restarted")
        <5>1. ctl' = Goto("ready") \/ ctl' = Verify(ctl, "restarted")
          BY <2>1 DEF VerifyAgain, KillPredecessor, WaitDead, WritePid, Ready
        <5>. QED BY <5>1, <1>4, Basics, GotoAlike, VerifyAlike DEF Goto
      <4>. QED BY <4>1 DEF Where
    <3>. QED BY <1>3, <1>5, <3>1 DEF Alike, Unrestarted, StopsPredecessor, StopsExternal
  <2>2. CASE ctl.at \in {"again", "kill", "wait"}
    BY <1>3, <2>2 DEF Unrestarted, Where, StopsPredecessor
  <2>. QED BY <1>1, <2>1, <2>2
<1>. QED BY <1>1, <1>2, <1>5, <1>6, <1>7, MoveSights DEF Alike

LEMMA StartBeginsSights ==
    ASSUME IInv, IInv', Sights, StartBegins, UNCHANGED after
    PROVE  Upheld
<1>. DEFINE a == [ctl EXCEPT !.restarts = @ + 1, !.proven = FALSE]
<1>1. /\ ctl.at = "start" /\ UNCHANGED <<platform, proc, harmed>>
      /\ \/ ctl' = [a EXCEPT !.at = "launch"]
         \/ UNCHANGED sidecar /\ ctl' = Raise(a)
  BY DEF StartBegins, Persist
<1>2. ctl.op = "loss" /\ Unrestarted
  BY <1>1, LossGoesOn DEF Unrestarted, Where, StopsPredecessor
<1>3. ctl.restarts = 0 BY <1>2 DEF IInv, Single
<1>4. /\ a \in Controllers /\ a.op = ctl.op /\ a.loss = ctl.loss /\ a.pid = ctl.pid
      /\ a.init = ctl.init /\ a.repl = ctl.repl
  <2>. DEFINE b == [ctl EXCEPT !.restarts = ctl.restarts + 1]
  <2>1. /\ b \in Controllers /\ b.op = ctl.op /\ b.loss = ctl.loss /\ b.pid = ctl.pid
        /\ b.init = ctl.init /\ b.repl = ctl.repl
    BY <1>3, Basics DEF Controllers
  <2>2. a = [b EXCEPT !.proven = FALSE] OBVIOUS
  <2>. HIDE DEF a, b
  <2>. QED BY <2>1, <2>2 DEF Controllers
<1>. HIDE DEF a
<1>5. Onward /\ Harmless BY <1>1, QuietStays
<1>6. CASE UNCHANGED sidecar /\ ctl' = Raise(a)
  <2>1. Where # "create" BY <1>1 DEF Where
  <2>. QED BY <1>1, <1>2, <1>4, <1>5, <1>6, <2>1, RaiseSights
<1>7. CASE ctl' = [a EXCEPT !.at = "launch"]
  <2>1. Alike(a, ctl') /\ ctl'.at = "launch"
    BY <1>4, <1>7, LabelsKnown, GotoAlike DEF Restarts
  <2>2. ctl'.at \notin Delicate /\ ~Proving' /\ ~Unrestarted'
    BY <1>2, <1>4, <2>1
       DEF Alike, Delicate, Aims, Stopping, StopsOnLinux, Passes, Proving, Unrestarted, Where,
           StopsPredecessor, StopsExternal
  <2>. QED BY <1>1, <1>2, <1>4, <1>5, <2>1, <2>2, CalmSights DEF Alike, Remembers
<1>. QED BY <1>1, <1>6, <1>7

\* What a launch leaves in the controller.
LEMMA LaunchedAlike ==
    ASSUME NEW c \in Controllers, c = ctl, NEW n \in Nat, NEW d, d = Launched(n)
    PROVE  /\ d.at = "verify" /\ d.ret = "commit" /\ d.pid = n /\ d.op = c.op
           /\ d.init = Nobody /\ d.repl = Nobody
<1>. DEFINE a == [c EXCEPT !.pid = n, !.init = Nobody, !.repl = Nobody]
<1>1. /\ a \in Controllers /\ a.pid = n /\ a.op = c.op /\ a.init = Nobody /\ a.repl = Nobody
  BY DEF Controllers
<1>2. d = Verify(a, "commit") BY DEF Launched
<1>. HIDE DEF a
<1>3. Alike(a, d) /\ d.at = "verify" /\ d.ret = "commit"
  BY <1>1, <1>2, LabelsKnown, VerifyAlike DEF Restarts
<1>. QED BY <1>1, <1>3 DEF Alike

LEMMA LaunchedSights ==
    ASSUME IInv, IInv', Sights, Onward, UNCHANGED platform, Harmless, ctl.op = "loss",
           NEW n \in Nat, ctl' = Launched(n)
    PROVE  Upheld
<1>1. /\ ctl'.at = "verify" /\ ctl'.ret = "commit" /\ ctl'.op = "loss"
      /\ ctl'.init = Nobody /\ ctl'.repl = Nobody
  BY Basics, LaunchedAlike
<1>2. ctl'.at \notin Delicate /\ ~Unrestarted'
  BY <1>1 DEF Delicate, Aims, Stopping, StopsOnLinux, Passes, Unrestarted, Where,
              StopsPredecessor, StopsExternal
<1>. QED BY <1>1, <1>2, CalmSights DEF Remembers

\* The replacement is born under a number that is free, in a group that is free.
LEMMA ReplacementJoins ==
    ASSUME IInv, Sights, UNCHANGED platform, ctl.at = "launch",
           NEW n \in {Initial, Replacement}, Free(n), NEW g \in Nat,
           POSIX => g = n \/ (g = LauncherGroup /\ Free(LauncherGroup)),
           NEW s \in {"live", "suspended"},
           proc' = [proc EXCEPT ![Replacement] = Newborn(s, n, g, FALSE)]
    PROVE  Onward
<1>. DEFINE r == Newborn(s, n, g, FALSE)
<1>1. /\ r.st = s /\ r.pid = n /\ r.group = g /\ r.parent = Nobody /\ r.root = Replacement
  BY DEF Newborn
<1>2. /\ proc \in [Procs -> Processes] /\ Replacement \in Procs /\ ~Exists(Replacement)
  BY Numbers DEF IInv, TypeOK, HostTypeOK, Single, Where
<1>3. POSIX => \A q \in Procs : Listed(q) => proc[q].group # g
  BY DEF Free
<1>. HIDE DEF r
<1>4. proc' = [proc EXCEPT ![Replacement] = r] BY DEF r
<1>5. Replacement # Nobody BY Numbers
<1>6. r.st \in {"live", "suspended"} /\ Free(r.pid) /\ r.root # Nobody BY <1>1, <1>5
<1>7. POSIX => \A q \in Procs : Listed(q) /\ proc[q].group = r.group =>
                  (q \in Rooted <=> r.root # Nobody)
  BY <1>1, <1>3
<1>. HIDE DEF Sights
<1>8. Table BY DEF Sights
<1>. QED BY <1>2, <1>4, <1>6, <1>7, <1>8, BirthTable

LEMMA LaunchSights ==
    ASSUME IInv, IInv', Sights, LaunchDetached, UNCHANGED after
    PROVE  Upheld
<1>0. PICK n \in {Initial, Replacement} :
         /\ Free(n)
         /\ proc' = [proc EXCEPT ![Replacement] =
                       Newborn("live", n,
                               IF platform = "linux" THEN LauncherGroup ELSE n, FALSE)]
         /\ ctl' \in {Launched(n), Raise(ctl)}
  BY DEF LaunchDetached
<1>. DEFINE g == IF platform = "linux" THEN LauncherGroup ELSE n
<1>1. /\ Free(n) /\ ctl' \in {Launched(n), Raise(ctl)}
      /\ proc' = [proc EXCEPT ![Replacement] = Newborn("live", n, g, FALSE)]
  BY <1>0
<1>2. /\ platform = "linux" => Free(LauncherGroup)
      /\ UNCHANGED <<platform, harmed, sidecar>>
  BY DEF LaunchDetached
<1>3. g \in Nat /\ n \in Nat /\ (g = n \/ (g = LauncherGroup /\ Free(LauncherGroup)))
  BY <1>2, Numbers DEF LauncherGroup
<1>. HIDE DEF g
<1>4. ctl.at = "launch" BY DEF LaunchDetached
<1>5. Onward BY <1>1, <1>2, <1>3, <1>4, ReplacementJoins
<1>6. Harmless /\ ctl.op = "loss" /\ Where # "create"
  BY <1>2, <1>4, LossGoesOn, Unharmed DEF Sights, Where
<1>7. CASE ctl' = Launched(n) BY <1>2, <1>3, <1>5, <1>6, <1>7, LaunchedSights
<1>8. CASE ctl' = Raise(ctl) BY <1>2, <1>5, <1>6, <1>8, Basics, RaiseSights
<1>. QED BY <1>1, <1>7, <1>8

LEMMA CommitSights ==
    ASSUME IInv, IInv', Sights, Commit, UNCHANGED after
    PROVE  Upheld
<1>. DEFINE a == [ctl EXCEPT !.repl = ctl.obs]
<1>1. /\ ctl.at = "commit" /\ UNCHANGED <<platform, proc, harmed>>
      /\ \/ ctl' = [a EXCEPT !.at = "pid"]
         \/ UNCHANGED sidecar /\ ctl' = Raise(a)
  BY DEF Commit, Persist
<1>2. ctl.op = "loss" BY <1>1, LossGoesOn
<1>3. /\ a \in Controllers /\ a.op = ctl.op /\ a.loss = ctl.loss /\ a.pid = ctl.pid
      /\ a.init = ctl.init /\ a.repl = ctl.obs
  BY Basics DEF Controllers
<1>. HIDE DEF a
<1>4. /\ ctl'.at \in {"pid", "exiting", "idle", "w_job"}
      /\ ctl'.pid = ctl.pid /\ ctl'.init = ctl.init /\ ctl'.repl = ctl.obs
      /\ ctl'.op \notin {"gone", "outer", "create"} /\ (ctl'.op = "none" => ctl'.loss = "failed")
  <2>1. CASE ctl' = [a EXCEPT !.at = "pid"]
    <3>1. Alike(a, ctl') /\ ctl'.at = "pid"
      BY <1>3, <2>1, LabelsKnown, GotoAlike DEF Restarts
    <3>. QED BY <1>2, <1>3, <3>1 DEF Alike
  <2>2. CASE ctl' = Raise(a) BY <1>2, <1>3, <2>2, RaiseAlike
  <2>. QED BY <1>1, <2>1, <2>2
<1>5. Onward /\ Harmless BY <1>1, QuietStays
<1>6. ~Proving' /\ Where' = ctl'.at BY <1>4 DEF Proving, Where
<1>7. ~Unrestarted'
  BY <1>4, <1>6 DEF Unrestarted, StopsPredecessor, StopsExternal
<1>8. Targets' /\ TreeIsOwn' /\ GroupIsOwn'
  BY <1>4, <1>6 DEF Targets, TreeIsOwn, GroupIsOwn, Aims, Passes, Stopping, StopsOnLinux
<1>9. ASSUME platform = "linux" PROVE Committed'
  <2>1. Committed BY <1>9 DEF Sights, Expecting
  <2>2. Exists(Replacement) /\ Foreign(ctl.obs) BY <1>1, <2>1 DEF Committed
  <2>3. Exists(Replacement)' /\ Foreign(ctl.repl)'
    BY <1>1, <1>4, <2>2 DEF Foreign, Exists, Listed
  <2>4. ctl'.init \in Services \cup {Nobody} BY <1>2, <1>4, <2>1 DEF Committed
  <2>. QED BY <1>4, <1>7, <2>3, <2>4 DEF Committed
<1>10. Expecting' BY <1>1, <1>4, <1>6, <1>9 DEF Expecting
<1>. QED BY <1>5, <1>8, <1>10 DEF Upheld, Sights, Onward

\* The controller comes to rest.
LEMMA RestSights ==
    ASSUME IInv, IInv', Sights, UNCHANGED <<platform, proc, sidecar>>, Harmless,
           ctl'.at \in {"idle", "exiting"}, ctl'.op = "none",
           ctl'.pid = ctl.pid, ctl'.init = ctl.init, ctl'.repl = ctl.repl,
           ctl.op \notin {"gone", "outer"},
           ctl'.loss = "none" => Unrestarted /\ Where # "create"
    PROVE  Upheld
<1>1. Onward BY SameTable DEF Sights
<1>2. ctl'.at \notin Delicate /\ ~Proving'
  BY DEF Delicate, Aims, Stopping, StopsOnLinux, Passes, Proving
<1>3. Unrestarted' => Unrestarted /\ Where # "create" BY DEF Unrestarted
<1>. QED BY <1>1, <1>2, <1>3, CalmSights DEF Remembers

LEMMA RestartedSights ==
    ASSUME IInv, IInv', Sights, Restarted, UNCHANGED after
    PROVE  Upheld
<1>. DEFINE i == Idle(ctl)
<1>1. /\ ctl.at = "restarted" /\ ctl' = [i EXCEPT !.loss = "ok"]
      /\ UNCHANGED <<platform, proc, sidecar, harmed>>
  BY DEF Restarted, hostVars
<1>2. /\ i \in Controllers /\ i.pid = ctl.pid /\ i.init = ctl.init /\ i.repl = ctl.repl
      /\ i.at = "idle" /\ i.op = "none"
  BY Basics, IdleKeeps, IdleAlike
<1>. HIDE DEF i
<1>3. /\ ctl'.pid = ctl.pid /\ ctl'.init = ctl.init /\ ctl'.repl = ctl.repl
      /\ ctl'.at = "idle" /\ ctl'.op = "none" /\ ctl'.loss = "ok"
  BY <1>1, <1>2 DEF Controllers
<1>4. ctl.op = "loss" BY <1>1, LossGoesOn
<1>5. Harmless BY <1>1, QuietStays
<1>. QED BY <1>1, <1>3, <1>4, <1>5, RestSights

LEMMA FinalizeBeginsSights ==
    ASSUME IInv, IInv', Sights, FinalizeBegins, UNCHANGED after
    PROVE  Upheld
<1>1. ctl.at = "idle" /\ UNCHANGED <<platform, proc, sidecar, harmed>>
  BY DEF FinalizeBegins, hostVars
<1>2. ctl.op = "none" /\ Where = "idle"
  BY <1>1, Basics DEF IInv, Places, Where, StopsPredecessor, StopsExternal, Restarts, Owns,
                      StopsJob, StopsOnLinux, StopsOnMac, Ended, Outside
<1>3. Harmless BY <1>1, QuietStays
<1>4. ctl.loss = "none" => Unrestarted BY <1>2 DEF Unrestarted
<1>5. CASE ctl' = [Idle(ctl) EXCEPT !.at = "exiting", !.fin = "failed"] \/ ctl' = Cleaned(ctl)
  <2>1. /\ ctl'.pid = ctl.pid /\ ctl'.init = ctl.init /\ ctl'.repl = ctl.repl
        /\ ctl'.loss = ctl.loss /\ ctl'.at = "exiting" /\ ctl'.op = "none"
    <3>1. CASE ctl' = Cleaned(ctl) BY <3>1, Basics, CleanedAlike
    <3>2. CASE ctl' = [Idle(ctl) EXCEPT !.at = "exiting", !.fin = "failed"]
      <4>. DEFINE i == Idle(ctl)
      <4>1. /\ i \in Controllers /\ i.pid = ctl.pid /\ i.init = ctl.init /\ i.repl = ctl.repl
            /\ i.loss = ctl.loss /\ i.op = "none"
        BY Basics, IdleKeeps, IdleAlike
      <4>. HIDE DEF i
      <4>2. ctl' = [i EXCEPT !.at = "exiting", !.fin = "failed"] BY <3>2 DEF i
      <4>. QED BY <4>1, <4>2 DEF Controllers
    <3>. QED BY <1>5, <3>1, <3>2
  <2>. QED BY <1>1, <1>2, <1>3, <1>4, <2>1, RestSights
<1>6. CASE /\ ctl.restarts > 0
           /\ ctl' = [ctl EXCEPT !.op = "finalize",
                                 !.at = CASE platform = "linux" -> "f_alive"
                                          [] platform = "macos" -> "b_alive"
                                          [] platform = "windows" -> "w_finalize"]
  <2>. DEFINE l == CASE platform = "linux" -> "f_alive"
                     [] platform = "macos" -> "b_alive"
                     [] platform = "windows" -> "w_finalize"
  <2>1. l \in {"f_alive", "b_alive", "w_finalize"} BY Basics
  <2>2. ctl' = [ctl EXCEPT !.op = "finalize", !.at = l] BY <1>6
  <2>. HIDE DEF l
  <2>3. /\ ctl'.at = l /\ ctl'.op = "finalize" /\ ctl'.pid = ctl.pid
        /\ ctl'.init = ctl.init /\ ctl'.repl = ctl.repl
    BY <2>2, Basics DEF Controllers
  <2>4. ctl'.at \notin Delicate /\ ~Proving' /\ ~Unrestarted'
    BY <2>1, <2>3 DEF Delicate, Aims, Stopping, StopsOnLinux, Passes, Proving, Unrestarted
  <2>5. Onward BY <1>1, QuietStays
  <2>. QED BY <1>1, <1>2, <1>3, <2>3, <2>4, <2>5, CalmSights DEF Remembers
<1>. QED BY <1>5, <1>6 DEF FinalizeBegins

LEMMA BaseFinalizeSights ==
    ASSUME IInv, IInv', Sights, BaseFinalize, UNCHANGED after
    PROVE  Upheld
<1>1. /\ ctl.at = "b_alive" /\ UNCHANGED <<platform, proc, sidecar, harmed>>
      /\ ctl' = Verify(ctl, "terminate") \/ ctl' = Goto("terminate")
  BY DEF BaseFinalize, hostVars
<1>2. ctl.op = "finalize"
  BY <1>1, Basics DEF IInv, Places, Where, StopsPredecessor, StopsExternal, Restarts, Owns,
                      StopsJob, StopsOnLinux, StopsOnMac, Ended, Outside
<1>3. "terminate" \in Labels BY LabelsKnown DEF StopsOnMac
<1>4. /\ Alike(ctl, ctl')
      /\ ctl'.at = "terminate" \/ (ctl'.at = "verify" /\ ctl'.ret = "terminate")
  BY <1>1, <1>3, Basics, VerifyAlike, GotoAlike DEF Goto
<1>5. /\ ctl'.at \notin Delicate /\ (Proving' => ctl'.ret \notin {"f_tree", "f_term"})
      /\ ~Unrestarted'
  BY <1>2, <1>4 DEF Alike, Delicate, Aims, Stopping, StopsOnLinux, Passes, Proving, Unrestarted
<1>6. Harmless BY <1>1, QuietStays
<1>. QED BY <1>1, <1>4, <1>5, <1>6, MoveSights DEF Alike

\* Closing the last handle of the job only ends processes.
LEMMA ClosedOnward ==
    ASSUME Sights, UNCHANGED platform, proc' = Closed(proc)
    PROVE  Onward
<1>1. Table BY DEF Sights
<1>2. \A p \in Procs : proc'[p] = IF proc[p].job THEN [proc[p] EXCEPT !.st = "gone"] ELSE proc[p]
  BY DEF Closed
<1>3. \A p \in Procs : ~Exists(p) => proc'[p] = proc[p]
  <2>1. \A p \in Procs : ~Exists(p) => proc[p] = NoProcess BY <1>1 DEF Table
  <2>2. ~NoProcess.job BY DEF NoProcess
  <2>. QED BY <1>2, <2>1, <2>2
<1>4. ASSUME NEW p \in Procs, Exists(p)
      PROVE  /\ proc'[p].pid = proc[p].pid /\ proc'[p].group = proc[p].group
             /\ proc'[p].root = proc[p].root /\ proc'[p].parent = proc[p].parent
             /\ Exists(p)' /\ (Listed(p)' => Listed(p))
  <2>1. CASE proc'[p] = proc[p] BY <2>1, <1>4 DEF Exists, Listed
  <2>2. CASE proc'[p] = [proc[p] EXCEPT !.st = "gone"]
    <3>1. proc'[p].st \in {"gone", proc[p].st} BY <2>2
    <3>. QED BY <1>4, <2>2, <3>1 DEF Exists, Listed
  <2>. QED BY <1>2, <2>1, <2>2
<1>. QED BY <1>1, <1>3, <1>4, ThinTable DEF Exists, Listed

LEMMA LaneEndsSights ==
    ASSUME IInv, IInv', Sights, LaneEnds, UNCHANGED after
    PROVE  Upheld
<1>. DEFINE i == Idle(ctl)
            a == [i EXCEPT !.at = "o_read", !.op = "gone"]
<1>1. /\ proc' = Closed(proc) /\ UNCHANGED <<platform, harmed, sidecar>>
      /\ ctl' = [a EXCEPT !.init = Nobody, !.repl = Nobody, !.handle = FALSE]
  BY DEF LaneEnds, Closed
<1>2. i \in Controllers BY Basics, IdleKeeps
<1>. HIDE DEF i
<1>3. a \in Controllers /\ a.at = "o_read" /\ a.op = "gone"
  BY <1>2, LabelsKnown DEF Controllers
<1>. HIDE DEF a
<1>4. ctl'.at = "o_read" /\ ctl'.op = "gone" /\ ctl'.init = Nobody /\ ctl'.repl = Nobody
  BY <1>1, <1>3 DEF Controllers
<1>5. Onward BY <1>1, ClosedOnward
<1>6. Harmless BY <1>1, Unharmed DEF Sights
<1>7. ctl'.at \notin Delicate /\ ~Proving' /\ ~Unrestarted'
  BY <1>4 DEF Delicate, Aims, Stopping, StopsOnLinux, Passes, Proving, Unrestarted
<1>. QED BY <1>1, <1>4, <1>5, <1>6, <1>7, CalmSights DEF Remembers

-----------------------------------------------------------------------------
\* The stop on Linux.

\* Steps within what was asked for.
Keeps(c, d) == /\ d.pid = c.pid /\ d.op = c.op /\ d.loss = c.loss
               /\ d.init = c.init /\ d.repl = c.repl

LEMMA CleanedSights ==
    ASSUME IInv, IInv', Sights, ctl.op = "finalize", UNCHANGED <<platform, proc, sidecar, harmed>>,
           ctl' = Cleaned(ctl)
    PROVE  Upheld
<1>1. /\ ctl'.pid = ctl.pid /\ ctl'.init = ctl.init /\ ctl'.repl = ctl.repl
      /\ ctl'.loss = ctl.loss /\ ctl'.at = "exiting" /\ ctl'.op = "none"
  BY Basics, CleanedAlike
<1>2. ctl.loss # "none" BY DEF IInv, Single
<1>3. Harmless BY QuietStays
<1>. QED BY <1>1, <1>2, <1>3, RestSights

LEMMA LinuxSights ==
    ASSUME IInv, IInv', Sights, platform = "linux", ctl.at \in StopsOnLinux,
           UNCHANGED <<platform, proc, sidecar>>, Harmless, Keeps(ctl, ctl'),
           \/ ctl'.at \in StopsOnLinux
           \/ ctl'.at = "verify" /\ ctl'.ret \in {"f_tree", "f_term"} /\ ctl.repl # Nobody,
           Targets', TreeIsOwn'
    PROVE  Upheld
<1>1. ctl'.op = "finalize" BY FinalizesOnLinux DEF Keeps
<1>2. Onward BY SameTable DEF Sights
<1>3. /\ ctl'.at \notin Passes \cup {"m_kill", "commit", "adopt", "stat", "w_check", "o_fallback"}
      /\ Proving' /\ ctl'.ret \in {"f_tree", "f_term"} => ctl'.repl # Nobody
  BY DEF StopsOnLinux, Passes, Proving, Keeps
<1>4. GroupIsOwn' BY <1>3 DEF GroupIsOwn, Passes
<1>5. Remembers
  BY <1>1 DEF Keeps, Remembers, Unrestarted
<1>. QED BY <1>1, <1>2, <1>3, <1>4, <1>5, SightsStep

\* Whoever descends from a process of the service is one of them.
LEMMA TreeOwn ==
    ASSUME Table, NEW p \in Rooted
    PROVE  Tree(p) \subseteq Rooted
<1>1. \A q \in Rooted : Children(q) \subseteq Rooted
  BY Numbers DEF Table, Children, Rooted
<1>. QED BY <1>1 DEF Tree

\* An isolated tree is one of the service if its root is.
LEMMA CapturedOwn ==
    ASSUME Sights, Isolated, ctl.repl \in Services
    PROVE  /\ Captured \subseteq Rooted /\ Root = ctl.repl /\ Root \in Rooted /\ Listed(Root)
           /\ proc[Root].pid = ctl.pid
<1>1. Root = ctl.repl /\ Root \in Procs /\ Listed(Root) /\ proc[Root].pid = ctl.pid
  BY HolderListed DEF Isolated, Root
<1>2. Root \in Rooted BY <1>1 DEF Sights, Table, Exists, Listed
<1>. QED BY <1>1, <1>2, TreeOwn DEF Captured, Sights

LEMMA FinalizeLinuxSights ==
    ASSUME IInv, IInv', Sights, FinalizeLinux, UNCHANGED after
    PROVE  Upheld
<1>1. /\ platform = "linux" /\ ctl.at = "f_alive" /\ ctl.repl # Nobody
      /\ UNCHANGED <<platform, proc, sidecar, harmed>>
      /\ ctl' = Verify(ctl, "f_tree") \/ ctl' = Goto("f_zombie")
  BY DEF FinalizeLinux, At, Look, LinuxVars
<1>2. "f_tree" \in Labels /\ "f_zombie" \in Labels BY LabelsKnown DEF StopsOnLinux
<1>3. /\ Alike(ctl, ctl')
      /\ ctl'.at = "f_zombie" \/ (ctl'.at = "verify" /\ ctl'.ret = "f_tree")
  BY <1>1, <1>2, Basics, VerifyAlike, GotoAlike DEF Goto
<1>4. Harmless BY <1>1, QuietStays
<1>5. Targets' /\ TreeIsOwn'
  BY <1>3 DEF Targets, Aims, TreeIsOwn, Stopping, StopsOnLinux, Proving
<1>. QED BY <1>1, <1>3, <1>4, <1>5, LinuxSights DEF Alike, Keeps, StopsOnLinux

LEMMA ZombieRootSights ==
    ASSUME IInv, IInv', Sights, ZombieRoot, UNCHANGED after
    PROVE  Upheld
<1>. DEFINE a == [ctl EXCEPT !.known = Captured, !.seen = Captured]
<1>1. /\ platform = "linux" /\ ctl.at = "f_zombie" /\ Root # Nobody /\ Root = ctl.repl
      /\ UNCHANGED <<platform, proc, sidecar, harmed>>
      /\ ctl' = Cleaned(ctl) \/ ctl' = Verify(a, "f_tree")
  BY DEF ZombieRoot, At, Look, LinuxVars, Isolated
<1>2. ctl.op = "finalize" BY <1>1, FinalizesOnLinux DEF StopsOnLinux
<1>3. Captured \subseteq Procs
  BY <1>1, HolderListed, TreeIn DEF Captured, Root
<1>4. a \in Controllers /\ Keeps(ctl, a)
  BY <1>3, Basics DEF Controllers, Keeps
<1>. HIDE DEF a
<1>5. CASE ctl' = Verify(a, "f_tree")
  <2>1. Alike(a, ctl') /\ ctl'.at = "verify" /\ ctl'.ret = "f_tree"
    BY <1>4, <1>5, LabelsKnown, VerifyAlike DEF StopsOnLinux
  <2>2. Harmless BY <1>1, QuietStays
  <2>3. Targets' /\ TreeIsOwn'
    BY <2>1 DEF Targets, Aims, TreeIsOwn, Stopping, StopsOnLinux, Proving
  <2>. QED BY <1>1, <1>4, <2>1, <2>2, <2>3, LinuxSights DEF Alike, Keeps, StopsOnLinux
<1>. QED BY <1>1, <1>2, <1>5, CleanedSights

LEMMA CaptureSights ==
    ASSUME IInv, IInv', Sights, CaptureTree \/ CaptureAgain, UNCHANGED after
    PROVE  Upheld
<1>. DEFINE a == [ctl EXCEPT !.known = Captured, !.seen = @ \cup Captured]
<1>1. /\ platform = "linux" /\ ctl.at \in {"f_tree", "f_tree2"} /\ Isolated
      /\ UNCHANGED <<platform, proc, sidecar, harmed>>
      /\ ctl' = [a EXCEPT !.at = "f_tree2"] \/ ctl' = Verify(a, "f_term")
  BY DEF CaptureTree, CaptureAgain, At, Look, LinuxVars
<1>2. ctl.repl \in Services
  BY <1>1 DEF Sights, TreeIsOwn, Stopping, StopsOnLinux
<1>3. Captured \subseteq Rooted BY <1>1, <1>2, CapturedOwn
<1>4. a \in Controllers /\ Keeps(ctl, a) /\ a.known = Captured
  BY <1>3, Basics DEF Controllers, Keeps, Rooted
<1>. HIDE DEF a
<1>5. /\ Alike(a, ctl')
      /\ ctl'.at = "f_tree2" \/ (ctl'.at = "verify" /\ ctl'.ret = "f_term")
  BY <1>1, <1>4, LabelsKnown, GotoAlike, VerifyAlike DEF StopsOnLinux
<1>6. Harmless /\ Rooted' = Rooted BY <1>1, QuietStays
<1>7. Targets' BY <1>5 DEF Targets, Aims
<1>8. TreeIsOwn'
  BY <1>2, <1>3, <1>4, <1>5, <1>6 DEF TreeIsOwn, Alike, Keeps, Proving
<1>9. ctl.repl # Nobody BY <1>2, Numbers
<1>. QED BY <1>1, <1>4, <1>5, <1>6, <1>7, <1>8, <1>9, LinuxSights DEF Alike, Keeps, StopsOnLinux

\* After the second census: what is known and still to be killed is the service's.
LEMMA StoppingSights ==
    ASSUME IInv, IInv', Sights, platform = "linux", ctl.at \in Stopping \ {"f_tree"},
           UNCHANGED <<platform, proc, sidecar>>, Harmless, Keeps(ctl, ctl'),
           ctl'.at \in Stopping \ {"f_tree"}, ctl'.known \subseteq Rooted,
           ctl'.at \in {"f_root", "f_stat", "f_kill"} => ctl'.todo \subseteq Rooted,
           ctl'.at \in {"f_term", "f_group"} => ClearGroup(proc[ctl.repl].group)',
           ctl'.at = "f_kill" => ctl'.obs \in Rooted /\ Clear(proc[ctl.obs].pid)'
    PROVE  Upheld
<1>1. ctl.repl \in Services BY DEF Sights, TreeIsOwn
<1>2. Rooted' = Rooted BY SameTable DEF Sights
<1>3. Targets' BY <1>2 DEF Targets, Aims, Stopping, StopsOnLinux
<1>4. TreeIsOwn' BY <1>1, <1>2 DEF TreeIsOwn, Keeps, Proving, Stopping, StopsOnLinux
<1>. QED BY <1>3, <1>4, LinuxSights DEF Stopping

LEMMA TermGroupSights ==
    ASSUME IInv, IInv', Sights, TermGroup \/ KillGroup, UNCHANGED after
    PROVE  Upheld
<1>1. /\ platform = "linux" /\ ctl.at \in {"f_term", "f_group"}
      /\ UNCHANGED <<platform, proc, sidecar>> /\ Signal(InGroup(Group))
      /\ ctl' \in {Goto("f_grace"), Goto("f_wait")}
  BY DEF TermGroup, KillGroup, At, LinuxVars
<1>2. ClearGroup(Group) BY <1>1 DEF Sights, Targets, Group
<1>3. Harmless BY <1>1, <1>2, GroupHarmless DEF Sights
<1>4. Alike(ctl, ctl') /\ ctl'.at \in {"f_grace", "f_wait"}
  BY <1>1, Basics, LabelsKnown, GotoAlike DEF Goto, StopsOnLinux
<1>5. ctl.known \subseteq Rooted
  BY <1>1 DEF Sights, TreeIsOwn, Stopping, StopsOnLinux
<1>. QED BY <1>1, <1>3, <1>4, <1>5, StoppingSights DEF Alike, Keeps, Stopping, StopsOnLinux

LEMMA GraceSights ==
    ASSUME IInv, IInv', Sights, Grace \/ WaitTree, UNCHANGED after
    PROVE  Upheld
<1>1. /\ platform = "linux" /\ ctl.at \in {"f_grace", "f_wait"}
      /\ UNCHANGED <<platform, proc, sidecar, harmed>>
      /\ \/ ctl' = Cleaned(ctl)
         \/ ctl' = [ctl EXCEPT !.at = "f_root", !.todo = Survivors(ctl.known)]
  BY DEF Grace, WaitTree, At, Look, LinuxVars
<1>2. ctl.op = "finalize" BY <1>1, FinalizesOnLinux DEF StopsOnLinux
<1>3. ctl.known \subseteq Rooted
  BY <1>1 DEF Sights, TreeIsOwn, Stopping, StopsOnLinux
<1>4. Survivors(ctl.known) \subseteq Rooted BY <1>3 DEF Survivors
<1>5. CASE ctl' = [ctl EXCEPT !.at = "f_root", !.todo = Survivors(ctl.known)]
  <2>1. /\ Keeps(ctl, ctl') /\ ctl'.at = "f_root" /\ ctl'.known = ctl.known
        /\ ctl'.todo = Survivors(ctl.known)
    BY <1>5, Basics DEF Controllers, Keeps
  <2>2. Harmless BY <1>1, QuietStays
  <2>. QED BY <1>1, <1>3, <1>4, <2>1, <2>2, StoppingSights DEF Stopping, StopsOnLinux
<1>. QED BY <1>1, <1>2, <1>5, CleanedSights

LEMMA EscalateSights ==
    ASSUME IInv, IInv', Sights, Escalate, UNCHANGED after
    PROVE  Upheld
<1>. DEFINE escaped == {p \in Survivors(Captured) : proc[p].group # Group}
<1>1. /\ platform = "linux" /\ ctl.at = "f_root"
      /\ UNCHANGED <<platform, proc, sidecar, harmed>>
      /\ \/ ctl' = [ctl EXCEPT !.at = "f_stat", !.owned = FALSE]
         \/ ctl' = Cleaned(ctl)
         \/ Isolated /\ ctl' = [ctl EXCEPT !.at = "f_stat", !.owned = TRUE, !.known = Captured,
                                  !.todo = escaped]
  BY DEF Escalate, At, Look, LinuxVars
<1>2. ctl.op = "finalize" BY <1>1, FinalizesOnLinux DEF StopsOnLinux
<1>3. ctl.known \subseteq Rooted /\ ctl.todo \subseteq Rooted /\ ctl.repl \in Services
  BY <1>1 DEF Sights, TreeIsOwn, Stopping, StopsOnLinux
<1>4. Harmless BY <1>1, QuietStays
<1>5. CASE ctl' = [ctl EXCEPT !.at = "f_stat", !.owned = FALSE]
  <2>1. Keeps(ctl, ctl') /\ ctl'.at = "f_stat" /\ ctl'.known = ctl.known /\ ctl'.todo = ctl.todo
    BY <1>5, Basics DEF Controllers, Keeps
  <2>. QED BY <1>1, <1>3, <1>4, <2>1, StoppingSights DEF Stopping, StopsOnLinux
<1>6. CASE Isolated /\ ctl' = [ctl EXCEPT !.at = "f_stat", !.owned = TRUE, !.known = Captured,
                                 !.todo = escaped]
  <2>1. Captured \subseteq Rooted BY <1>3, <1>6, CapturedOwn
  <2>2. escaped \subseteq Rooted BY <2>1 DEF Survivors
  <2>. HIDE DEF escaped
  <2>3. Keeps(ctl, ctl') /\ ctl'.at = "f_stat" /\ ctl'.known = Captured /\ ctl'.todo = escaped
    BY <1>6, Basics DEF Controllers, Keeps
  <2>. QED BY <1>1, <1>4, <2>1, <2>2, <2>3, StoppingSights DEF Stopping, StopsOnLinux
<1>. QED BY <1>1, <1>2, <1>5, <1>6, CleanedSights

LEMMA StatSurvivorSights ==
    ASSUME IInv, IInv', Sights, StatSurvivor, UNCHANGED after
    PROVE  Upheld
<1>1. /\ platform = "linux" /\ ctl.at = "f_stat"
      /\ UNCHANGED <<platform, proc, sidecar, harmed>>
  BY DEF StatSurvivor, At, LinuxVars
<1>2. PICK p \in ctl.todo :
         Holder(proc[p].pid) = p /\ ctl' = [ctl EXCEPT !.obs = p, !.at = "f_kill"]
  BY DEF StatSurvivor
<1>3. ctl.known \subseteq Rooted /\ ctl.todo \subseteq Rooted
  BY <1>1 DEF Sights, TreeIsOwn, Stopping, StopsOnLinux
<1>4. p \in Rooted /\ p \in Procs BY <1>2, <1>3 DEF Rooted
<1>5. Listed(p) BY <1>2, <1>4, HolderListed, Numbers
<1>6. Clear(proc[p].pid)' BY <1>1, <1>4, <1>5, ProofClears DEF Sights
<1>7. /\ Keeps(ctl, ctl') /\ ctl'.at = "f_kill" /\ ctl'.known = ctl.known
      /\ ctl'.todo = ctl.todo /\ ctl'.obs = p
  BY <1>2, <1>4, Basics DEF Controllers, Keeps
<1>8. Harmless BY <1>1, QuietStays
<1>. QED BY <1>1, <1>3, <1>6, <1>7, <1>8, StoppingSights DEF Stopping, StopsOnLinux

LEMMA KillSurvivorSights ==
    ASSUME IInv, IInv', Sights, KillSurvivor, UNCHANGED after
    PROVE  Upheld
<1>1. /\ platform = "linux" /\ ctl.at = "f_kill" /\ Signal(Listing(proc[ctl.obs].pid))
      /\ UNCHANGED <<platform, proc, sidecar>>
      /\ ctl' = [ctl EXCEPT !.todo = @ \ {ctl.obs}, !.obs = Nobody, !.at = "f_stat"]
  BY DEF KillSurvivor, At, LinuxVars
<1>2. Harmless BY <1>1, ListingHarmless DEF Sights, Targets
<1>3. ctl.known \subseteq Rooted /\ ctl.todo \subseteq Rooted
  BY <1>1 DEF Sights, TreeIsOwn, Stopping, StopsOnLinux
<1>4. /\ Keeps(ctl, ctl') /\ ctl'.at = "f_stat" /\ ctl'.known = ctl.known
      /\ ctl'.todo = ctl.todo \ {ctl.obs}
  BY <1>1, Basics DEF Controllers, Keeps
<1>. QED BY <1>1, <1>2, <1>3, <1>4, StoppingSights DEF Stopping, StopsOnLinux

LEMMA SurvivorsKilledSights ==
    ASSUME IInv, IInv', Sights, SurvivorsKilled, UNCHANGED after
    PROVE  Upheld
<1>1. /\ platform = "linux" /\ ctl.at = "f_stat"
      /\ UNCHANGED <<platform, proc, sidecar, harmed>>
      /\ ctl' \in {Goto("f_group_id"), Goto("f_wait")}
  BY DEF SurvivorsKilled, At, Look, LinuxVars
<1>2. Alike(ctl, ctl') /\ ctl'.at \in {"f_group_id", "f_wait"}
  BY <1>1, Basics, LabelsKnown, GotoAlike DEF Goto, StopsOnLinux
<1>3. ctl.known \subseteq Rooted
  BY <1>1 DEF Sights, TreeIsOwn, Stopping, StopsOnLinux
<1>4. Harmless BY <1>1, QuietStays
<1>. QED BY <1>1, <1>2, <1>3, <1>4, StoppingSights DEF Alike, Keeps, Stopping, StopsOnLinux

LEMMA ProveGroupSights ==
    ASSUME IInv, IInv', Sights, ProveGroup, UNCHANGED after
    PROVE  Upheld
<1>1. /\ platform = "linux" /\ ctl.at = "f_group_id" /\ Root = ctl.repl
      /\ UNCHANGED <<platform, proc, sidecar, harmed>> /\ ctl' = Goto("f_group")
  BY DEF ProveGroup, At, LinuxVars
<1>2. ctl.known \subseteq Rooted /\ ctl.repl \in Services
  BY <1>1 DEF Sights, TreeIsOwn, Stopping, StopsOnLinux
<1>3. Listed(ctl.repl) /\ ctl.repl \in Procs BY <1>1, <1>2, HolderListed, Numbers DEF Root
<1>4. ctl.repl \in Rooted BY <1>2, <1>3 DEF Sights, Table, Listed, Exists
<1>5. Alike(ctl, ctl') /\ ctl'.at = "f_group"
  BY <1>1, Basics, LabelsKnown, GotoAlike DEF Goto, StopsOnLinux
<1>6. ClearGroup(proc[ctl.repl].group)'
  BY <1>1, <1>3, <1>4, <1>5, ProofClears DEF Sights, POSIX, Alike
<1>7. Harmless BY <1>1, QuietStays
<1>. QED BY <1>1, <1>2, <1>5, <1>6, <1>7, StoppingSights DEF Alike, Keeps, Stopping, StopsOnLinux

LEMMA LinuxNextSights ==
    ASSUME IInv, IInv', Sights, LinuxNext, UNCHANGED after
    PROVE  Upheld
BY FinalizeLinuxSights, ZombieRootSights, CaptureSights, TermGroupSights, GraceSights,
   EscalateSights, StatSurvivorSights, KillSurvivorSights, SurvivorsKilledSights, ProveGroupSights
   DEF LinuxNext

-----------------------------------------------------------------------------
\* The stop on macOS.

LEMMA MacSights ==
    ASSUME IInv, IInv', Sights, platform = "macos", UNCHANGED <<platform, proc, sidecar>>,
           Harmless, Keeps(ctl, ctl'), ctl'.at \in Passes, GroupIsOwn',
           ctl'.at = "m_group" => Clear(ctl.pid)',
           ctl'.at = "m_kill" => Aimed(ctl.obs)'
    PROVE  Upheld
<1>1. Onward /\ Rooted' = Rooted BY SameTable DEF Sights
<1>2. Targets' BY <1>1 DEF Targets, Aims, Passes
<1>3. TreeIsOwn' BY DEF TreeIsOwn, Passes, Proving, Stopping, StopsOnLinux
<1>4. /\ ctl'.op = "outer" => sidecar' # Pending
      /\ ctl'.op \in {"gone", "outer"} => ctl'.repl = Nobody
  BY DEF Sights, Expecting, Keeps
<1>5. ctl'.at \notin {"commit", "adopt", "stat", "w_check", "o_fallback"} /\ ~Proving'
  BY DEF Passes, Proving
<1>. QED BY <1>1, <1>2, <1>3, <1>4, <1>5, SightsStep

LEMMA TerminateBeginsSights ==
    ASSUME IInv, IInv', Sights, TerminateBegins, UNCHANGED after
    PROVE  Upheld
<1>1. /\ platform = "macos" /\ ctl.at = "terminate" /\ ctl' = Goto("m_first")
      /\ UNCHANGED <<platform, proc, sidecar, harmed>>
  BY DEF TerminateBegins, MacAt, Look, LinuxVars
<1>2. Alike(ctl, ctl') /\ ctl'.at = "m_first"
  BY <1>1, Basics, LabelsKnown, GotoAlike DEF Goto, StopsOnMac
<1>3. ctl'.at \notin Delicate /\ ~Proving'
  BY <1>2 DEF Delicate, Aims, Stopping, StopsOnLinux, Passes, Proving
<1>4. Unrestarted' => Unrestarted /\ Where # "create"
  BY <1>1, <1>2 DEF Alike, Unrestarted, Where, StopsPredecessor
<1>5. Harmless BY <1>1, QuietStays
<1>. QED BY <1>1, <1>2, <1>3, <1>4, <1>5, MoveSights DEF Alike

\* Whom a census of the group and the tree finds: a stranger only in a group
\* that is its own, under the service's number.
LEMMA CensusOwn ==
    ASSUME Table
    PROVE  \A p \in OwnedGroup \cup Survivors(Topology) : p \in Procs /\ Candidate(p)
<1>1. ASSUME NEW p \in OwnedGroup PROVE p \in Procs /\ Candidate(p)
  <2>1. p \in Procs /\ Listed(p) /\ proc[p].group = ctl.pid
    BY <1>1 DEF OwnedGroup, InGroup, Live, Listed
  <2>2. Exists(p) BY <2>1 DEF Listed, Exists
  <2>. QED BY <2>1, <2>2 DEF Table, Candidate
<1>2. ASSUME NEW p \in Survivors(Topology) PROVE p \in Procs /\ Candidate(p)
  <2>1. Root # Nobody /\ p \in Tree(Root) /\ Live(p) BY <1>2 DEF Survivors, Topology
  <2>2. Root \in Procs /\ proc[Root].pid = ctl.pid BY <2>1, HolderListed DEF Root
  <2>3. Exists(p) BY <2>1 DEF Live, Exists
  <2>4. CASE p = Root BY <2>2, <2>3, <2>4 DEF Candidate
  <2>5. CASE p # Root
    <3>1. PICK q \in Procs : p \in Children(q) BY <2>1, <2>2, <2>5 DEF Tree, Children
    <3>2. p \in Procs /\ proc[p].parent = q BY <3>1 DEF Children
    <3>3. proc[p].parent # Nobody BY <3>2, Numbers
    <3>. QED BY <2>3, <3>2, <3>3 DEF Table, Candidate
  <2>. QED BY <2>4, <2>5
<1>. QED BY <1>1, <1>2

\* Who answers a probe: the one that was listed, or another that is taken for it.
LEMMA AnswerOwn ==
    ASSUME Table, NEW p \in Procs, Candidate(p), NEW found, Answers(proc[p].pid, found)
    PROVE  /\ found \in Procs /\ Numbered(found) /\ found \in Rooted \cup ({found} \ {p})
           /\ proc[found].pid = proc[p].pid
<1>1. found \in Procs /\ Listed(found) /\ proc[found].pid = proc[p].pid
  BY HolderListed DEF Answers
<1>2. Exists(found) BY <1>1 DEF Listed, Exists
<1>3. Numbered(found) BY <1>1, <1>2 DEF Answers, Numbered
<1>4. found = p => found \in Rooted BY <1>2, <1>3 DEF Candidate, Numbered, Table
<1>. QED BY <1>1, <1>3, <1>4

\* On an unchanged table who is numbered, and who a candidate, stays so.
LEMMA TableStays ==
    ASSUME Table, UNCHANGED <<platform, proc>>, ctl'.pid = ctl.pid
    PROVE  /\ Rooted' = Rooted
           /\ \A p : (Numbered(p)' <=> Numbered(p)) /\ (Candidate(p)' <=> Candidate(p))
BY DEF Rooted, Numbered, Candidate, Exists

LEMMA EstablishSights ==
    ASSUME IInv, IInv', Sights, EstablishOwnership, UNCHANGED after
    PROVE  Upheld
<1>1. /\ platform = "macos" /\ UNCHANGED <<platform, proc, sidecar, harmed>>
      /\ ctl' = [ctl EXCEPT !.at = "m_own", !.known = {}, !.listed = OwnedGroup]
  BY DEF EstablishOwnership, MacAt, Look, LinuxVars
<1>2. Keeps(ctl, ctl') /\ ctl'.at = "m_own" /\ ctl'.known = {} /\ ctl'.listed = OwnedGroup
  BY <1>1, Basics DEF Controllers, Keeps
<1>3. \A p \in OwnedGroup : Candidate(p)' BY <1>1, <1>2, CensusOwn, TableStays DEF Sights, Keeps
<1>4. GroupIsOwn' BY <1>2, <1>3 DEF GroupIsOwn
<1>5. Harmless BY <1>1, QuietStays
<1>. QED BY <1>1, <1>2, <1>4, <1>5, MacSights DEF Passes

\* One probe more: who answers is known, and on record if it was not listed.
LEMMA ProbedOwn ==
    ASSUME Sights, UNCHANGED <<platform, proc>>, ctl'.pid = ctl.pid, ctl.at \in {"m_own", "m_probe"},
           NEW p \in ctl.listed, p \in Procs, NEW found, Answers(proc[p].pid, found),
           ctl'.known = ctl.known \cup {found}, ctl'.taken = ctl.taken \cup ({found} \ {p})
    PROVE  \A k \in ctl'.known : (k \in Own /\ Numbered(k))'
<1>1. Candidate(p) BY DEF Sights, GroupIsOwn
<1>2. Numbered(found) /\ found \in Rooted \cup ({found} \ {p})
  BY <1>1, AnswerOwn DEF Sights
<1>3. \A k \in ctl.known : k \in Own /\ Numbered(k) BY DEF Sights, GroupIsOwn, Passes
<1>. QED BY <1>2, <1>3, TableStays DEF Own, Sights

LEMMA ProbeMemberSights ==
    ASSUME IInv, IInv', Sights, ProbeMember, UNCHANGED after
    PROVE  Upheld
<1>1. /\ platform = "macos" /\ ctl.at = "m_own" /\ UNCHANGED <<platform, proc, sidecar, harmed>>
  BY DEF ProbeMember, MacAt, Look, LinuxVars
<1>2. PICK p \in ctl.listed :
         \/ ctl' = [ctl EXCEPT !.listed = @ \ {p}]
         \/ \E found \in Procs :
               /\ Answers(proc[p].pid, found)
               /\ ctl' = [ctl EXCEPT !.listed = @ \ {p}, !.known = @ \cup {found},
                                     !.taken = @ \cup ({found} \ {p})]
  BY DEF ProbeMember
<1>3. Harmless BY <1>1, QuietStays
<1>4. ctl \in Controllers /\ p \in Procs BY <1>2, Basics DEF Controllers
<1>5. /\ \A k \in ctl.known : k \in Own /\ Numbered(k)
      /\ \A q \in ctl.listed : Candidate(q)
  BY <1>1 DEF Sights, GroupIsOwn, Passes
<1>6. CASE ctl' = [ctl EXCEPT !.listed = @ \ {p}]
  <2>1. /\ Keeps(ctl, ctl') /\ ctl'.at = "m_own" /\ ctl'.known = ctl.known
        /\ ctl'.listed = ctl.listed \ {p} /\ ctl'.taken = ctl.taken
    BY <1>1, <1>4, <1>6 DEF Controllers, Keeps
  <2>2. GroupIsOwn' BY <1>1, <1>5, <2>1, TableStays DEF GroupIsOwn, Own, Keeps, Sights
  <2>. QED BY <1>1, <1>3, <2>1, <2>2, MacSights DEF Passes
<1>7. ASSUME NEW found \in Procs, Answers(proc[p].pid, found),
             ctl' = [ctl EXCEPT !.listed = @ \ {p}, !.known = @ \cup {found},
                                !.taken = @ \cup ({found} \ {p})]
      PROVE  Upheld
  <2>1. /\ Keeps(ctl, ctl') /\ ctl'.at = "m_own" /\ ctl'.listed = ctl.listed \ {p}
    BY <1>1, <1>4, <1>7 DEF Controllers, Keeps
  <2>2. /\ ctl'.known = ctl.known \cup {found} /\ ctl'.taken = ctl.taken \cup ({found} \ {p})
    BY <1>4, <1>7 DEF Controllers
  <2>3. \A k \in ctl'.known : (k \in Own /\ Numbered(k))'
    BY <1>1, <1>4, <1>7, <2>1, <2>2, ProbedOwn DEF Keeps
  <2>4. GroupIsOwn' BY <1>1, <1>5, <2>1, <2>3, TableStays DEF GroupIsOwn, Keeps, Sights
  <2>. QED BY <1>1, <1>3, <2>1, <2>4, MacSights DEF Passes
<1>. QED BY <1>2, <1>6, <1>7

LEMMA PassSights ==
    ASSUME IInv, IInv', Sights, Pass, UNCHANGED after
    PROVE  Upheld
<1>. DEFINE whole == OwnedGroup # {} /\ OwnedGroup \subseteq Topology
            found == Current
            others == Unlisted(Current)
<1>1. /\ platform = "macos" /\ ctl.at = "m_pass" /\ UNCHANGED <<platform, proc, sidecar, harmed>>
      /\ ctl' = [ctl EXCEPT !.at = "m_probe", !.listed = found, !.rest = others,
                            !.owned = whole, !.todo = {}, !.obs = Nobody]
  BY DEF Pass, MacAt, Look, LinuxVars
<1>2. others \subseteq ctl.known /\ \A p \in found : p \in Procs /\ Candidate(p)
  BY CensusOwn DEF Unlisted, Current, Sights
<1>3. \A k \in ctl.known : k \in Own /\ Numbered(k) BY <1>1 DEF Sights, GroupIsOwn, Passes
<1>. HIDE DEF whole, found, others
<1>4. /\ Keeps(ctl, ctl') /\ ctl'.at = "m_probe" /\ ctl'.listed = found
  BY <1>1, Basics DEF Controllers, Keeps
<1>5. ctl'.rest = others /\ ctl'.todo = {} /\ ctl'.known = ctl.known /\ ctl'.taken = ctl.taken
  BY <1>1, Basics DEF Controllers
<1>6. GroupIsOwn' BY <1>1, <1>2, <1>3, <1>4, <1>5, TableStays DEF GroupIsOwn, Own, Keeps, Sights
<1>7. Harmless BY <1>1, QuietStays
<1>. QED BY <1>1, <1>4, <1>6, <1>7, MacSights DEF Passes

LEMMA SurvivesAlike ==
    ASSUME NEW c \in Controllers, NEW found, NEW b, NEW d, d = Survives(c, found, b)
    PROVE  /\ Keeps(c, d) /\ d.at = c.at /\ d.known = c.known /\ d.listed = c.listed
           /\ d.rest = c.rest /\ d.taken = c.taken /\ d.todo \subseteq c.todo \cup {found}
BY DEF Survives, Controllers, Keeps

LEMMA ProbeCurrentSights ==
    ASSUME IInv, IInv', Sights, ProbeCurrent, UNCHANGED after
    PROVE  Upheld
<1>1. /\ platform = "macos" /\ ctl.at = "m_probe" /\ UNCHANGED <<platform, proc, sidecar, harmed>>
  BY DEF ProbeCurrent, MacAt, Look, LinuxVars
<1>2. PICK p \in ctl.listed :
         \/ ctl' = [ctl EXCEPT !.listed = @ \ {p}]
         \/ \E found \in Procs :
               /\ Answers(proc[p].pid, found)
               /\ ctl' = Survives([ctl EXCEPT !.listed = @ \ {p}, !.known = @ \cup {found},
                                              !.taken = @ \cup ({found} \ {p})],
                                  found, proc[p].group = ctl.pid)
  BY DEF ProbeCurrent
<1>3. Harmless BY <1>1, QuietStays
<1>4. ctl \in Controllers /\ p \in Procs BY <1>2, Basics DEF Controllers
<1>5. /\ \A k \in ctl.known : k \in Own /\ Numbered(k)
      /\ \A q \in ctl.listed : Candidate(q)
      /\ ctl.rest \subseteq ctl.known /\ ctl.todo \subseteq ctl.known
  BY <1>1 DEF Sights, GroupIsOwn, Passes
<1>6. CASE ctl' = [ctl EXCEPT !.listed = @ \ {p}]
  <2>1. /\ Keeps(ctl, ctl') /\ ctl'.at = "m_probe" /\ ctl'.known = ctl.known
        /\ ctl'.listed = ctl.listed \ {p} /\ ctl'.taken = ctl.taken
    BY <1>1, <1>4, <1>6 DEF Controllers, Keeps
  <2>2. ctl'.rest = ctl.rest /\ ctl'.todo = ctl.todo BY <1>4, <1>6 DEF Controllers
  <2>3. GroupIsOwn' BY <1>1, <1>5, <2>1, <2>2, TableStays DEF GroupIsOwn, Own, Keeps, Sights
  <2>. QED BY <1>1, <1>3, <2>1, <2>3, MacSights DEF Passes
<1>7. ASSUME NEW found \in Procs, Answers(proc[p].pid, found),
             ctl' = Survives([ctl EXCEPT !.listed = @ \ {p}, !.known = @ \cup {found},
                                         !.taken = @ \cup ({found} \ {p})],
                             found, proc[p].group = ctl.pid)
      PROVE  Upheld
  <2>. DEFINE c == [ctl EXCEPT !.listed = @ \ {p}, !.known = @ \cup {found},
                               !.taken = @ \cup ({found} \ {p})]
  <2>1. c \in Controllers /\ Keeps(ctl, c) /\ c.at = "m_probe" /\ c.listed = ctl.listed \ {p}
    BY <1>1, <1>4, <1>7 DEF Controllers, Keeps
  <2>2. /\ c.known = ctl.known \cup {found} /\ c.taken = ctl.taken \cup ({found} \ {p})
        /\ c.rest = ctl.rest /\ c.todo = ctl.todo
    BY <1>4 DEF Controllers
  <2>. HIDE DEF c
  <2>3. /\ Keeps(c, ctl') /\ ctl'.at = c.at /\ ctl'.known = c.known /\ ctl'.listed = c.listed
        /\ ctl'.rest = c.rest /\ ctl'.taken = c.taken /\ ctl'.todo \subseteq c.todo \cup {found}
    <3>1. ctl' = Survives(c, found, proc[p].group = ctl.pid) BY <1>7 DEF c
    <3>. QED BY <2>1, <3>1, SurvivesAlike
  <2>4. Keeps(ctl, ctl') BY <2>1, <2>3 DEF Keeps
  <2>5. \A k \in ctl'.known : (k \in Own /\ Numbered(k))'
    BY <1>1, <1>4, <1>7, <2>2, <2>3, <2>4, ProbedOwn DEF Keeps
  <2>6. GroupIsOwn'
    BY <1>1, <1>5, <2>1, <2>2, <2>3, <2>4, <2>5, TableStays DEF GroupIsOwn, Keeps, Sights
  <2>. QED BY <1>1, <1>3, <2>1, <2>3, <2>4, <2>6, MacSights DEF Passes
<1>. QED BY <1>2, <1>6, <1>7

LEMMA ProbeKnownSights ==
    ASSUME IInv, IInv', Sights, ProbeKnown, UNCHANGED after
    PROVE  Upheld
<1>1. /\ platform = "macos" /\ ctl.at = "m_probe" /\ UNCHANGED <<platform, proc, sidecar, harmed>>
  BY DEF ProbeKnown, MacAt, Look, LinuxVars
<1>2. PICK k \in ctl.rest :
         \/ ctl' = [ctl EXCEPT !.rest = @ \ {k}]
         \/ ctl' = Survives([ctl EXCEPT !.rest = @ \ {k}], k, FALSE)
  BY DEF ProbeKnown
<1>. DEFINE c == [ctl EXCEPT !.rest = @ \ {k}]
<1>3. ctl \in Controllers BY Basics
<1>4. /\ \A q \in ctl.known : q \in Own /\ Numbered(q)
      /\ \A q \in ctl.listed : Candidate(q)
      /\ ctl.rest \subseteq ctl.known /\ ctl.todo \subseteq ctl.known
  BY <1>1 DEF Sights, GroupIsOwn, Passes
<1>5. c \in Controllers /\ Keeps(ctl, c) /\ c.at = "m_probe" /\ c.rest = ctl.rest \ {k}
  BY <1>1, <1>3 DEF Controllers, Keeps
<1>6. c.known = ctl.known /\ c.taken = ctl.taken /\ c.listed = ctl.listed /\ c.todo = ctl.todo
  BY <1>3 DEF Controllers
<1>7. ctl' = c \/ ctl' = Survives(c, k, FALSE) BY <1>2
<1>. HIDE DEF c
<1>8. /\ Keeps(c, ctl') /\ ctl'.at = c.at /\ ctl'.known = c.known /\ ctl'.listed = c.listed
      /\ ctl'.rest = c.rest /\ ctl'.taken = c.taken /\ ctl'.todo \subseteq c.todo \cup {k}
  <2>1. CASE ctl' = c BY <2>1 DEF Keeps
  <2>2. CASE ctl' = Survives(c, k, FALSE) BY <1>5, <2>2 DEF Survives, Controllers, Keeps
  <2>. QED BY <1>7, <2>1, <2>2
<1>9. Keeps(ctl, ctl') BY <1>5, <1>8 DEF Keeps
<1>10. GroupIsOwn'
  BY <1>1, <1>2, <1>4, <1>5, <1>6, <1>8, <1>9, TableStays DEF GroupIsOwn, Own, Keeps, Sights
<1>11. Harmless BY <1>1, QuietStays
<1>. QED BY <1>1, <1>5, <1>8, <1>9, <1>10, <1>11, MacSights DEF Passes

\* Between the probes of two passes.
LEMMA WithinPass ==
    ASSUME IInv, IInv', Sights, platform = "macos", UNCHANGED <<platform, proc, sidecar>>,
           Harmless, ctl.at \in Passes, Keeps(ctl, ctl'), ctl'.at \in Passes \ {"m_own", "m_probe"},
           ctl'.known = ctl.known, ctl'.taken = ctl.taken, ctl'.todo \subseteq ctl.todo,
           \/ ctl.at \in {"m_probe", "m_rootid", "m_group", "m_each", "m_kill"}
           \/ ctl'.at = "m_pass",
           ctl'.at = "m_group" => Clear(ctl.pid)',
           ctl'.at = "m_kill" => Aimed(ctl.obs)'
    PROVE  Upheld
<1>1. GroupIsOwn' BY TableStays DEF GroupIsOwn, Own, Keeps, Sights
<1>. QED BY <1>1, MacSights

LEMMA OwnershipProvenSights ==
    ASSUME IInv, IInv', Sights, OwnershipProven, UNCHANGED after
    PROVE  Upheld
<1>1. /\ platform = "macos" /\ ctl.at = "m_own" /\ UNCHANGED <<platform, proc, sidecar, harmed>>
      /\ ctl' = Goto("m_pass")
  BY DEF OwnershipProven, MacAt, Look, LinuxVars
<1>2. Alike(ctl, ctl') /\ ctl'.at = "m_pass"
  BY <1>1, Basics, LabelsKnown, GotoAlike DEF Goto, StopsOnMac
<1>3. Harmless BY <1>1, QuietStays
<1>. QED BY <1>1, <1>2, <1>3, WithinPass DEF Alike, Keeps, Passes

LEMMA ProbesEndSights ==
    ASSUME IInv, IInv', Sights, ProbesEnd, UNCHANGED after
    PROVE  Upheld
<1>1. /\ platform = "macos" /\ ctl.at = "m_probe" /\ UNCHANGED <<platform, proc, sidecar, harmed>>
      /\ ctl' \in {Goto("m_census"), Goto("m_rootid"), Goto("m_each")}
  BY DEF ProbesEnd, MacAt, Look, LinuxVars
<1>2. Alike(ctl, ctl') /\ ctl'.at \in {"m_census", "m_rootid", "m_each"}
  BY <1>1, Basics, LabelsKnown, GotoAlike DEF Goto, StopsOnMac
<1>3. Harmless BY <1>1, QuietStays
<1>. QED BY <1>1, <1>2, <1>3, WithinPass DEF Alike, Keeps, Passes

LEMMA ProveRootSights ==
    ASSUME IInv, IInv', Sights, ProveRoot, UNCHANGED after
    PROVE  Upheld
<1>1. /\ platform = "macos" /\ ctl.at = "m_rootid" /\ UNCHANGED <<platform, proc, sidecar, harmed>>
      /\ Root # Nobody /\ Root \in ctl.known /\ ctl' = Goto("m_group")
  BY DEF ProveRoot, MacAt, LinuxVars
<1>3. Listed(Root) /\ proc[Root].pid = ctl.pid BY <1>1, HolderListed DEF Root
<1>2. Root \in Rooted BY <1>1, <1>3 DEF Sights, GroupIsOwn, Passes, Numbered, Table
<1>4. Alike(ctl, ctl') /\ ctl'.at = "m_group"
  BY <1>1, Basics, LabelsKnown, GotoAlike DEF Goto, StopsOnMac
<1>5. \A r \in Rooted : Listed(r) => Clear(proc[r].pid)'
  BY <1>1, ProofClears DEF Sights
<1>6. PICK r \in Rooted : Listed(r) /\ proc[r].pid = ctl.pid BY <1>2, <1>3
<1>7. Clear(ctl.pid)'
  <2>1. Clear(proc[r].pid)' BY <1>5, <1>6
  <2>. QED BY <1>1, <1>4, <1>6, <2>1 DEF Alike
<1>8. Harmless BY <1>1, QuietStays
<1>. QED BY <1>1, <1>4, <1>7, <1>8, WithinPass DEF Alike, Keeps, Passes

LEMMA KillOwnedGroupSights ==
    ASSUME IInv, IInv', Sights, KillOwnedGroup, UNCHANGED after
    PROVE  Upheld
<1>1. /\ platform = "macos" /\ ctl.at = "m_group" /\ UNCHANGED <<platform, proc, sidecar>>
      /\ Signal(InGroup(ctl.pid)) /\ ctl' = Goto("m_each")
  BY DEF KillOwnedGroup, MacAt, LinuxVars
<1>2. ClearGroup(ctl.pid) BY <1>1, GroupOfNumber DEF Sights, Targets, Aims
<1>3. Harmless BY <1>1, <1>2, GroupHarmless DEF Sights
<1>4. Alike(ctl, ctl') /\ ctl'.at = "m_each"
  BY <1>1, Basics, LabelsKnown, GotoAlike DEF Goto, StopsOnMac
<1>. QED BY <1>1, <1>3, <1>4, WithinPass DEF Alike, Keeps, Passes

LEMMA ProveOneSights ==
    ASSUME IInv, IInv', Sights, ProveOne, UNCHANGED after
    PROVE  Upheld
<1>1. /\ platform = "macos" /\ ctl.at = "m_each" /\ UNCHANGED <<platform, proc, sidecar, harmed>>
  BY DEF ProveOne, MacAt, LinuxVars
<1>2. PICK p \in ctl.todo :
         \/ ctl' = [ctl EXCEPT !.todo = @ \ {p}]
         \/ Holder(proc[p].pid) = p /\ ctl' = [ctl EXCEPT !.obs = p, !.at = "m_kill"]
  BY DEF ProveOne
<1>3. p \in Procs /\ p \in Own /\ Exists(p)
  <2>1. p \in ctl.known BY <1>1, <1>2 DEF Sights, GroupIsOwn
  <2>. QED BY <1>1, <2>1, Basics DEF Sights, GroupIsOwn, Passes, Numbered, Controllers
<1>4. Harmless BY <1>1, QuietStays
<1>5. CASE ctl' = [ctl EXCEPT !.todo = @ \ {p}]
  <2>1. /\ Keeps(ctl, ctl') /\ ctl'.at = "m_each" /\ ctl'.known = ctl.known
        /\ ctl'.taken = ctl.taken /\ ctl'.todo = ctl.todo \ {p}
    BY <1>1, <1>5, Basics DEF Controllers, Keeps
  <2>. QED BY <1>1, <1>4, <2>1, WithinPass DEF Passes
<1>6. CASE Holder(proc[p].pid) = p /\ ctl' = [ctl EXCEPT !.obs = p, !.at = "m_kill"]
  <2>1. Listed(p) BY <1>3, <1>6, HolderListed, Numbers
  <2>2. \A q \in Procs : Listed(q) /\ proc[q].pid = proc[p].pid => q = p
    BY <1>3, <2>1 DEF Sights, Table
  <2>3. /\ Keeps(ctl, ctl') /\ ctl'.at = "m_kill" /\ ctl'.known = ctl.known
        /\ ctl'.taken = ctl.taken /\ ctl'.todo = ctl.todo /\ ctl'.obs = p
    BY <1>3, <1>6, Basics DEF Controllers, Keeps
  <2>4. Aimed(ctl.obs)'
    BY <1>1, <1>3, <2>2, <2>3, TableStays DEF Aimed, Own, Exists, Listed, Keeps, Sights
  <2>. QED BY <1>1, <1>4, <2>3, <2>4, WithinPass DEF Passes
<1>. QED BY <1>2, <1>5, <1>6

LEMMA KillOneSights ==
    ASSUME IInv, IInv', Sights, KillOne, UNCHANGED after
    PROVE  Upheld
<1>1. /\ platform = "macos" /\ ctl.at = "m_kill" /\ Signal(Listing(proc[ctl.obs].pid))
      /\ UNCHANGED <<platform, proc, sidecar>>
      /\ ctl' = [ctl EXCEPT !.todo = @ \ {ctl.obs}, !.obs = Nobody, !.at = "m_each"]
  BY DEF KillOne, MacAt, LinuxVars
<1>2. Harmless
  <2>1. Aimed(ctl.obs) BY <1>1 DEF Sights, Targets
  <2>2. \A q \in Listing(proc[ctl.obs].pid) : q \in Rooted \cup ctl.taken \cup born
    BY <2>1 DEF Aimed, Own, Listing
  <2>. QED BY <1>1, <2>2 DEF Harmless, Adopted, Signal, Rooted, Listing, Sights, OnlyProvenSignalled
<1>3. /\ Keeps(ctl, ctl') /\ ctl'.at = "m_each" /\ ctl'.known = ctl.known
      /\ ctl'.taken = ctl.taken /\ ctl'.todo = ctl.todo \ {ctl.obs}
  BY <1>1, Basics DEF Controllers, Keeps
<1>. QED BY <1>1, <1>2, <1>3, WithinPass DEF Passes

LEMMA PassEndsSights ==
    ASSUME IInv, IInv', Sights, PassEnds, UNCHANGED after
    PROVE  Upheld
<1>1. /\ platform = "macos" /\ ctl.at = "m_each" /\ UNCHANGED <<platform, proc, sidecar, harmed>>
      /\ ctl' = [ctl EXCEPT !.at = "m_pass", !.owned = FALSE]
  BY DEF PassEnds, MacAt, Look, LinuxVars
<1>2. Harmless BY <1>1, QuietStays
<1>3. /\ Keeps(ctl, ctl') /\ ctl'.at = "m_pass" /\ ctl'.known = ctl.known
      /\ ctl'.taken = ctl.taken /\ ctl'.todo = ctl.todo
  BY <1>1, Basics DEF Controllers, Keeps
<1>. QED BY <1>1, <1>2, <1>3, WithinPass DEF Passes

LEMMA GroupEmptySights ==
    ASSUME IInv, IInv', Sights, GroupEmpty, UNCHANGED after
    PROVE  Upheld
<1>. DEFINE a == Goto("wait")
<1>1. /\ platform = "macos" /\ ctl.at = "m_census" /\ UNCHANGED <<platform, proc, sidecar, harmed>>
      /\ \/ ctl' = Goto("m_pass")
         \/ ctl.op = "loss" /\ ctl' = [a EXCEPT !.known = {}]
         \/ ctl.op # "loss" /\ ctl' = Cleaned(ctl)
  BY DEF GroupEmpty, MacAt, Look, LinuxVars
<1>2. Harmless BY <1>1, QuietStays
<1>3. ctl.op \in {"loss", "finalize"}
  BY <1>1, Basics DEF IInv, Places, Where, StopsPredecessor, StopsExternal, Restarts, Owns,
                      StopsJob, StopsOnLinux, StopsOnMac, Ended, Outside
<1>4. CASE ctl' = Goto("m_pass")
  <2>1. Alike(ctl, ctl') /\ ctl'.at = "m_pass"
    BY <1>4, Basics, LabelsKnown, GotoAlike DEF Goto, StopsOnMac
  <2>. QED BY <1>1, <1>2, <2>1, WithinPass DEF Alike, Keeps, Passes
<1>5. CASE ctl.op = "loss" /\ ctl' = [a EXCEPT !.known = {}]
  <2>1. Alike(ctl, a) /\ a.at = "wait" /\ a \in Controllers
    BY Basics, LabelsKnown, GotoAlike, AtChanges DEF Goto, StopsPredecessor, Same
  <2>. HIDE DEF a
  <2>2. Keeps(ctl, ctl') /\ ctl'.at = "wait"
    BY <1>5, <2>1 DEF Alike, Controllers, Keeps
  <2>3. ctl'.at \notin Delicate /\ ~Proving'
    BY <2>2 DEF Delicate, Aims, Stopping, StopsOnLinux, Passes, Proving
  <2>4. Unrestarted /\ Where # "create"
    BY <1>1, <1>5 DEF Unrestarted, Where, StopsPredecessor
  <2>. QED BY <1>1, <1>2, <2>2, <2>3, <2>4, MoveSights DEF Keeps
<1>. QED BY <1>1, <1>3, <1>4, <1>5, CleanedSights

LEMMA MacNextSights ==
    ASSUME IInv, IInv', Sights, MacNext, UNCHANGED after
    PROVE  Upheld
BY TerminateBeginsSights, EstablishSights, ProbeMemberSights, OwnershipProvenSights, PassSights,
   ProbeCurrentSights, ProbeKnownSights, ProbesEndSights, ProveRootSights, KillOwnedGroupSights,
   ProveOneSights, KillOneSights, PassEndsSights, GroupEmptySights
   DEF MacNext

-----------------------------------------------------------------------------
\* The stops on Windows.

LEMMA WindowsCalm ==
    ASSUME IInv, IInv', Sights, platform = "windows", UNCHANGED <<platform, sidecar>>, Onward,
           Harmless, ctl'.op = ctl.op, ctl'.repl = ctl.repl,
           ctl'.at \notin Delicate, Proving' => ctl'.ret \notin {"f_tree", "f_term"}
    PROVE  Upheld
BY CalmSights DEF Sights, Expecting

\* Nothing but the controller's place changes, and to one of no consequence.
Plain == {"w_job", "w_snap", "w_verify", "w_late", "w_reap", "w_close", "w_evidence", "w_jobterm",
          "wait", "o_stopped", "j_assign", "j_direct", "j_resume", "j_undo", "j_create"}

LEMMA PlainSights ==
    ASSUME IInv, IInv', Sights, platform = "windows", UNCHANGED <<platform, sidecar>>, Onward,
           Harmless, NEW l \in Plain, ctl' = Goto(l) \/ ctl' = Verify(ctl, "w_job")
    PROVE  Upheld
<1>1. l \in Labels /\ "w_job" \in Labels
  BY LabelsKnown DEF Plain, StopsJob, StopsExternal, StopsPredecessor, Outside, Owns
<1>2. Alike(ctl, ctl') /\ (ctl'.at = l \/ (ctl'.at = "verify" /\ ctl'.ret = "w_job"))
  BY <1>1, Basics, GotoAlike, VerifyAlike DEF Goto
<1>3. ctl'.at \notin Delicate /\ (Proving' => ctl'.ret \notin {"f_tree", "f_term"})
  BY <1>2 DEF Plain, Delicate, Aims, Stopping, StopsOnLinux, Passes, Proving
<1>. QED BY <1>2, <1>3, WindowsCalm DEF Alike

\* Where the invariant tells what the controller was asked to do.
LEMMA WindowsOp ==
    ASSUME IInv, platform = "windows"
    PROVE  /\ ctl.at \in Owns => ctl.op = "loss"
           /\ ctl.at \in StopsJob \cup {"w_finalize", "w_evidence"} => ctl.op \in {"finalize", "undo"}
           /\ ctl.at \in StopsExternal \cup {"terminate"} => ctl.op \in {"loss", "outer"}
           /\ ctl.at \in Owns \cup StopsJob \cup StopsExternal \cup {"w_finalize", "w_evidence"} =>
                 Where # "create"
BY Basics, LossGoesOn, JobStopped DEF IInv, Places, Where, StopsPredecessor, StopsExternal,
   Restarts, Owns, StopsJob, StopsOnLinux, StopsOnMac, Ended, Outside

\* An exception on Windows.
LEMMA WindowsRaise ==
    ASSUME IInv, IInv', Sights, platform = "windows", UNCHANGED <<platform, sidecar>>, Onward,
           Harmless, ctl.at \in Owns \cup StopsJob \cup {"w_finalize", "w_evidence"},
           ctl' = Raise(ctl)
    PROVE  Upheld
<1>1. ctl.op \notin {"none", "gone"} /\ Where # "create"
  BY WindowsOp DEF Owns, StopsJob
<1>. QED BY <1>1, Basics, RaiseSights

LEMMA PlaceSights ==
    ASSUME IInv, IInv', Sights, UNCHANGED after,
           \/ TerminateOnWindows \/ VerifyTreeGone \/ LeaderOnly \/ ReapLeader
           \/ TerminatedReplacement \/ FinalizeWindows \/ StopScriptStops
           \/ CreateJob \/ TerminateJob \/ ProveJobEmpty
    PROVE  Upheld
<1>1. platform = "windows" /\ UNCHANGED <<platform, proc, sidecar>>
  BY DEF TerminateOnWindows, VerifyTreeGone, LeaderOnly, ReapLeader, TerminatedReplacement,
         FinalizeWindows, StopScriptStops, CreateJob, TerminateJob, ProveJobEmpty, WindowsAt,
         Watch, JobVars
<1>2. Onward BY <1>1, SameTable DEF Sights
<1>3. Harmless
  <2>1. CASE StopScriptStops
    <3>1. ctl.at = "w_stop" /\ Signal(Listing(ctl.pid)) BY <2>1 DEF StopScriptStops, WindowsAt
    <3>2. Clear(ctl.pid) BY <3>1 DEF Sights, Targets, Aims
    <3>. QED BY <3>1, <3>2, ListingHarmless DEF Sights
  <2>2. CASE UNCHANGED harmed BY <2>2, <1>1, QuietStays
  <2>. QED
    BY <2>1, <2>2 DEF TerminateOnWindows, VerifyTreeGone, LeaderOnly, ReapLeader,
       TerminatedReplacement, FinalizeWindows, CreateJob, TerminateJob, ProveJobEmpty,
       Watch, JobVars
<1>4. \/ \E l \in Plain : ctl' = Goto(l) \/ ctl' = Verify(ctl, "w_job")
      \/ ctl.at \in StopsJob \cup {"w_finalize", "w_evidence"} /\ ctl' = Raise(ctl)
  <2>1. CASE TerminateOnWindows BY <2>1 DEF TerminateOnWindows, Plain
  <2>2. CASE VerifyTreeGone BY <2>2 DEF VerifyTreeGone, Plain
  <2>3. CASE LeaderOnly BY <2>3 DEF LeaderOnly, WindowsAt, StopsJob
  <2>4. CASE ReapLeader BY <2>4 DEF ReapLeader, Plain
  <2>5. CASE TerminatedReplacement
    BY <2>5 DEF TerminatedReplacement, WindowsAt, StopsJob, Plain
  <2>6. CASE FinalizeWindows
    <3>1. \/ ctl' = Goto("w_job") \/ ctl' = Verify(ctl, "w_job") \/ ctl' = Goto("w_evidence")
          \/ ctl' = Raise(ctl)
      BY <2>6, Basics DEF FinalizeWindows
    <3>2. ctl.at = "w_finalize" BY <2>6 DEF FinalizeWindows, WindowsAt
    <3>. QED BY <3>1, <3>2 DEF Plain
  <2>7. CASE StopScriptStops BY <2>7 DEF StopScriptStops, Plain
  <2>8. CASE CreateJob BY <2>8 DEF CreateJob, Plain
  <2>9. CASE TerminateJob BY <2>9 DEF TerminateJob, Plain
  <2>10. CASE ProveJobEmpty BY <2>10 DEF ProveJobEmpty, Plain
  <2>. QED BY <2>1, <2>2, <2>3, <2>4, <2>5, <2>6, <2>7, <2>8, <2>9, <2>10
<1>. QED BY <1>1, <1>2, <1>3, <1>4, PlainSights, WindowsRaise

LEMMA FinalizeEvidenceSights ==
    ASSUME IInv, IInv', Sights, FinalizeEvidence, UNCHANGED after
    PROVE  Upheld
<1>1. /\ platform = "windows" /\ ctl.at = "w_evidence" /\ UNCHANGED <<platform, proc, sidecar, harmed>>
      /\ ctl' = Cleaned(ctl) \/ ctl' = Raise(ctl)
  BY DEF FinalizeEvidence, WindowsAt, Watch
<1>2. Onward /\ Harmless BY <1>1, QuietStays
<1>3. ctl.op = "finalize" BY <1>1, JobStopped DEF StopsJob
<1>. QED BY <1>1, <1>2, <1>3, CleanedSights, WindowsRaise

LEMMA PopenedSights ==
    ASSUME IInv, IInv', Sights, Popened, UNCHANGED after
    PROVE  Upheld
<1>1. /\ platform = "windows" /\ ctl.at = "popened" /\ UNCHANGED <<platform, proc, sidecar, harmed>>
      /\ ctl' = Launched(proc[Replacement].pid) \/ ctl' = Raise(ctl)
  BY DEF Popened, WindowsAt, Watch
<1>2. Onward /\ Harmless BY <1>1, QuietStays
<1>3. proc[Replacement].pid \in Nat
  BY Numbers DEF IInv, TypeOK, HostTypeOK, Processes
<1>4. ctl.op = "loss" BY <1>1, WindowsOp DEF Owns
<1>. QED BY <1>1, <1>2, <1>3, <1>4, LaunchedSights, WindowsRaise DEF Owns

LEMMA SnapshotSights ==
    ASSUME IInv, IInv', Sights, SnapshotTree \/ LateDescendants, UNCHANGED after
    PROVE  Upheld
<1>1. /\ platform = "windows" /\ UNCHANGED <<platform, proc, sidecar, harmed>>
  BY DEF SnapshotTree, LateDescendants, WindowsAt, Watch
<1>2. Onward /\ Harmless BY <1>1, QuietStays
<1>3. CASE SnapshotTree
  <2>. DEFINE a == [ctl EXCEPT !.known = {ctl.init} \cup TreeOfPid(ctl.pid)]
  <2>1. ctl' = Verify(a, "w_check") BY <1>3 DEF SnapshotTree
  <2>2. {ctl.init} \cup TreeOfPid(ctl.pid) \subseteq Procs
    <3>1. ctl.init \in Procs BY <1>3, HolderListed DEF SnapshotTree
    <3>. QED BY <3>1 DEF TreeOfPid, ChildrenOfPid
  <2>3. a \in Controllers /\ Keeps(ctl, a)
    BY <2>2, Basics DEF Controllers, Keeps
  <2>. HIDE DEF a
  <2>4. Alike(a, ctl') /\ ctl'.at = "verify" /\ ctl'.ret = "w_check"
    BY <2>1, <2>3, LabelsKnown, VerifyAlike DEF StopsExternal
  <2>5. ctl'.at \notin Delicate BY <2>4 DEF Delicate, Aims, Stopping, StopsOnLinux, Passes
  <2>. QED BY <1>1, <1>2, <2>3, <2>4, <2>5, WindowsCalm DEF Alike, Keeps
<1>4. CASE LateDescendants
  <2>. DEFINE a == Goto("wait")
  <2>1. ctl' = Goto("o_stopped") \/ ctl' = [a EXCEPT !.known = {}]
    BY <1>4 DEF LateDescendants
  <2>2. CASE ctl' = Goto("o_stopped") BY <1>1, <1>2, <2>2, PlainSights DEF Plain
  <2>3. CASE ctl' = [a EXCEPT !.known = {}]
    <3>1. Alike(ctl, a) /\ a.at = "wait" /\ a \in Controllers
      BY Basics, LabelsKnown, GotoAlike, AtChanges DEF Goto, StopsPredecessor, Same
    <3>. HIDE DEF a
    <3>2. Keeps(ctl, ctl') /\ ctl'.at = "wait"
      BY <2>3, <3>1 DEF Alike, Controllers, Keeps
    <3>3. ctl'.at \notin Delicate /\ ~Proving'
      BY <3>2 DEF Delicate, Aims, Stopping, StopsOnLinux, Passes, Proving
    <3>. QED BY <1>1, <1>2, <3>2, <3>3, WindowsCalm DEF Keeps
  <2>. QED BY <2>1, <2>2, <2>3
<1>. QED BY <1>3, <1>4

LEMMA StopScriptSights ==
    ASSUME IInv, IInv', Sights, StopScriptChecks, UNCHANGED after
    PROVE  Upheld
<1>1. /\ platform = "windows" /\ ctl.at = "w_check" /\ UNCHANGED <<platform, proc, sidecar, harmed>>
      /\ Holder(ctl.pid) = ctl.obs /\ ctl' = Goto("w_stop")
  BY DEF StopScriptChecks, WindowsAt
<1>2. ctl.obs \in Services BY <1>1 DEF Sights, Expecting
<1>3. Listed(ctl.obs) /\ proc[ctl.obs].pid = ctl.pid /\ ctl.obs \in Procs
  BY <1>1, <1>2, HolderListed, Numbers
<1>4. ctl.obs \in Rooted BY <1>2, <1>3 DEF Sights, Table, Listed, Exists
<1>5. Alike(ctl, ctl') /\ ctl'.at = "w_stop"
  BY <1>1, Basics, LabelsKnown, GotoAlike DEF Goto, StopsExternal
<1>6. Onward /\ Harmless BY <1>1, QuietStays
<1>7. Clear(ctl.pid)'
  <2>1. \A r \in Rooted : Listed(r) => Clear(proc[r].pid)' BY <1>1, ProofClears DEF Sights
  <2>2. PICK r \in Rooted : Listed(r) /\ proc[r].pid = ctl.pid BY <1>3, <1>4
  <2>3. Clear(proc[r].pid)' BY <2>1, <2>2
  <2>. QED BY <1>1, <1>5, <2>2, <2>3 DEF Alike
<1>8. Targets' /\ TreeIsOwn' /\ GroupIsOwn'
  BY <1>5, <1>7 DEF Targets, TreeIsOwn, GroupIsOwn, Aims, Passes, Stopping, StopsOnLinux, Proving
<1>9. /\ ctl'.op = "outer" => sidecar' # Pending
      /\ ctl'.op \in {"gone", "outer"} => ctl'.repl = Nobody
  BY <1>1, <1>5 DEF Sights, Expecting, Alike
<1>. QED BY <1>1, <1>5, <1>6, <1>8, <1>9, SightsStep DEF Proving

\* The process is suspended, put into its job and resumed.
LEMMA CreateSuspendedSights ==
    ASSUME IInv, IInv', Sights, CreateSuspended, UNCHANGED after
    PROVE  Upheld
<1>1. PICK n \in {Initial, Replacement} :
         Free(n) /\ proc' = [proc EXCEPT ![Replacement] = Newborn("suspended", n, n, FALSE)]
  BY DEF CreateSuspended
<1>2. /\ ctl.at = "launch" /\ platform = "windows" /\ UNCHANGED <<platform, harmed, sidecar>>
      /\ ctl' = Goto("j_create")
  BY DEF CreateSuspended, WindowsAt
<1>3. n \in Nat BY Numbers
<1>4. Onward BY <1>1, <1>2, <1>3, ReplacementJoins DEF POSIX
<1>5. Harmless BY <1>2, Unharmed DEF Sights
<1>. QED BY <1>2, <1>4, <1>5, PlainSights DEF Plain

\* What a step on the way changes of the replacement.
LEMMA ReplacementOnward ==
    ASSUME IInv, Sights, UNCHANGED platform, Exists(Replacement),
           \/ proc' = [proc EXCEPT ![Replacement].job = TRUE]
           \/ /\ proc[Replacement].st = "suspended"
              /\ proc' = [proc EXCEPT ![Replacement].st = "live"]
           \/ proc' = [proc EXCEPT ![Replacement].st = "gone"]
    PROVE  Onward
<1>. Replacement \in Procs BY Numbers
<1>1. Table /\ proc \in [Procs -> Processes] BY DEF Sights, IInv, TypeOK, HostTypeOK
<1>2. \A p \in Procs : p # Replacement => proc'[p] = proc[p] BY <1>1
<1>3. /\ proc'[Replacement].pid = proc[Replacement].pid
      /\ proc'[Replacement].group = proc[Replacement].group
      /\ proc'[Replacement].root = proc[Replacement].root
      /\ proc'[Replacement].parent = proc[Replacement].parent
      /\ \/ proc'[Replacement].st = proc[Replacement].st
         \/ proc[Replacement].st = "suspended" /\ proc'[Replacement].st = "live"
         \/ proc'[Replacement].st = "gone"
  BY <1>1 DEF Processes
<1>4. Exists(Replacement)' /\ (Listed(Replacement)' => Listed(Replacement))
  BY <1>3 DEF Exists, Listed
<1>. QED BY <1>1, <1>2, <1>3, <1>4, ThinTable DEF Exists, Listed

LEMMA JobSights ==
    ASSUME IInv, IInv', Sights, UNCHANGED after,
           AssignJob \/ Resume \/ UndoJob \/ TerminateUnassigned
    PROVE  Upheld
<1>1. platform = "windows" /\ ctl.at \in Owns /\ UNCHANGED <<platform, sidecar, harmed>>
  BY DEF AssignJob, Resume, UndoJob, TerminateUnassigned, WindowsAt, JobVars, Owns
<1>2. Exists(Replacement) BY <1>1 DEF IInv, Recorded, Where, Owns
<1>3. Harmless BY <1>1, Unharmed DEF Sights
<1>4. Onward
  <2>1. CASE UNCHANGED proc BY <1>1, <2>1, SameTable DEF Sights
  <2>2. CASE proc' = Closed(proc) BY <1>1, <2>2, ClosedOnward
  <2>3. CASE \/ proc' = [proc EXCEPT ![Replacement].job = TRUE]
             \/ /\ proc[Replacement].st = "suspended"
                /\ proc' = [proc EXCEPT ![Replacement].st = "live"]
             \/ proc' = [proc EXCEPT ![Replacement].st = "gone"]
    BY <1>1, <1>2, <2>3, ReplacementOnward
  <2>. QED BY <2>1, <2>2, <2>3 DEF AssignJob, Resume, UndoJob, TerminateUnassigned
<1>5. CASE ctl' = Raise(ctl) BY <1>1, <1>3, <1>4, <1>5, WindowsRaise
<1>6. CASE \E l \in Plain : ctl' = Goto(l) BY <1>1, <1>3, <1>4, <1>6, PlainSights
<1>7. CASE ctl' = [Goto("popened") EXCEPT !.handle = TRUE]
  <2>. DEFINE a == Goto("popened")
  <2>1. Alike(ctl, a) /\ a.at = "popened" /\ a \in Controllers
    BY Basics, LabelsKnown, GotoAlike, AtChanges DEF Goto, Owns, Same
  <2>2. ctl' = [a EXCEPT !.handle = TRUE] BY <1>7
  <2>. HIDE DEF a
  <2>3. Keeps(ctl, ctl') /\ ctl'.at = "popened"
    BY <2>1, <2>2 DEF Alike, Controllers, Keeps
  <2>4. ctl'.at \notin Delicate /\ ~Proving'
    BY <2>3 DEF Delicate, Aims, Stopping, StopsOnLinux, Passes, Proving
  <2>. QED BY <1>1, <1>3, <1>4, <2>3, <2>4, WindowsCalm DEF Keeps
<1>. QED BY <1>5, <1>6, <1>7 DEF AssignJob, Resume, UndoJob, TerminateUnassigned, Plain

LEMMA CloseJobSights ==
    ASSUME IInv, IInv', Sights, CloseJob, UNCHANGED after
    PROVE  Upheld
<1>1. /\ platform = "windows" /\ ctl.at = "w_close" /\ UNCHANGED <<platform, sidecar, harmed>>
      /\ proc' = Closed(proc) \/ UNCHANGED proc
      /\ \/ ctl' = [ctl EXCEPT !.handle = FALSE, !.proven = TRUE, !.at = "w_closed"]
         \/ ctl' = Raise(ctl)
  BY DEF CloseJob, WindowsAt, JobVars
<1>2. Onward BY <1>1, ClosedOnward, SameTable DEF Sights
<1>3. Harmless BY <1>1, Unharmed DEF Sights
<1>4. CASE ctl' = [ctl EXCEPT !.handle = FALSE, !.proven = TRUE, !.at = "w_closed"]
  <2>1. Keeps(ctl, ctl') /\ ctl'.at = "w_closed" BY <1>4, Basics DEF Controllers, Keeps
  <2>2. ctl'.at \notin Delicate /\ ~Proving'
    BY <2>1 DEF Delicate, Aims, Stopping, StopsOnLinux, Passes, Proving
  <2>. QED BY <1>1, <1>2, <1>3, <2>1, <2>2, WindowsCalm DEF Keeps
<1>. QED BY <1>1, <1>2, <1>3, <1>4, WindowsRaise DEF StopsJob

LEMMA WindowsNextSights ==
    ASSUME IInv, IInv', Sights, WindowsNext, UNCHANGED after
    PROVE  Upheld
BY PlaceSights, FinalizeEvidenceSights, PopenedSights, SnapshotSights, StopScriptSights,
   CreateSuspendedSights, JobSights, CloseJobSights
   DEF WindowsNext, JobNext

-----------------------------------------------------------------------------
\* The cleanup after the lane.

LEMMA CleanupCalm ==
    ASSUME IInv, IInv', Sights, ctl.op \in {"gone", "outer"}, UNCHANGED <<platform, proc, sidecar>>,
           Harmless, NEW l \in {"o_live", "o_id", "o_id2", "o_stop", "o_stop2", "o_children",
                                    "r_probe", "r_decide", "r_verify", "done"},
           ctl' = Goto(l)
    PROVE  Upheld
<1>1. l \in Labels BY LabelsKnown DEF Outside, Ended
<1>2. Alike(ctl, ctl') /\ ctl'.at = l BY <1>1, Basics, GotoAlike DEF Goto
<1>3. ctl'.at \notin Delicate /\ ~Proving' /\ ~Unrestarted'
  BY <1>2 DEF Alike, Delicate, Aims, Stopping, StopsOnLinux, Passes, Proving, Unrestarted
<1>. QED BY <1>2, <1>3, MoveSights DEF Alike

LEMMA NextCalm ==
    ASSUME IInv, IInv', Sights, ctl.op \in {"gone", "outer"}, UNCHANGED <<platform, proc, sidecar>>,
           Harmless, NEW v, Next3(v)
    PROVE  Upheld
BY CleanupCalm DEF Next3

\* A signal is next: the process the sidecar names was met under its number.
LEMMA AimSights ==
    ASSUME IInv, IInv', Sights, ctl.op = "outer", UNCHANGED <<platform, proc, sidecar, harmed>>,
           Holder(ctl.pid) = Target, Target \in Services,
           NEW l \in {"o_term", "o_kill", "o_leader"}, ctl' = Goto(l)
    PROVE  Upheld
<1>1. l \in Labels BY LabelsKnown DEF Outside
<1>2. Alike(ctl, ctl') /\ ctl'.at = l BY <1>1, Basics, GotoAlike DEF Goto
<1>3. Target \in Procs /\ Listed(Target) /\ proc[Target].pid = ctl.pid
  BY HolderListed, Numbers
<1>4. Target \in Rooted BY <1>3 DEF Sights, Table, Listed, Exists
<1>5. Onward /\ Harmless BY QuietStays
<1>6. Clear(ctl.pid)'
  <2>1. \A r \in Rooted : Listed(r) => Clear(proc[r].pid)' BY ProofClears DEF Sights
  <2>2. PICK r \in Rooted : Listed(r) /\ proc[r].pid = ctl.pid BY <1>3, <1>4
  <2>3. Clear(proc[r].pid)' BY <2>1, <2>2
  <2>. QED BY <1>2, <2>2, <2>3 DEF Alike
<1>7. Targets' /\ TreeIsOwn' /\ GroupIsOwn'
  BY <1>2, <1>6 DEF Targets, TreeIsOwn, GroupIsOwn, Aims, Passes, Stopping, StopsOnLinux, Proving
<1>8. ~Proving' /\ ~Unrestarted' BY <1>2 DEF Proving, Unrestarted, Alike
<1>9. ctl'.repl = Nobody /\ sidecar' # Pending /\ ctl'.op = "outer"
  BY <1>2 DEF Sights, Expecting, Alike
<1>. QED BY <1>2, <1>5, <1>7, <1>8, <1>9, SightsStep DEF Alike, Remembers

\* On macOS and Windows the sidecar names a service or nobody.
LEMMA TargetIsService ==
    ASSUME IInv, Sights, ctl.op = "outer", platform # "linux"
    PROVE  Target \in Services
BY DEF IInv, Recorded, Sights, Expecting, Target

LEMMA ReadSidecarSights ==
    ASSUME IInv, IInv', Sights, ReadSidecar
    PROVE  Upheld
<1>1. ctl.at = "o_read" /\ UNCHANGED <<platform, proc, sidecar, harmed>>
  BY DEF ReadSidecar, Quiet
<1>2. ctl.op = "gone"
  BY <1>1, Basics DEF IInv, Places, Where, StopsPredecessor, StopsExternal, Restarts, Owns,
                      StopsJob, StopsOnLinux, StopsOnMac, Ended, Outside
<1>3. Onward /\ Harmless BY <1>1, QuietStays
<1>4. CASE Target = Pending /\ Next3("failed") BY <1>1, <1>2, <1>3, <1>4, NextCalm
<1>5. CASE /\ Target # Pending
           /\ ctl' = [ctl EXCEPT !.op = "outer", !.pid = proc[Target].pid, !.init = Target,
                        !.at = IF platform = "windows" THEN "verify" ELSE "o_live",
                        !.ret = IF platform = "windows" THEN "w_snap" ELSE "o_live"]
  <2>. DEFINE there == IF platform = "windows" THEN "verify" ELSE "o_live"
              back == IF platform = "windows" THEN "w_snap" ELSE "o_live"
              a == [ctl EXCEPT !.op = "outer", !.pid = proc[Target].pid, !.init = Target]
  <2>1. /\ there \in {"verify", "o_live"} /\ back \in {"w_snap", "o_live"}
        /\ ctl' = [a EXCEPT !.at = there, !.ret = back]
    BY <1>5
  <2>2. Target \in Procs /\ proc[Target].pid \in Nat
    BY <1>5, Numbers DEF Target, IInv, TypeOK, HostTypeOK, Processes
  <2>3. a \in Controllers /\ a.op = "outer" /\ a.repl = ctl.repl
    BY <2>2, Basics DEF Controllers
  <2>. HIDE DEF a, there, back
  <2>4. ctl'.at = there /\ ctl'.ret = back /\ ctl'.op = "outer" /\ ctl'.repl = ctl.repl
    BY <2>1, <2>3 DEF Controllers
  <2>5. ctl.repl = Nobody BY <1>2 DEF Sights, Expecting
  <2>6. /\ ctl'.at \notin Delicate /\ ~Unrestarted'
        /\ Proving' => ctl'.ret \notin {"f_tree", "f_term"}
    BY <2>1, <2>4 DEF Delicate, Aims, Stopping, StopsOnLinux, Passes, Proving, Unrestarted
  <2>7. sidecar' # Pending BY <1>1, <1>5 DEF Target
  <2>. QED BY <1>1, <1>3, <2>4, <2>5, <2>6, <2>7, CalmSights DEF Remembers
<1>. QED BY <1>4, <1>5 DEF ReadSidecar

\* At these places the cleanup has a sidecar that names somebody.
LEMMA OutsideOp ==
    ASSUME IInv,
           ctl.at \in {"o_live", "o_id", "o_id2", "o_term", "o_kill", "o_stop", "o_stop2",
                       "o_children", "o_stopped", "o_fallback", "o_leader"}
    PROVE  ctl.op = "outer"
BY Basics DEF IInv, Places, Where, StopsPredecessor, StopsExternal, Restarts, Owns,
   StopsJob, StopsOnLinux, StopsOnMac, Ended, Outside

LEMMA LookSights ==
    ASSUME IInv, IInv', Sights, LookForService \/ AwaitStop
    PROVE  Upheld
<1>1. /\ ctl.at \in {"o_live", "o_stop", "o_stop2"} /\ UNCHANGED <<platform, proc, sidecar, harmed>>
  BY DEF LookForService, AwaitStop, Quiet
<1>2. ctl.op = "outer" BY <1>1, OutsideOp
<1>3. Harmless BY <1>1, QuietStays
<1>4. \/ \E v \in {"ok", "failed"} : Next3(v)
      \/ ctl' \in {Goto("done"), Goto("o_id"), Goto("o_children"), Goto("o_id2")}
      \/ /\ platform = "macos" /\ Holder(ctl.pid) = Target
         /\ ctl' = Goto("o_term") \/ ctl' = Goto("o_kill")
  BY DEF LookForService, AwaitStop
<1>5. CASE /\ platform = "macos" /\ Holder(ctl.pid) = Target
           /\ ctl' = Goto("o_term") \/ ctl' = Goto("o_kill")
  BY <1>1, <1>2, <1>5, TargetIsService, AimSights
<1>. QED BY <1>1, <1>2, <1>3, <1>4, <1>5, NextCalm, CleanupCalm

LEMMA MatchSights ==
    ASSUME IInv, IInv', Sights, MatchIdentity
    PROVE  Upheld
<1>1. /\ ctl.at \in {"o_id", "o_id2"} /\ UNCHANGED <<platform, proc, sidecar, harmed>>
      /\ \/ /\ Holder(ctl.pid) = Target /\ Target \in Services
            /\ ctl' \in {Goto("o_term"), Goto("o_kill")}
         \/ Next3("failed")
  BY DEF MatchIdentity, Quiet
<1>2. ctl.op = "outer" BY <1>1, OutsideOp
<1>3. Harmless BY <1>1, QuietStays
<1>. QED BY <1>1, <1>2, <1>3, NextCalm, AimSights

LEMMA SignalSights ==
    ASSUME IInv, IInv', Sights, SignalService \/ StopLeader
    PROVE  Upheld
<1>1. /\ ctl.at \in {"o_term", "o_kill", "o_leader"} /\ UNCHANGED <<platform, proc, sidecar>>
      /\ Signal(Listing(ctl.pid)) \/ UNCHANGED harmed
      /\ Next3("failed") \/ ctl' \in {Goto("o_stop"), Goto("o_stop2")}
  BY DEF SignalService, StopLeader
<1>2. ctl.op = "outer" BY <1>1, OutsideOp
<1>3. Harmless
  <2>1. Clear(ctl.pid) BY <1>1 DEF Sights, Targets, Aims
  <2>. QED BY <1>1, <2>1, ListingHarmless, Unharmed DEF Sights
<1>. QED BY <1>1, <1>2, <1>3, NextCalm, CleanupCalm

LEMMA FallbackSights ==
    ASSUME IInv, IInv', Sights, CountChildren \/ WindowsStopped \/ Fallback
    PROVE  Upheld
<1>1. /\ ctl.at \in {"o_children", "o_stopped", "o_fallback"}
      /\ UNCHANGED <<platform, proc, sidecar, harmed>>
  BY DEF CountChildren, WindowsStopped, Fallback, Quiet
<1>2. ctl.op = "outer" BY <1>1, OutsideOp
<1>3. Harmless BY <1>1, QuietStays
<1>4. CASE Fallback /\ Holder(ctl.pid) = Target /\ ctl' = Goto("o_leader")
  <2>1. platform = "windows" BY <1>4 DEF Fallback, Sights, Expecting
  <2>. QED BY <1>1, <1>2, <1>4, <2>1, TargetIsService, AimSights
<1>5. CASE \E v \in {"ok", "failed"} : Next3(v) BY <1>1, <1>2, <1>3, <1>5, NextCalm
<1>. QED BY <1>4, <1>5 DEF CountChildren, WindowsStopped, Fallback

LEMMA RouteSights ==
    ASSUME IInv, IInv', Sights, ServiceIsDead \/ Restore \/ VerifyRoute
    PROVE  Upheld
<1>1. /\ ctl.at \in {"r_probe", "r_decide", "r_verify"} /\ UNCHANGED <<platform, proc, sidecar, harmed>>
      /\ ctl' \in {Goto("r_decide"), Goto("r_verify"), Goto("done")}
  BY DEF ServiceIsDead, Restore, VerifyRoute, RouteFails, Quiet
<1>2. ctl.op \in {"gone", "outer"}
  BY <1>1, Basics DEF IInv, Places, Where, StopsPredecessor, StopsExternal, Restarts, Owns,
                      StopsJob, StopsOnLinux, StopsOnMac, Ended, Outside
<1>3. Harmless BY <1>1, QuietStays
<1>. QED BY <1>1, <1>2, <1>3, CleanupCalm

LEMMA CleanupNextSights ==
    ASSUME IInv, IInv', Sights, CleanupNext
    PROVE  Upheld
BY ReadSidecarSights, LookSights, MatchSights, SignalSights, FallbackSights, RouteSights
   DEF CleanupNext

-----------------------------------------------------------------------------
\* The machine, which runs on between any two steps of the controller.

LEMMA MachineKeeps ==
    ASSUME IInv, Sights, Onward, Noted, UNCHANGED <<ctl, platform, sidecar, harmed>>
    PROVE  Upheld
<1>. USE DEF Sights
<1>1. /\ Rooted \subseteq Rooted'
      /\ \A n : Clear(n) => Clear(n)'
      /\ \A g : ClearGroup(g) => ClearGroup(g)'
      /\ \A p \in Rooted : proc'[p].pid = proc[p].pid /\ proc'[p].group = proc[p].group
  BY ClearStays
<1>2. \A s \in Services : Exists(s) => s \in Rooted BY DEF Table
<1>3. ctl.repl \in Services /\ Exists(Replacement) => ctl.repl \in Rooted
  BY <1>2, Numbers DEF IInv, Single
<1>4. Targets'
  <2>1. ctl'.at \in Aims => Clear(ctl.pid)' BY <1>1 DEF Targets
  <2>2. ASSUME ctl.at \in {"f_term", "f_group"} PROVE ClearGroup(proc[ctl.repl].group)'
    <3>1. ctl.repl \in Services /\ ctl.repl # Nobody
      BY <2>2, Numbers DEF TreeIsOwn, Stopping, StopsOnLinux
    <3>2. platform = "linux"
      BY <2>2, Basics DEF IInv, Places, Where, StopsPredecessor, StopsExternal, Restarts, Owns,
                          StopsJob, StopsOnMac, Ended, Outside
    <3>3. ctl.repl \in Rooted BY <1>3, <3>1, <3>2 DEF Expecting, Committed
    <3>4. ClearGroup(proc[ctl.repl].group) BY <2>2 DEF Targets
    <3>. QED BY <1>1, <3>3, <3>4
  <2>3. ASSUME ctl.at = "f_kill"
        PROVE  ctl'.obs \in Rooted' /\ Clear(proc[ctl.obs].pid)'
    <3>1. ctl.obs \in Rooted /\ Clear(proc[ctl.obs].pid) BY <2>3 DEF Targets
    <3>. QED BY <1>1, <3>1
  <2>4. ASSUME ctl.at = "m_kill" PROVE Aimed(ctl.obs)'
    <3>1. Aimed(ctl.obs) BY <2>4 DEF Targets
    <3>2. ctl.taken \subseteq Procs BY Basics DEF Controllers
    <3>3. PICK p \in Procs : p = ctl.obs BY <3>1, <3>2 DEF Aimed, Own, Rooted
    <3>4. Aimed(p)' BY <3>1, <3>3, OwnStays
    <3>. QED BY <3>3, <3>4 DEF Aimed
  <2>. QED BY <2>1, <2>2, <2>3, <2>4 DEF Targets
<1>5. TreeIsOwn' BY <1>1 DEF TreeIsOwn, Proving
<1>6. GroupIsOwn'
  <2>1. ctl.known \subseteq Procs /\ ctl.listed \subseteq Procs BY Basics DEF Controllers
  <2>. QED BY <2>1, OwnStays DEF GroupIsOwn
<1>7. ASSUME platform = "linux" PROVE Committed'
  <2>1. Committed BY <1>7 DEF Expecting
  <2>2. Exists(Replacement) => \A s \in Services : Exists(s) BY Numbers DEF IInv, Single
  <2>3. Exists(Replacement) => Exists(Replacement)' BY Numbers DEF Onward
  <2>4. \A p : Exists(Replacement) /\ Foreign(p) => Foreign(p)'
    BY <2>2, Numbers DEF Onward, Foreign
  <2>. QED BY <2>1, <2>3, <2>4 DEF Committed, Unrestarted, Where, Expected, Foreign
<1>8. Expecting' BY <1>7 DEF Expecting, Proving
<1>. QED BY <1>4, <1>5, <1>6, <1>8, Unharmed DEF Upheld, Onward

LEMMA ExitSights ==
    ASSUME IInv, Sights, UNCHANGED <<ctl, platform, born, harmed, sidecar>>,
           NEW p \in Procs, Exit(p) \/ Collected(p)
    PROVE  Upheld
<1>1. Table /\ proc \in [Procs -> Processes] BY DEF Sights, IInv, TypeOK, HostTypeOK
<1>2. CASE Exit(p)
  <2>1. PICK st \in {"zombie", "gone"} :
           proc' = [q \in Procs |->
                      IF q = p THEN [proc[p] EXCEPT !.st = st]
                      ELSE IF POSIX /\ proc[q].parent = p
                           THEN [proc[q] EXCEPT !.parent = Nobody]
                           ELSE proc[q]]
    BY <1>2 DEF Exit
  <2>2. Live(p) BY <1>2 DEF Exit
  <2>3. /\ proc'[p] = [proc[p] EXCEPT !.st = st]
        /\ \A q \in Procs : q # p => \/ proc'[q] = proc[q]
                                     \/ /\ proc[q].parent = p
                                        /\ proc'[q] = [proc[q] EXCEPT !.parent = Nobody]
    BY <2>1
  <2>4. /\ proc'[p].st = st /\ proc'[p].pid = proc[p].pid /\ proc'[p].group = proc[p].group
        /\ proc'[p].root = proc[p].root /\ proc'[p].parent = proc[p].parent
    BY <1>1, <2>3 DEF Processes
  <2>5. \A q \in Procs : q # p =>
           /\ proc'[q].st = proc[q].st /\ proc'[q].pid = proc[q].pid
           /\ proc'[q].group = proc[q].group /\ proc'[q].root = proc[q].root
           /\ proc'[q].parent \in {proc[q].parent, Nobody}
    <3>. SUFFICES ASSUME NEW q \in Procs, q # p
                  PROVE  /\ proc'[q].st = proc[q].st /\ proc'[q].pid = proc[q].pid
                         /\ proc'[q].group = proc[q].group /\ proc'[q].root = proc[q].root
                         /\ proc'[q].parent \in {proc[q].parent, Nobody}
      OBVIOUS
    <3>1. CASE proc'[q] = proc[q] BY <3>1
    <3>2. CASE proc'[q] = [proc[q] EXCEPT !.parent = Nobody]
      <4>1. proc[q] \in Processes BY <1>1
      <4>. QED BY <3>2, <4>1 DEF Processes
    <3>. QED BY <2>3, <3>1, <3>2
  <2>6. \A q \in Procs : ~Exists(q) => q # p /\ proc'[q] = proc[q]
    <3>1. NoProcess.parent = Nobody /\ NoProcess.st = "unborn" BY DEF NoProcess
    <3>. QED BY <1>1, <2>2, <2>3, <3>1, Numbers DEF Table, Exists, Live
  <2>. QED BY <1>1, <2>2, <2>4, <2>5, <2>6, ThinTable, MachineKeeps DEF Exists, Listed, Live
<1>3. CASE Collected(p)
  <2>1. proc' = [proc EXCEPT ![p].st = "gone"] /\ proc[p].st = "zombie" BY <1>3 DEF Collected
  <2>2. /\ proc'[p].st = "gone" /\ proc'[p].pid = proc[p].pid /\ proc'[p].group = proc[p].group
        /\ proc'[p].root = proc[p].root /\ proc'[p].parent = proc[p].parent
        /\ \A q \in Procs : q # p => proc'[q] = proc[q]
    BY <1>1, <2>1 DEF Processes
  <2>. QED BY <1>1, <2>1, <2>2, ThinTable, MachineKeeps DEF Exists, Listed
<1>. QED BY <1>2, <1>3

LEMMA ForkSights ==
    ASSUME IInv, Sights, UNCHANGED <<ctl, platform, harmed, sidecar>>,
           NEW p \in Procs, NEW c \in Descendants, Fork(p, c)
    PROVE  Upheld
<1>1. Table /\ proc \in [Procs -> Processes] BY DEF Sights, IInv, TypeOK, HostTypeOK
<1>2. PICK g \in {proc[p].group} \cup (IF POSIX THEN {c} ELSE {}) :
         proc' = [proc EXCEPT ![c] =
                    [st |-> "live", pid |-> c, parent |-> p, group |-> g,
                     root |-> proc[p].root, job |-> proc[p].job]]
  BY DEF Fork
<1>3. /\ Live(p) /\ proc[p].root # Nobody /\ proc[c].st = "unborn" /\ Free(c)
      /\ born' = born \cup {c}
  BY DEF Fork
<1>. DEFINE r == [st |-> "live", pid |-> c, parent |-> p, group |-> g,
                  root |-> proc[p].root, job |-> proc[p].job]
<1>4. /\ r.st = "live" /\ r.pid = c /\ r.root # Nobody /\ r.group = g
      /\ proc' = [proc EXCEPT ![c] = r]
  BY <1>2, <1>3
<1>. HIDE DEF r
<1>5. c \in Procs /\ ~Exists(c) BY <1>3, Numbers DEF Exists
<1>6. POSIX => \A q \in Procs : Listed(q) /\ proc[q].group = r.group =>
                  (q \in Rooted <=> r.root # Nobody)
  <2>1. p \in Rooted /\ Listed(p) BY <1>3 DEF Rooted, Live, Listed
  <2>2. CASE g = proc[p].group BY <1>1, <1>4, <2>1, <2>2 DEF Table, Rooted
  <2>3. CASE POSIX /\ g = c BY <1>3, <1>4, <2>3 DEF Free
  <2>. QED BY <1>2, <2>2, <2>3
<1>7. Onward /\ (born' = born \cup {c} => Noted)
  BY <1>1, <1>3, <1>4, <1>5, <1>6, BirthTable
<1>. QED BY <1>3, <1>7, MachineKeeps

LEMMA StrangerSights ==
    ASSUME IInv, Sights, UNCHANGED <<ctl, platform, harmed, sidecar>>,
           NEW p \in Strangers, NEW n \in Pids, StrangerStarts(p, n)
    PROVE  Upheld
<1>. DEFINE r == [NoProcess EXCEPT !.st = "live", !.pid = n, !.group = n]
<1>1. Table /\ proc \in [Procs -> Processes] BY DEF Sights, IInv, TypeOK, HostTypeOK
<1>2. /\ proc[p].st = "unborn" /\ Free(n) /\ proc' = [proc EXCEPT ![p] = r]
      /\ born' = born \cup {p}
  BY DEF StrangerStarts
<1>3. r.st = "live" /\ r.pid = n /\ r.group = n /\ r.root = Nobody /\ r.parent = Nobody
  BY DEF NoProcess
<1>. HIDE DEF r
<1>4. p \in Procs /\ ~Exists(p) /\ p \notin Services BY <1>2, Numbers DEF Exists
<1>5. POSIX => \A q \in Procs : Listed(q) => proc[q].group # r.group
  BY <1>2, <1>3 DEF Free
<1>6. Onward /\ (born' = born \cup {p} => Noted)
  BY <1>1, <1>2, <1>3, <1>4, <1>5, BirthTable
<1>. QED BY <1>2, <1>6, MachineKeeps

LEMMA MachineSights ==
    ASSUME IInv, Sights, MachineNext
    PROVE  Upheld
<1>1. UNCHANGED ctl BY DEF MachineNext, controlVars
<1>2. ASSUME NEW p \in Procs, Exit(p) \/ Collected(p) PROVE Upheld
  BY <1>1, <1>2, ExitSights DEF Exit, Collected
<1>3. ASSUME NEW p \in Procs, NEW c \in Descendants, Fork(p, c) PROVE Upheld
  BY <1>1, <1>3, ForkSights DEF Fork
<1>4. ASSUME NEW p \in Strangers, NEW n \in Pids, StrangerStarts(p, n) PROVE Upheld
  BY <1>1, <1>4, StrangerSights DEF StrangerStarts
<1>5. ASSUME NEW p \in Services, NEW r \in {"away", "foreign"}, RouteChanges(p, r)
      PROVE  Upheld
  <2>1. UNCHANGED <<platform, proc, born, harmed, sidecar>> BY <1>5 DEF RouteChanges
  <2>. QED BY <1>1, <2>1, SameTable, MachineKeeps DEF Sights
<1>. QED BY <1>2, <1>3, <1>4, <1>5 DEF MachineNext

-----------------------------------------------------------------------------
LEMMA ControlNextSights ==
    ASSUME IInv, IInv', Sights, ControlNext, UNCHANGED after
    PROVE  Upheld
BY CommandFailsSights, ExecutableSights, VerifySights, CreateSights, AdoptSights, LossBeginsSights,
   ScenarioSights, StartBeginsSights, LaunchSights, CommitSights, RestartedSights,
   FinalizeBeginsSights, BaseFinalizeSights, LaneEndsSights
   DEF ControlNext

-----------------------------------------------------------------------------
\* Nobody is dropped from taken.

LEMMA RaiseTaken ==
    ASSUME NEW c, "taken" \in DOMAIN c, c.op \in {"create", "loss", "undo", "finalize", "outer"},
           NEW d, d = Raise(c)
    PROVE  d.taken = c.taken
<1>1. \A e : e = Idle(c) => e.taken = c.taken /\ "taken" \in DOMAIN e BY DEF Idle
<1>2. CASE c.op = "create" BY <1>1, <1>2 DEF Raise
<1>3. CASE c.op = "loss" /\ c.handle BY <1>3 DEF Raise
<1>4. CASE c.op = "undo" \/ (c.op = "loss" /\ ~c.handle) BY <1>1, <1>4 DEF Raise
<1>5. CASE c.op = "finalize" BY <1>1, <1>5 DEF Raise
<1>6. CASE c.op = "outer" BY <1>6 DEF Raise
<1>. QED BY <1>2, <1>3, <1>4, <1>5, <1>6

\* Wherever a command may fail, something was asked for.
LEMMA Asked ==
    ASSUME IInv, ctl.at \in Commands \cup Owns \cup StopsJob \cup {"adopt", "commit"}
    PROVE  ctl.op \in {"create", "loss", "undo", "finalize", "outer"}
BY Basics DEF IInv, Places, Returns, Verified, Where, Commands, Owns, StopsJob, Ended

LEMMA ControlTaken ==
    ASSUME IInv, ControlNext
    PROVE  ctl.taken \subseteq ctl'.taken
<1>. USE Basics DEF Goto, Verify, Controllers
<1>1. CASE CommandFails BY <1>1, Asked, RaiseTaken DEF CommandFails
<1>2. CASE VerifyExecutable BY <1>2 DEF VerifyExecutable
<1>3. CASE VerifyIdentity BY <1>3 DEF VerifyIdentity
<1>4. CASE Create BY <1>4 DEF Create
<1>5. CASE Adopt
  <2>. DEFINE a == [ctl EXCEPT !.init = ctl.obs]
  <2>1. a \in Controllers /\ a.taken = ctl.taken OBVIOUS
  <2>2. ctl.at = "adopt" /\ (ctl' = Idle(a) \/ ctl' = Raise(ctl)) BY <1>5 DEF Adopt
  <2>. HIDE DEF a
  <2>. QED BY <2>1, <2>2, Asked, RaiseTaken, IdleAlike
<1>6. CASE LossBegins BY <1>6 DEF LossBegins
<1>7. CASE VerifyAgain BY <1>7 DEF VerifyAgain
<1>8. CASE KillPredecessor BY <1>8 DEF KillPredecessor
<1>9. CASE WaitDead BY <1>9 DEF WaitDead
<1>10. CASE StartBegins
  <2>. DEFINE a == [ctl EXCEPT !.restarts = @ + 1, !.proven = FALSE]
  <2>1. ctl.at = "start" /\ (ctl' = [a EXCEPT !.at = "launch"] \/ ctl' = Raise(a))
    BY <1>10 DEF StartBegins, Persist
  <2>2. "taken" \in DOMAIN a /\ a.taken = ctl.taken /\ a.op = ctl.op OBVIOUS
  <2>3. ctl.op \in {"create", "loss", "undo", "finalize", "outer"} BY <2>1, Asked DEF Commands
  <2>. HIDE DEF a
  <2>. QED BY <2>1, <2>2, <2>3, RaiseTaken
<1>11. CASE LaunchDetached
  <2>1. PICK n \in {Initial, Replacement} : ctl' \in {Launched(n), Raise(ctl)}
    BY <1>11 DEF LaunchDetached
  <2>2. ctl.op \in {"create", "loss", "undo", "finalize", "outer"}
    BY <1>11, Asked DEF LaunchDetached, Commands
  <2>3. CASE ctl' = Launched(n) BY <2>3 DEF Launched
  <2>4. CASE ctl' = Raise(ctl) BY <2>2, <2>4, RaiseTaken
  <2>. QED BY <2>1, <2>3, <2>4
<1>12. CASE Commit
  <2>. DEFINE a == [ctl EXCEPT !.repl = ctl.obs]
  <2>1. ctl.at = "commit" /\ (ctl' = [a EXCEPT !.at = "pid"] \/ ctl' = Raise(a))
    BY <1>12 DEF Commit, Persist
  <2>2. "taken" \in DOMAIN a /\ a.taken = ctl.taken /\ a.op = ctl.op OBVIOUS
  <2>. HIDE DEF a
  <2>. QED BY <2>1, <2>2, Asked, RaiseTaken
<1>13. CASE WritePid BY <1>13 DEF WritePid
<1>14. CASE Ready BY <1>14 DEF Ready
<1>15. CASE Restarted
  <2>1. PICK i \in Controllers : i = Idle(ctl) BY IdleKeeps
  <2>2. ctl' = [i EXCEPT !.loss = "ok"] BY <1>15, <2>1 DEF Restarted
  <2>. QED BY <2>1, <2>2, IdleAlike
<1>16. CASE FinalizeBegins
  <2>1. PICK i \in Controllers : i = Idle(ctl) BY IdleKeeps
  <2>2. \/ ctl' = [i EXCEPT !.at = "exiting", !.fin = "failed"]
        \/ ctl' = Cleaned(ctl)
        \/ \E l : ctl' = [ctl EXCEPT !.op = "finalize", !.at = l]
    BY <1>16, <2>1 DEF FinalizeBegins
  <2>3. CASE ctl' = [i EXCEPT !.at = "exiting", !.fin = "failed"] BY <2>1, <2>3, IdleAlike
  <2>4. CASE ctl' = Cleaned(ctl) BY <2>4, CleanedAlike
  <2>5. CASE \E l : ctl' = [ctl EXCEPT !.op = "finalize", !.at = l] BY <2>5
  <2>. QED BY <2>2, <2>3, <2>4, <2>5
<1>17. CASE BaseFinalize BY <1>17 DEF BaseFinalize
<1>18. CASE LaneEnds
  <2>1. PICK i \in Controllers : i = Idle(ctl) BY IdleKeeps
  <2>. QED BY <1>18, <2>1, IdleAlike DEF LaneEnds
<1>. QED BY <1>1, <1>2, <1>3, <1>4, <1>5, <1>6, <1>7, <1>8, <1>9, <1>10, <1>11, <1>12, <1>13, <1>14, <1>15, <1>16, <1>17, <1>18 DEF ControlNext

LEMMA LinuxTaken ==
    ASSUME IInv, LinuxNext
    PROVE  ctl.taken \subseteq ctl'.taken
<1>. USE Basics DEF Goto, Verify, Controllers
<1>1. CASE FinalizeLinux BY <1>1 DEF FinalizeLinux
<1>2. CASE ZombieRoot BY <1>2, CleanedAlike DEF ZombieRoot
<1>3. CASE CaptureTree BY <1>3 DEF CaptureTree
<1>4. CASE CaptureAgain BY <1>4 DEF CaptureAgain
<1>5. CASE TermGroup BY <1>5 DEF TermGroup
<1>6. CASE Grace BY <1>6, CleanedAlike DEF Grace
<1>7. CASE Escalate BY <1>7, CleanedAlike DEF Escalate
<1>8. CASE StatSurvivor BY <1>8 DEF StatSurvivor
<1>9. CASE KillSurvivor BY <1>9 DEF KillSurvivor
<1>10. CASE SurvivorsKilled BY <1>10 DEF SurvivorsKilled
<1>11. CASE ProveGroup BY <1>11 DEF ProveGroup
<1>12. CASE KillGroup BY <1>12 DEF KillGroup
<1>13. CASE WaitTree BY <1>13, CleanedAlike DEF WaitTree
<1>. QED BY <1>1, <1>2, <1>3, <1>4, <1>5, <1>6, <1>7, <1>8, <1>9, <1>10, <1>11, <1>12, <1>13 DEF LinuxNext

LEMMA MacTaken ==
    ASSUME IInv, MacNext
    PROVE  ctl.taken \subseteq ctl'.taken
<1>. USE Basics DEF Goto, Verify, Controllers
<1>1. CASE TerminateBegins BY <1>1 DEF TerminateBegins
<1>2. CASE EstablishOwnership BY <1>2 DEF EstablishOwnership
<1>3. CASE ProbeMember BY <1>3 DEF ProbeMember
<1>4. CASE OwnershipProven BY <1>4 DEF OwnershipProven
<1>5. CASE Pass BY <1>5 DEF Pass
<1>6. CASE ProbeCurrent
  <2>1. PICK p \in ctl.listed :
           \/ ctl' = [ctl EXCEPT !.listed = @ \ {p}]
           \/ \E found \in Procs :
                 ctl' = Survives([ctl EXCEPT !.listed = @ \ {p}, !.known = @ \cup {found},
                                             !.taken = @ \cup ({found} \ {p})],
                                 found, proc[p].group = ctl.pid)
    BY <1>6 DEF ProbeCurrent
  <2>2. ASSUME NEW found \in Procs,
               ctl' = Survives([ctl EXCEPT !.listed = @ \ {p}, !.known = @ \cup {found},
                                           !.taken = @ \cup ({found} \ {p})],
                               found, proc[p].group = ctl.pid)
        PROVE  ctl.taken \subseteq ctl'.taken
    <3>. DEFINE c == [ctl EXCEPT !.listed = @ \ {p}, !.known = @ \cup {found},
                                 !.taken = @ \cup ({found} \ {p})]
    <3>1. "taken" \in DOMAIN c /\ ctl.taken \subseteq c.taken OBVIOUS
    <3>2. ctl' = Survives(c, found, proc[p].group = ctl.pid) BY <2>2
    <3>. HIDE DEF c
    <3>3. ctl'.taken = c.taken BY <3>1, <3>2 DEF Survives
    <3>. QED BY <3>1, <3>3
  <2>. QED BY <2>1, <2>2
<1>7. CASE ProbeKnown BY <1>7 DEF ProbeKnown, Survives
<1>8. CASE ProbesEnd BY <1>8 DEF ProbesEnd
<1>9. CASE ProveRoot BY <1>9 DEF ProveRoot
<1>10. CASE KillOwnedGroup BY <1>10 DEF KillOwnedGroup
<1>11. CASE ProveOne BY <1>11 DEF ProveOne
<1>12. CASE KillOne BY <1>12 DEF KillOne
<1>13. CASE PassEnds BY <1>13 DEF PassEnds
<1>14. CASE GroupEmpty BY <1>14, CleanedAlike DEF GroupEmpty
<1>. QED BY <1>1, <1>2, <1>3, <1>4, <1>5, <1>6, <1>7, <1>8, <1>9, <1>10, <1>11, <1>12, <1>13, <1>14 DEF MacNext

LEMMA WindowsTaken ==
    ASSUME IInv, WindowsNext
    PROVE  ctl.taken \subseteq ctl'.taken
<1>. USE Basics DEF Goto, Verify, Controllers
<1>1. CASE Popened BY <1>1, Asked, RaiseTaken DEF Popened, Launched, WindowsAt, Owns
<1>2. CASE TerminateOnWindows BY <1>2 DEF TerminateOnWindows
<1>3. CASE SnapshotTree BY <1>3 DEF SnapshotTree
<1>4. CASE StopScriptChecks BY <1>4 DEF StopScriptChecks
<1>5. CASE StopScriptStops BY <1>5 DEF StopScriptStops
<1>6. CASE VerifyTreeGone BY <1>6 DEF VerifyTreeGone
<1>7. CASE LateDescendants BY <1>7 DEF LateDescendants
<1>8. CASE LeaderOnly BY <1>8, Asked, RaiseTaken DEF LeaderOnly, WindowsAt, Owns, StopsJob, Commands
<1>9. CASE ReapLeader BY <1>9 DEF ReapLeader
<1>10. CASE TerminatedReplacement BY <1>10, Asked, RaiseTaken DEF TerminatedReplacement, WindowsAt, Owns, StopsJob, Commands
<1>11. CASE FinalizeWindows BY <1>11, Asked, RaiseTaken DEF FinalizeWindows, WindowsAt, Owns, StopsJob, Commands
<1>12. CASE FinalizeEvidence BY <1>12, CleanedAlike, Asked, RaiseTaken DEF FinalizeEvidence, WindowsAt, Owns, StopsJob, Commands
<1>13. CASE CreateSuspended BY <1>13 DEF CreateSuspended
<1>14. CASE CreateJob BY <1>14 DEF CreateJob
<1>15. CASE AssignJob BY <1>15 DEF AssignJob
<1>16. CASE Resume BY <1>16 DEF Resume
<1>17. CASE UndoJob BY <1>17, Asked, RaiseTaken DEF UndoJob, WindowsAt, Owns, StopsJob, Commands
<1>18. CASE TerminateUnassigned BY <1>18, Asked, RaiseTaken DEF TerminateUnassigned, WindowsAt, Owns, StopsJob, Commands
<1>19. CASE TerminateJob BY <1>19 DEF TerminateJob
<1>20. CASE ProveJobEmpty BY <1>20 DEF ProveJobEmpty
<1>21. CASE CloseJob BY <1>21, Asked, RaiseTaken DEF CloseJob, WindowsAt, Owns, StopsJob, Commands
<1>. QED BY <1>1, <1>2, <1>3, <1>4, <1>5, <1>6, <1>7, <1>8, <1>9, <1>10, <1>11, <1>12, <1>13, <1>14, <1>15, <1>16, <1>17, <1>18, <1>19, <1>20, <1>21 DEF WindowsNext, JobNext

LEMMA CleanupTaken ==
    ASSUME IInv, CleanupNext
    PROVE  ctl.taken \subseteq ctl'.taken
<1>. USE Basics DEF Goto, Next3, RouteFails, Controllers
<1>1. CASE ReadSidecar BY <1>1 DEF ReadSidecar
<1>2. CASE LookForService BY <1>2 DEF LookForService
<1>3. CASE MatchIdentity BY <1>3 DEF MatchIdentity
<1>4. CASE SignalService BY <1>4 DEF SignalService
<1>5. CASE AwaitStop BY <1>5 DEF AwaitStop
<1>6. CASE CountChildren BY <1>6 DEF CountChildren
<1>7. CASE WindowsStopped BY <1>7 DEF WindowsStopped
<1>8. CASE Fallback BY <1>8 DEF Fallback
<1>9. CASE StopLeader BY <1>9 DEF StopLeader
<1>10. CASE ServiceIsDead BY <1>10 DEF ServiceIsDead
<1>11. CASE Restore BY <1>11 DEF Restore
<1>12. CASE VerifyRoute BY <1>12 DEF VerifyRoute
<1>. QED BY <1>1, <1>2, <1>3, <1>4, <1>5, <1>6, <1>7, <1>8, <1>9, <1>10, <1>11, <1>12 DEF CleanupNext

\* The platform is chosen once.
LEMMA PlatformStays ==
    ASSUME [Next]_vars
    PROVE  UNCHANGED platform
<1>1. CASE MachineNext
  BY <1>1 DEF MachineNext, Exit, Collected, Fork, StrangerStarts, RouteChanges
<1>2. CASE ControlNext
  BY <1>2 DEF ControlNext, CommandFails, VerifyExecutable, VerifyIdentity, Create, Adopt, LossBegins,
              VerifyAgain, KillPredecessor, WaitDead, StartBegins, LaunchDetached, Commit, WritePid,
              Ready, Restarted, FinalizeBegins, BaseFinalize, LaneEnds, hostVars
<1>3. CASE LinuxNext
  BY <1>3 DEF LinuxNext, FinalizeLinux, ZombieRoot, CaptureTree, CaptureAgain, TermGroup, Grace,
              Escalate, StatSurvivor, KillSurvivor, SurvivorsKilled, ProveGroup, KillGroup, WaitTree,
              Look, LinuxVars
<1>4. CASE MacNext
  BY <1>4 DEF MacNext, TerminateBegins, EstablishOwnership, ProbeMember, OwnershipProven, Pass,
              ProbeCurrent, ProbeKnown, ProbesEnd, ProveRoot, KillOwnedGroup, ProveOne, KillOne,
              PassEnds, GroupEmpty, Look, LinuxVars
<1>5. CASE WindowsNext
  BY <1>5 DEF WindowsNext, JobNext, Popened, TerminateOnWindows, SnapshotTree, StopScriptChecks,
              StopScriptStops, VerifyTreeGone, LateDescendants, LeaderOnly, ReapLeader,
              TerminatedReplacement, FinalizeWindows, FinalizeEvidence, CreateSuspended, CreateJob,
              AssignJob, Resume, UndoJob, TerminateUnassigned, TerminateJob, ProveJobEmpty, CloseJob,
              Watch, JobVars
<1>6. CASE CleanupNext
  BY <1>6 DEF CleanupNext, ReadSidecar, LookForService, MatchIdentity, SignalService, AwaitStop,
              CountChildren, WindowsStopped, Fallback, StopLeader, ServiceIsDead, Restore,
              VerifyRoute, Quiet
<1>. QED BY <1>1, <1>2, <1>3, <1>4, <1>5, <1>6 DEF Next, vars, hostVars

LEMMA TakenGrows ==
    ASSUME IInv, [Next]_vars
    PROVE  ctl.taken \subseteq ctl'.taken /\ UNCHANGED platform
<1>1. UNCHANGED platform BY PlatformStays
<1>2. CASE UNCHANGED ctl BY <1>1, <1>2
<1>. QED
  BY <1>1, <1>2, ControlTaken, LinuxTaken, MacTaken, WindowsTaken, CleanupTaken
     DEF Next, MachineNext, vars, controlVars

LEMMA NextSights ==
    ASSUME IInv, Sights, [Next]_vars
    PROVE  Sights'
<1>1. IInv' BY NextIInv
<1>2. Upheld
  <2>1. CASE UNCHANGED vars
    <3>1. UNCHANGED <<ctl, platform, proc, born, harmed, sidecar>>
      BY <2>1 DEF vars, hostVars, controlVars
    <3>. QED BY <3>1, SameTable, MachineKeeps DEF Sights
  <2>. QED
    BY <1>1, <2>1, MachineSights, ControlNextSights, LinuxNextSights, MacNextSights,
       WindowsNextSights, CleanupNextSights
       DEF Next
<1>3. ctl.taken \subseteq ctl'.taken /\ UNCHANGED platform BY TakenGrows
<1>. QED BY <1>2, <1>3 DEF Upheld, Sights, Harmless, OnlyProvenSignalled, Adopted

LEMMA SightsInvariant == Spec => [](IInv /\ Sights)
<1>1. Init => IInv /\ Sights BY InitIInv, InitSights
<1>2. IInv /\ Sights /\ [Next]_vars => (IInv /\ Sights)' BY NextIInv, NextSights
<1>. QED BY <1>1, <1>2, PTL DEF Spec

\* On Linux and Windows no unrelated process that was there when an identity
\* was proved is ever signalled, by the lane's controller or by the cleanup
\* after it, whatever exits, forks or takes over a number between two of their
\* commands: the proofs in hosted/linux.py, hosted/windows.py and in the
\* workflows' cleanup steps are in the right places.  On macOS the only ones
\* that can be are those hosted/macos.py:556-604 took for a member of the
\* service's group or tree, because they answered its first probe.
THEOREM SignalsOnlyProven == Spec => []OnlyProvenSignalled
<1>1. IInv /\ Sights => OnlyProvenSignalled BY DEF Sights
<1>. QED BY <1>1, SightsInvariant, PTL
=============================================================================

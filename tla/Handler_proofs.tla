---------------------------- MODULE Handler_proofs ----------------------------
(***************************************************************************)
(* The Handler around its jobs: one Handler per installation, for any      *)
(* number of commands and addresses, any of which may die at any step; and *)
(* the weights it copies, for selections of any length.                    *)
(*                                                                         *)
(* LifecycleInv is inductive: the locks, the listeners, the session, and   *)
(* at each step of a command what it may rely on of what it has read,      *)
(* since nobody else begins to serve while it has lifecycle.lock. So is    *)
(* ResourcesInv: the one item that says it is being prepared is that of    *)
(* the model at the head, while its weights are copied.                    *)
(***************************************************************************)
EXTENDS Lifecycle, Resources, TLAPS, SequenceTheorems

\* A session, and what a command has read or found.
Record == [inst : Invocation, address : Address]
Seen == {NoSession} \cup [inst : Invocation \cup {Other}] \cup Record


\* Where a command holds lifecycle.lock, and where it holds running.lock; while
\* it asks and waits it has neither listener.
Asking == {"reads", "probes", "missing", "asks", "posts", "awaits", "drops", "removes", "borrows",
           "empties", "unidentified", "looks", "outlasts", "kills", "rechecks", "running"}
Opening == {"listens", "listens2", "saves", "registers"}
Closing == {"shuts", "withdraws", "unrecords", "closes", "unlocks"}
LockHeld == Asking \cup Opening
RunHeld == Opening \cup {"serves"} \cup Closing

\* ... and where it may have a listener.
Open == RunHeld \ {"listens", "unlocks"}

Places == LockHeld \cup RunHeld \cup {"unborn", "waits", "leaves", "over"}
Ends == {"none", "failed", "retained", "stopped"}

Process == [at : Places, cmd : Command, address : Address, phase : {"serve", "prepare", "stop"},
            seen : Seen, work : {"idle", "busy", "stopping"}, end : Ends]

Listens == [Address -> Invocation \cup {None, Other}]

LifecycleTyped ==
  /\ proc \in [Invocation -> Process \cup {Unborn, Dead}]
  /\ api \in Listens /\ review \in Listens
  /\ session \in {NoSession} \cup Record

Alive(p) == proc[p].at \notin {"unborn", "over"}
Serves(p) == Stands(p, "serves")

\* The two locks.
LocksInv ==
  \A p \in Invocation :
    /\ proc[p].at \in LockHeld => lifecycle = p
    /\ lifecycle = p => proc[p].at \in LockHeld \cup (Closing \ {"shuts"}) \cup {"leaves"}
    /\ proc[p].at \in RunHeld => running = p

\* A listener is open from where it is opened to where it is closed, at the
\* address of its process, and the API answers only while its process serves or
\* still has lifecycle.lock.
ListensInv ==
  \A a \in Address, p \in Invocation :
    /\ api[a] = p \/ review[a] = p => proc[p].at \in Open /\ a = proc[p].address
    /\ api[a] = p => Serves(p) \/ lifecycle = p
    /\ proc[p].at \in {"listens2", "saves", "registers", "serves"} /\ a = proc[p].address => api[a] = p

\* A session names a process, by the address it has.
Names(r) ==
  /\ r \in Record
  /\ ~Stands(r.inst, "unborn")
  /\ Alive(r.inst) => r.address = proc[r.inst].address

SessionInv ==
  /\ session # NoSession => ~cleared /\ Names(session)
  /\ \A p \in Invocation : proc[p].at \in {"registers", "serves"} => session.inst = p \/ cleared

\* Nobody answers, as far as a stop can know.
Silent(p) ==
  /\ api[proc[p].address] \notin Invocation
  /\ \A a \in Address : api[a] \in Invocation => cleared

\* What a command that has read r may rely on at each step, although the Handler
\* goes on: while it holds lifecycle.lock nobody else begins to serve.
Reliable(p, at, r) ==
  /\ at \in {"probes", "asks", "posts", "awaits", "drops", "removes"} =>
       Names(r) /\ \A q \in Invocation : Serves(q) => q = r.inst
  /\ at = "missing" => r = NoSession
  /\ at \in {"missing", "unidentified"} /\ r = NoSession =>
       \A q \in Invocation : Serves(q) => cleared
  /\ at = "unidentified" /\ r # NoSession => \A q \in Invocation : Serves(q) => q = r.inst
  /\ at \in {"looks", "outlasts", "kills", "rechecks"} =>
       \A q \in Invocation : Serves(q) => cleared \/ proc[q].address = proc[p].address
  /\ at \in {"outlasts", "kills", "rechecks"} => r.inst \in (Invocation \cup {Other}) \ {p}
  /\ at \in {"drops", "removes"} => Exited(r.inst)
  /\ at = "removes" => session.inst \in {None, r.inst}

SeenInv == \A p \in Invocation : Reliable(p, proc[p].at, proc[p].seen)

\* Success is said last, when it is so.
EndInv ==
  \A p \in Invocation :
    Alive(p) /\ proc[p].end = "stopped" =>
      Stands(p, "leaves") /\ (lifecycle = p => Silent(p))

LifecycleInv == LifecycleTyped /\ LocksInv /\ ListensInv /\ SessionInv /\ SeenInv /\ EndInv
-----------------------------------------------------------------------------
(***************************************************************************)
(* What a step does to the processes: p goes to s, having read r, with the *)
(* end e, and of the others at most the work changes.                      *)
(***************************************************************************)
ProcTyped == proc \in [Invocation -> Process \cup {Unborn, Dead}]

Kept(q) ==
  /\ proc'[q].at = proc[q].at
  /\ proc'[q].address = proc[q].address
  /\ proc'[q].seen = proc[q].seen
  /\ proc'[q].end = proc[q].end

Moves(p, s, r, e) ==
  /\ ProcTyped'
  /\ proc'[p].at = s
  /\ proc'[p].address = proc[p].address
  /\ proc'[p].seen = r
  /\ proc'[p].end = e
  /\ \A q \in Invocation \ {p} : Kept(q)

\* A process that is there has all its fields.
LEMMA AliveTyped ==
  ASSUME LifecycleTyped, NEW p \in Invocation, Alive(p)
  PROVE  proc[p] \in Process
BY DEF LifecycleTyped, Alive, Unborn, Dead

\* Steps moves p alone.
LEMMA StepsMoves ==
  ASSUME LifecycleTyped, NEW p \in Invocation, Alive(p), NEW s \in Places, Steps(p, s)
  PROVE  Moves(p, s, proc[p].seen, proc[p].end)
<1>1. proc[p] \in Process
  BY AliveTyped
<1>2. [proc[p] EXCEPT !.at = s] \in Process
  BY <1>1 DEF Process
<1>3. proc' = [proc EXCEPT ![p] = [proc[p] EXCEPT !.at = s]]
  BY DEF Steps
<1>4. ProcTyped'
  BY <1>2, <1>3 DEF ProcTyped, LifecycleTyped
<1> QED
  BY <1>1, <1>3, <1>4 DEF Moves, Kept, LifecycleTyped, Process

\* So does Departs, to the end of the command.
LEMMA DepartsMoves ==
  ASSUME LifecycleTyped, NEW p \in Invocation, Alive(p), NEW e \in Ends, Departs(p, e)
  PROVE  Moves(p, "leaves", proc[p].seen, e)
<1>1. proc[p] \in Process
  BY AliveTyped
<1>2. [proc[p] EXCEPT !.at = "leaves", !.end = e] \in Process
  BY <1>1 DEF Process, Places
<1>3. proc' = [proc EXCEPT ![p] = [proc[p] EXCEPT !.at = "leaves", !.end = e]]
  BY DEF Departs, Leave
<1>4. ProcTyped'
  BY <1>2, <1>3 DEF ProcTyped, LifecycleTyped
<1> QED
  BY <1>1, <1>3, <1>4 DEF Moves, Kept, LifecycleTyped, Process

\* And Failing, to where serve puts back what it has taken.
LEMMA FailingMoves ==
  ASSUME LifecycleTyped, NEW p \in Invocation, Alive(p), NEW s \in Places, Failing(p, s)
  PROVE  Moves(p, s, proc[p].seen, "failed")
<1>1. proc[p] \in Process
  BY AliveTyped
<1>2. [proc[p] EXCEPT !.at = s, !.end = "failed"] \in Process
  BY <1>1 DEF Process, Ends
<1>3. proc' = [proc EXCEPT ![p] = [proc[p] EXCEPT !.at = s, !.end = "failed"]]
  BY DEF Failing
<1>4. ProcTyped'
  BY <1>2, <1>3 DEF ProcTyped, LifecycleTyped
<1> QED
  BY <1>1, <1>3, <1>4 DEF Moves, Kept, LifecycleTyped, Process

\* A new phase is no more than a step.
LEMMA PhaseMoves ==
  ASSUME LifecycleTyped, NEW p \in Invocation, Alive(p), NEW s \in Places, NEW f \in {"serve", "prepare", "stop"},
         proc' = [proc EXCEPT ![p].at = s, ![p].phase = f]
  PROVE  Moves(p, s, proc[p].seen, proc[p].end)
<1>1. proc[p] \in Process
  BY AliveTyped
<1>2. [proc[p] EXCEPT !.at = s, !.phase = f] \in Process
  BY <1>1 DEF Process
<1>3. proc' = [proc EXCEPT ![p] = [proc[p] EXCEPT !.at = s, !.phase = f]]
  OBVIOUS
<1>4. ProcTyped'
  BY <1>2, <1>3 DEF ProcTyped, LifecycleTyped
<1> QED
  BY <1>1, <1>3, <1>4 DEF Moves, Kept, LifecycleTyped, Process

\* Where a launch goes on, and where a stop that worked does.
LEMMA StoppedMoves ==
  ASSUME LifecycleTyped, NEW p \in Invocation, Alive(p), Stopped(p)
  PROVE  \/ Moves(p, "leaves", proc[p].seen, "stopped")
         \/ \E s \in {"reads", "running", "empties"} : Moves(p, s, proc[p].seen, proc[p].end)
<1>1. CASE proc[p].phase = "stop" /\ proc[p].cmd \notin {"restart", "uninstall"}
  BY <1>1, DepartsMoves DEF Stopped, Ends
<1>2. CASE proc[p].phase = "stop" /\ proc[p].cmd = "restart"
  <2>1. proc' = [proc EXCEPT ![p].at = "reads", ![p].phase = "prepare"]
    BY <1>2 DEF Stopped
  <2> QED
    BY <2>1, PhaseMoves DEF Places, LockHeld, Asking
<1>3. CASE proc[p].phase = "stop" /\ proc[p].cmd = "uninstall"
  BY <1>3, StepsMoves DEF Stopped, Places, LockHeld, Asking
<1>4. CASE proc[p].phase = "prepare"
  <2>1. proc' = [proc EXCEPT ![p].at = "reads", ![p].phase = "serve"]
    BY <1>4 DEF Stopped, Needed
  <2> QED
    BY <2>1, PhaseMoves DEF Places, LockHeld, Asking
<1>5. CASE proc[p].phase \notin {"stop", "prepare"}
  BY <1>5, StepsMoves DEF Stopped, Places, LockHeld, Asking, Needed
<1> QED
  BY <1>1, <1>2, <1>3, <1>4, <1>5

\* Going on from a preparation moves only the command.
LEMMA NeededMoves ==
  ASSUME LifecycleTyped, NEW p \in Invocation, Alive(p), Needed(p)
  PROVE  \E s \in {"reads", "running"} : Moves(p, s, proc[p].seen, proc[p].end)
<1>1. CASE proc[p].phase = "prepare"
  <2>1. proc' = [proc EXCEPT ![p].at = "reads", ![p].phase = "serve"]
    BY <1>1 DEF Needed
  <2> QED
    BY <2>1, PhaseMoves DEF Places, LockHeld, Asking
<1>2. CASE proc[p].phase # "prepare"
  BY <1>2, StepsMoves DEF Needed, Places, LockHeld, Asking
<1> QED
  BY <1>1, <1>2
-----------------------------------------------------------------------------
(***************************************************************************)
(* What a step of one process leaves as it was, by the kind of step.       *)
(***************************************************************************)
\* Whatever else listens, the Handlers' listeners are as they were.
SameListeners ==
  /\ \A a \in Address, q \in Invocation : api'[a] = q <=> api[a] = q
  /\ review' = review

\* The session goes, if it goes, while nobody needs it.
SessionFrame ==
  /\ cleared' = cleared
  /\ \/ session' = session
     \/ /\ session' = NoSession
        /\ \A q \in Invocation : proc[q].at \in {"registers", "serves"} => cleared

\* What is relied on is only that nobody begins to serve, that nobody moves to
\* another address, that who has ended has, and that the session is still the
\* one that was read, or gone.
LEMMA ReliableFrame ==
  ASSUME NEW q \in Invocation, NEW at, NEW x, Reliable(q, at, x),
         Names(x) => Names(x)',
         \A t \in Invocation : Serves(t)' => Serves(t),
         \A t \in Invocation : Serves(t)' => proc'[t].address = proc[t].address,
         proc'[q].address = proc[q].address,
         \A t \in Invocation : Exited(t) => Exited(t)',
         cleared => cleared',
         session'.inst \in {session.inst, None}
  PROVE  Reliable(q, at, x)'
<1>1. Names(x) => x.inst \in Invocation
  BY DEF Names, Record
<1> USE DEF Reliable
<1>2. at \in {"probes", "asks", "posts", "awaits", "drops", "removes"} =>
        Names(x)' /\ \A t \in Invocation : Serves(t)' => t = x.inst
  OBVIOUS
<1>3. /\ at = "missing" => x = NoSession
      /\ at \in {"missing", "unidentified"} /\ x = NoSession =>
           \A t \in Invocation : Serves(t)' => cleared'
      /\ at = "unidentified" /\ x # NoSession => \A t \in Invocation : Serves(t)' => t = x.inst
  OBVIOUS
<1>4. at \in {"looks", "outlasts", "kills", "rechecks"} =>
        \A t \in Invocation : Serves(t)' => cleared' \/ proc'[t].address = proc'[q].address
  OBVIOUS
<1>5. /\ at \in {"outlasts", "kills", "rechecks"} => x.inst \in (Invocation \cup {Other}) \ {q}
      /\ at \in {"drops", "removes"} => Exited(x.inst)'
  BY <1>1
<1>6. at = "removes" => session'.inst \in {None, x.inst}
  OBVIOUS
<1> QED
  BY <1>2, <1>3, <1>4, <1>5, <1>6 DEF NoSession

\* A step of a command that asks or waits, to where what it relies on holds: it
\* disturbs nobody, for who else holds a lock does not rely on where it is.
LEMMA AskingKeeps ==
  ASSUME LifecycleInv, LifecycleTyped', NEW p \in Invocation,
         NEW s \in Asking \cup {"leaves"}, NEW r, NEW e, Moves(p, s, r, e),
         proc[p].at \in Asking \/ (proc[p].at = "waits" /\ s = "leaves"),
         s # "leaves" => Reliable(p, s, r),
         e = "stopped" => s = "leaves" /\ Silent(p),
         SameListeners, SessionFrame, UNCHANGED <<lifecycle, running>>
  PROVE  LifecycleInv'
<1> USE DEF Moves, Kept, Alive, Serves, Stands, Exited
<1>1. proc[p].at \notin {"unborn", "over", "serves", "registers", "removes"} \cup RunHeld
        \/ proc[p].at = "removes"
  BY DEF Asking, RunHeld, Opening, Closing
<1>2. s \notin {"unborn", "over", "serves", "registers"} \cup RunHeld
  BY DEF Asking, RunHeld, Opening, Closing
<1>3. LocksInv'
  BY <1>1, <1>2 DEF LifecycleInv, LocksInv, LockHeld, Asking, Opening, Closing, RunHeld
<1>4. ListensInv'
  BY <1>1, <1>2 DEF LifecycleInv, ListensInv, SameListeners, Open, RunHeld, Opening, Closing, Asking
<1>5. \A x : Names(x)' <=> Names(x)
  BY <1>1, <1>2 DEF Names, Record, RunHeld
<1>6. SessionInv'
  BY <1>1, <1>2, <1>5, LifecycleAssumption DEF LifecycleInv, SessionInv, SessionFrame, NoSession
<1>7. SeenInv'
  <2>1. \A t \in Invocation :
          /\ Serves(t)' <=> Serves(t)
          /\ Exited(t)' <=> Exited(t)
          /\ proc'[t].address = proc[t].address
    BY <1>1, <1>2
  <2> SUFFICES ASSUME NEW q \in Invocation
               PROVE  Reliable(q, proc[q].at, proc[q].seen)'
    BY DEF SeenInv
  <2>2. ASSUME NEW at, NEW x, proc'[q].at = at, proc'[q].seen = x, Reliable(q, at, x)
        PROVE  Reliable(q, proc[q].at, proc[q].seen)'
    <3>1. session'.inst \in {session.inst, None} /\ (cleared => cleared')
      BY DEF SessionFrame, NoSession
    <3> HIDE DEF Alive, Serves, Stands, Exited, Moves, Kept
    <3>2. Reliable(q, at, x)'
      BY <1>5, <2>1, <2>2, <3>1, ReliableFrame
    <3> QED
      BY <2>2, <3>2 DEF Reliable, Names, Serves, Alive, Stands, Exited
  <2>3. CASE q = p
    <3>1. CASE s = "leaves"
      BY <2>3, <3>1 DEF Reliable
    <3>2. CASE s # "leaves"
      BY <2>2, <2>3, <3>2
    <3> QED
      BY <3>1, <3>2
  <2>4. CASE q # p
    <3>1. Reliable(q, proc[q].at, proc[q].seen)
      BY DEF LifecycleInv, SeenInv
    <3> QED
      BY <2>2, <2>4, <3>1
  <2> QED
    BY <2>3, <2>4
<1>8. EndInv'
  <2> SUFFICES ASSUME NEW q \in Invocation, Alive(q)', proc'[q].end = "stopped"
               PROVE  Stands(q, "leaves")' /\ (lifecycle' = q => Silent(q)')
    BY DEF EndInv
  <2>1. proc'[q].address = proc[q].address /\ proc[q].address \in Address
    BY <1>1, AliveTyped DEF LifecycleInv, Process
  <2>2. Silent(q) => Silent(q)'
    BY <2>1 DEF Silent, SameListeners, SessionFrame, LifecycleTyped, LifecycleInv
  <2> QED
    BY <2>2 DEF LifecycleInv, EndInv
<1> QED
  BY <1>3, <1>4, <1>6, <1>7, <1>8 DEF LifecycleInv

\* Listeners of p may be closed; nobody else's are, and none is opened.
OnlyCloses(p) ==
  \A a \in Address, q \in Invocation :
    /\ api'[a] = q => api[a] = q
    /\ review'[a] = q => review[a] = q
    /\ q # p /\ api[a] = q => api'[a] = q

\* A step of a Handler that gives back what it has taken.
LEMMA ClosingKeeps ==
  ASSUME LifecycleInv, LifecycleTyped', NEW p \in Invocation,
         NEW s \in Closing \cup {"leaves"}, NEW r, NEW e, Moves(p, s, r, e),
         proc[p].at \in RunHeld, e # "stopped",
         OnlyCloses(p),
         proc[p].at = "serves" \/ s \in {"unlocks", "leaves"} => \A a \in Address : api'[a] # p,
         s \in {"unlocks", "leaves"} => \A a \in Address : review'[a] # p,
         s = "shuts" => proc[p].at = "serves",
         running' = (IF s = "leaves" THEN None ELSE running),
         SessionFrame, lifecycle' = lifecycle
  PROVE  LifecycleInv'
<1> USE DEF Moves, Kept, Alive, Serves, Stands, Exited
<1>1. proc[p].at \notin {"unborn", "over", "leaves"} \cup Asking
  BY DEF Asking, RunHeld, Opening, Closing
<1>2. s \notin {"unborn", "over", "serves", "registers"} \cup LockHeld
  BY DEF LockHeld, Asking, Opening, Closing
<1>3. \A q \in Invocation \ {p} : proc[q].at \notin RunHeld
  BY DEF LifecycleInv, LocksInv
<1>4. proc[p].at = "serves" => lifecycle # p
  BY DEF LifecycleInv, LocksInv, LockHeld, Asking, Opening, Closing
<1>5. LocksInv'
  BY <1>1, <1>2, <1>3, <1>4 DEF LifecycleInv, LocksInv, LockHeld, Asking, Opening, Closing, RunHeld
<1>6. ListensInv'
  <2> SUFFICES ASSUME NEW a \in Address, NEW q \in Invocation
               PROVE  /\ api'[a] = q \/ review'[a] = q =>
                           proc'[q].at \in Open /\ a = proc'[q].address
                      /\ api'[a] = q => Serves(q)' \/ lifecycle' = q
                      /\ proc'[q].at \in {"listens2", "saves", "registers", "serves"}
                           /\ a = proc'[q].address => api'[a] = q
    BY DEF ListensInv
  <2>1. CASE q = p
    BY <1>1, <1>2, <2>1
       DEF LifecycleInv, ListensInv, OnlyCloses, Open, RunHeld, LockHeld, Opening, Closing, Asking
  <2>2. CASE q # p
    BY <1>3, <2>2 DEF LifecycleInv, ListensInv, OnlyCloses, Open, RunHeld, Opening, Closing
  <2> QED
    BY <2>1, <2>2
<1>7. \A x : Names(x)' <=> Names(x)
  BY <1>1, <1>2 DEF Names, Record, LockHeld
<1>8. SessionInv'
  BY <1>1, <1>2, <1>7, LifecycleAssumption DEF LifecycleInv, SessionInv, SessionFrame, NoSession
<1>9. SeenInv'
  <2>1. \A t \in Invocation :
          /\ Serves(t)' => Serves(t)
          /\ Exited(t) => Exited(t)'
          /\ proc'[t].address = proc[t].address
    BY <1>1, <1>2
  <2>2. session'.inst \in {session.inst, None} /\ (cleared => cleared')
    BY DEF SessionFrame, NoSession
  <2> SUFFICES ASSUME NEW q \in Invocation
               PROVE  Reliable(q, proc[q].at, proc[q].seen)'
    BY DEF SeenInv
  <2>3. CASE q = p
    BY <1>2, <2>3 DEF Reliable, LockHeld, Asking
  <2>4. CASE q # p
    <3>1. Reliable(q, proc[q].at, proc[q].seen)
      BY DEF LifecycleInv, SeenInv
    <3>2. PICK at, x : at = proc[q].at /\ x = proc[q].seen
      OBVIOUS
    <3> HIDE DEF Alive, Serves, Stands, Exited
    <3>3. Reliable(q, at, x)'
      BY <1>7, <2>1, <2>2, <3>1, <3>2, ReliableFrame
    <3> QED
      BY <2>4, <3>2, <3>3 DEF Reliable, Names, Serves, Alive, Stands, Exited
  <2> QED
    BY <2>3, <2>4
<1>10. EndInv'
  <2> SUFFICES ASSUME NEW q \in Invocation, Alive(q)', proc'[q].end = "stopped"
               PROVE  Stands(q, "leaves")' /\ (lifecycle' = q => Silent(q)')
    BY DEF EndInv
  <2>1. proc'[q].address = proc[q].address /\ proc[q].address \in Address
    BY <1>1, AliveTyped DEF LifecycleInv, Process
  <2>2. Silent(q) => Silent(q)'
    BY <2>1 DEF Silent, OnlyCloses, SessionFrame, LifecycleTyped, LifecycleInv
  <2> QED
    BY <2>2 DEF LifecycleInv, EndInv
<1> QED
  BY <1>5, <1>6, <1>8, <1>9, <1>10 DEF LifecycleInv

\* The end of a process: what it held is free, and its session stays. Kills is
\* the step of another one besides.
LEMMA DeathKeeps ==
  ASSUME LifecycleInv, LifecycleTyped', NEW p \in Invocation, proc'[p] = Dead,
         \A q \in Invocation \ {p} :
           /\ proc'[q].at = proc[q].at \/ (proc[q].at = "kills" /\ proc'[q].at = "rechecks")
           /\ proc'[q].address = proc[q].address
           /\ proc'[q].seen = proc[q].seen
           /\ proc'[q].end = proc[q].end,
         OnlyCloses(p), \A a \in Address : api'[a] # p /\ review'[a] # p,
         lifecycle' = (IF lifecycle = p THEN None ELSE lifecycle),
         running' = running \/ (running = p /\ running' = None),
         UNCHANGED <<session, cleared>>
  PROVE  LifecycleInv'
<1> USE DEF Alive, Serves, Stands, Exited
<1>1. proc'[p].at = "over"
  BY DEF Dead
<1>2. \A q \in Invocation : proc'[q].at \in Places \ {"rechecks"} => proc'[q].at = proc[q].at \/ q = p
  OBVIOUS
<1>3. LocksInv'
  BY <1>1, LifecycleAssumption
     DEF LifecycleInv, LocksInv, LockHeld, Asking, Opening, Closing, RunHeld
<1>4. ListensInv'
  <2> SUFFICES ASSUME NEW a \in Address, NEW q \in Invocation
               PROVE  /\ api'[a] = q \/ review'[a] = q =>
                           proc'[q].at \in Open /\ a = proc'[q].address
                      /\ api'[a] = q => Serves(q)' \/ lifecycle' = q
                      /\ proc'[q].at \in {"listens2", "saves", "registers", "serves"}
                           /\ a = proc'[q].address => api'[a] = q
    BY DEF ListensInv
  <2>1. CASE q = p
    BY <1>1, <2>1
  <2>2. CASE q # p
    BY <2>2, LifecycleAssumption
       DEF LifecycleInv, ListensInv, OnlyCloses, Open, RunHeld, Opening, Closing
  <2> QED
    BY <2>1, <2>2
<1>5. \A x : Names(x) => Names(x)'
  <2> SUFFICES ASSUME NEW x, Names(x) PROVE Names(x)'
    OBVIOUS
  <2>1. x \in Record /\ x.inst \in Invocation
    BY DEF Names, Record
  <2>2. CASE x.inst = p
    BY <1>1, <2>1, <2>2 DEF Names
  <2>3. CASE x.inst # p
    BY <2>1, <2>3 DEF Names
  <2> QED
    BY <2>2, <2>3
<1>6. SessionInv'
  <2>1. session' # NoSession => ~cleared' /\ Names(session)'
    <3>1. session # NoSession => ~cleared /\ Names(session)
      BY DEF LifecycleInv, SessionInv
    <3>2. PICK x : x = session
      OBVIOUS
    <3>3. session # NoSession => Names(x)'
      BY <1>5, <3>1, <3>2
    <3> QED
      BY <3>1, <3>2, <3>3 DEF Names
  <2>2. \A q \in Invocation : proc'[q].at \in {"registers", "serves"} => session'.inst = q \/ cleared'
    BY <1>1 DEF LifecycleInv, SessionInv
  <2> QED
    BY <2>1, <2>2 DEF SessionInv, NoSession
<1>7. SeenInv'
  <2>1. \A t \in Invocation :
          /\ Serves(t)' => Serves(t)
          /\ Exited(t) => Exited(t)'
          /\ Serves(t)' => proc'[t].address = proc[t].address
    BY <1>1
  <2> SUFFICES ASSUME NEW q \in Invocation
               PROVE  Reliable(q, proc[q].at, proc[q].seen)'
    BY DEF SeenInv
  <2>2. CASE q = p
    BY <1>1, <2>2 DEF Reliable
  <2>3. CASE q # p
    <3>1. Reliable(q, proc[q].at, proc[q].seen)
      BY DEF LifecycleInv, SeenInv
    <3>2. PICK at, x : at = proc[q].at /\ x = proc[q].seen
      OBVIOUS
    <3>3. proc'[q].address = proc[q].address
      BY <2>3
    <3>4. \/ proc'[q].at = at
          \/ at = "kills" /\ proc'[q].at = "rechecks"
      BY <2>3, <3>2
    <3>5. proc'[q].seen = x
      BY <2>3, <3>2
    <3> HIDE DEF Alive, Serves, Stands, Exited
    <3>6. Reliable(q, at, x)'
      BY <1>5, <2>1, <3>1, <3>2, <3>3, ReliableFrame
    <3> QED
      BY <3>4, <3>5, <3>6 DEF Reliable, Names, Serves, Alive, Stands, Exited
  <2> QED
    BY <2>2, <2>3
<1>8. EndInv'
  <2> SUFFICES ASSUME NEW q \in Invocation, Alive(q)', proc'[q].end = "stopped"
               PROVE  Stands(q, "leaves")' /\ (lifecycle' = q => Silent(q)')
    BY DEF EndInv
  <2>1. q # p
    BY <1>1
  <2>2. proc'[q].address = proc[q].address /\ proc[q].address \in Address /\ Alive(q)
    BY <2>1, AliveTyped DEF LifecycleInv, Process
  <2>3. Silent(q) => Silent(q)'
    BY <2>2 DEF Silent, OnlyCloses, LifecycleTyped, LifecycleInv
  <2> QED
    BY <2>1, <2>2, <2>3, LifecycleAssumption DEF LifecycleInv, EndInv
<1> QED
  BY <1>3, <1>4, <1>6, <1>7, <1>8 DEF LifecycleInv

\* The work of a Handler, and what happens around the commands.
LEMMA StillKeeps ==
  ASSUME LifecycleInv, LifecycleTyped', \A q \in Invocation : Kept(q),
         SameListeners, UNCHANGED <<lifecycle, running>>,
         UNCHANGED <<session, cleared>> \/ (session' = NoSession /\ cleared' = TRUE)
  PROVE  LifecycleInv'
<1> USE DEF Kept, Alive, Serves, Stands, Exited
<1>1. LocksInv' /\ ListensInv'
  BY DEF LifecycleInv, LocksInv, ListensInv, SameListeners
<1>2. \A x : Names(x) => Names(x)'
  BY DEF Names, Record
<1>3. SessionInv'
  BY <1>2, LifecycleAssumption DEF LifecycleInv, SessionInv, NoSession, Names
<1>4. SeenInv'
  <2> SUFFICES ASSUME NEW q \in Invocation
               PROVE  Reliable(q, proc[q].at, proc[q].seen)'
    BY DEF SeenInv
  <2>1. Reliable(q, proc[q].at, proc[q].seen)
    BY DEF LifecycleInv, SeenInv
  <2>2. PICK at, x : at = proc[q].at /\ x = proc[q].seen
    OBVIOUS
  <2>3. \A t \in Invocation :
          /\ Serves(t)' => Serves(t)
          /\ Exited(t) => Exited(t)'
          /\ proc'[t].address = proc[t].address
    OBVIOUS
  <2>4. session'.inst \in {session.inst, None} /\ (cleared => cleared')
    BY DEF NoSession
  <2> HIDE DEF Alive, Serves, Stands, Exited
  <2>5. Reliable(q, at, x)'
    BY <1>2, <2>1, <2>2, <2>3, <2>4, ReliableFrame
  <2> QED
    BY <2>2, <2>5 DEF Reliable, Names, Serves, Alive, Stands, Exited
<1>5. EndInv'
  <2> SUFFICES ASSUME NEW q \in Invocation, Alive(q)', proc'[q].end = "stopped"
               PROVE  Stands(q, "leaves")' /\ (lifecycle' = q => Silent(q)')
    BY DEF EndInv
  <2>1. proc'[q].address = proc[q].address /\ proc[q].address \in Address
    BY AliveTyped DEF LifecycleInv, Process
  <2>2. Silent(q) => Silent(q)'
    BY <2>1 DEF Silent, SameListeners, LifecycleTyped, LifecycleInv
  <2> QED
    BY <2>2 DEF LifecycleInv, EndInv
<1> QED
  BY <1>1, <1>3, <1>4, <1>5 DEF LifecycleInv

\* The steps that take something: the locks and the listeners, the session, and
\* then service. Who takes them has lifecycle.lock, so that nobody else asks.
LEMMA OpeningKeeps ==
  ASSUME LifecycleInv, LifecycleTyped', NEW p \in Invocation, NEW s \in Opening \cup {"serves"},
         Moves(p, s, proc[p].seen, proc[p].end),
         \/ /\ proc[p].at = "running" /\ s = "listens" /\ running = None
            /\ running' = p /\ UNCHANGED <<lifecycle, api, review, session, cleared>>
         \/ /\ proc[p].at = "listens" /\ s = "listens2" /\ api[proc[p].address] = None
            /\ api' = [api EXCEPT ![proc[p].address] = p]
            /\ UNCHANGED <<lifecycle, running, review, session, cleared>>
         \/ /\ proc[p].at = "listens2" /\ s = "saves" /\ review[proc[p].address] = None
            /\ review' = [review EXCEPT ![proc[p].address] = p]
            /\ UNCHANGED <<lifecycle, running, api, session, cleared>>
         \/ /\ proc[p].at = "saves" /\ s = "registers"
            /\ session' = [inst |-> p, address |-> proc[p].address] /\ cleared' = FALSE
            /\ UNCHANGED <<lifecycle, running, api, review>>
         \/ /\ proc[p].at = "registers" /\ s = "serves" /\ lifecycle' = None
            /\ UNCHANGED <<running, api, review, session, cleared>>
  PROVE  LifecycleInv'
<1> USE DEF Moves, Kept, Alive, Serves, Stands, Exited
<1>1. lifecycle = p /\ proc[p].at \in {"running", "listens", "listens2", "saves", "registers"}
  BY DEF LifecycleInv, LocksInv, LockHeld, Asking, Opening
<1>2. \A q \in Invocation \ {p} : lifecycle # q /\ proc[q].at \notin LockHeld
  BY <1>1 DEF LifecycleInv, LocksInv
<1>3. \A q \in Invocation \ {p} : proc[q].at \notin RunHeld \/ running = q
  BY DEF LifecycleInv, LocksInv
<1>4. \A q \in Invocation \ {p} : proc[q].at \notin RunHeld
  <2>1. CASE running = None
    BY <1>3, <2>1, LifecycleAssumption
  <2>2. CASE proc[p].at # "running"
    <3>1. running = p
      BY <1>1, <2>2 DEF LifecycleInv, LocksInv, RunHeld, Opening
    <3> QED
      BY <1>3, <3>1
  <2> QED
    BY <2>1, <2>2
<1>5. LocksInv'
  BY <1>1, <1>2, <1>3, <1>4, LifecycleAssumption
     DEF LifecycleInv, LocksInv, LockHeld, Asking, Opening, Closing, RunHeld
<1>6. proc[p].address \in Address
  BY <1>1, AliveTyped DEF LifecycleInv, Process
<1>7. ListensInv'
  <2> SUFFICES ASSUME NEW a \in Address, NEW q \in Invocation
               PROVE  /\ api'[a] = q \/ review'[a] = q =>
                           proc'[q].at \in Open /\ a = proc'[q].address
                      /\ api'[a] = q => Serves(q)' \/ lifecycle' = q
                      /\ proc'[q].at \in {"listens2", "saves", "registers", "serves"}
                           /\ a = proc'[q].address => api'[a] = q
    BY DEF ListensInv
  <2>1. CASE q = p
    <3>1. /\ api[a] = p \/ review[a] = p => proc[p].at \in Open /\ a = proc[p].address
          /\ proc[p].at \in {"listens2", "saves", "registers"} /\ a = proc[p].address => api[a] = p
      BY DEF LifecycleInv, ListensInv
    <3>2. api[a] = p => proc[p].at # "running" /\ proc[p].at # "listens"
      BY <3>1 DEF Open, RunHeld, Opening, Closing
    <3>3. /\ api'[a] = p => a = proc[p].address /\ s # "listens"
          /\ s # "listens" /\ a = proc[p].address => api'[a] = p
      BY <1>1, <1>6, <3>1, <3>2 DEF LifecycleInv, LifecycleTyped, Listens, Opening
    <3>4. review'[a] = p => a = proc[p].address /\ s # "listens"
      BY <1>1, <1>6, <3>1 DEF LifecycleInv, LifecycleTyped, Listens, Open, RunHeld, Opening, Closing
    <3>5. s = "serves" \/ lifecycle' = p
      BY <1>1
    <3> QED
      BY <2>1, <3>3, <3>4, <3>5 DEF Open, RunHeld, Opening
  <2>2. CASE q # p
    BY <1>2, <1>4, <1>6, <2>2
       DEF LifecycleInv, LifecycleTyped, Listens, ListensInv, Open, RunHeld, Opening, Closing
  <2> QED
    BY <2>1, <2>2
<1>8. \A x : Names(x) => Names(x)'
  BY <1>1 DEF Names, Record, Opening
<1>9. SessionInv'
  <2>1. CASE s = "registers"
    <3>1. session' = [inst |-> p, address |-> proc[p].address] /\ cleared' = FALSE
      BY <2>1
    <3>2. Names(session)'
      BY <1>1, <1>6, <2>1, <3>1 DEF Names, Record
    <3> QED
      BY <1>4, <2>1, <3>1, <3>2 DEF SessionInv, RunHeld, Opening
  <2>2. CASE s # "registers"
    <3>1. UNCHANGED <<session, cleared>>
      BY <2>2
    <3>2. session # NoSession => ~cleared /\ Names(session)
      BY DEF LifecycleInv, SessionInv
    <3>3. PICK x : x = session
      OBVIOUS
    <3>4. session # NoSession => Names(x)'
      BY <1>8, <3>2, <3>3
    <3>5. session' # NoSession => ~cleared' /\ Names(session)'
      BY <3>1, <3>2, <3>3, <3>4 DEF Names
    <3>6. \A q \in Invocation : proc'[q].at \in {"registers", "serves"} => session'.inst = q \/ cleared'
      BY <1>4, <2>2, <3>1 DEF LifecycleInv, SessionInv, RunHeld, Opening
    <3> QED
      BY <3>5, <3>6 DEF SessionInv, NoSession
  <2> QED
    BY <2>1, <2>2
<1>10. SeenInv'
  <2>1. \A q \in Invocation : proc'[q].at \notin Asking
    BY <1>2 DEF LockHeld, Asking, Opening
  <2> QED
    BY <2>1 DEF SeenInv, Reliable, Asking
<1>11. EndInv'
  <2> SUFFICES ASSUME NEW q \in Invocation, Alive(q)', proc'[q].end = "stopped"
               PROVE  Stands(q, "leaves")' /\ (lifecycle' = q => Silent(q)')
    BY DEF EndInv
  <2>1. q # p
    BY <1>1 DEF LifecycleInv, EndInv, Opening
  <2> QED
    BY <1>2, <2>1, LifecycleAssumption DEF LifecycleInv, EndInv
<1> QED
  BY <1>5, <1>7, <1>9, <1>10, <1>11 DEF LifecycleInv
-----------------------------------------------------------------------------
(***************************************************************************)
(* The invocation, the lifecycle lock, and the end of a process.           *)
(***************************************************************************)
LEMMA InvokedKeeps ==
  ASSUME LifecycleInv, NEW p \in Invocation, NEW cmd \in Command, NEW a \in Address,
         Invoked(p, cmd, a)
  PROVE  LifecycleInv'
<1> DEFINE fresh == [at |-> "waits", cmd |-> cmd, address |-> a, phase |-> FirstPhase(cmd),
                     seen |-> NoSession, work |-> "idle", end |-> "none"]
<1>1. proc' = [proc EXCEPT ![p] = fresh] /\ proc[p].at = "unborn" /\ UNCHANGED shared
  BY DEF Invoked, Stands
<1>2. fresh \in Process
  BY DEF Process, FirstPhase, Seen, Places, Ends
<1>3. LifecycleTyped'
  BY <1>1, <1>2 DEF LifecycleInv, LifecycleTyped, shared
<1>4. proc'[p].at = "waits" /\ proc'[p].end = "none" /\ \A q \in Invocation \ {p} : proc'[q] = proc[q]
  BY <1>1 DEF LifecycleInv, LifecycleTyped
<1> HIDE DEF fresh
<1> USE DEF Alive, Serves, Stands, Exited
<1>5. LocksInv'
  BY <1>1, <1>4 DEF LifecycleInv, LocksInv, LockHeld, Asking, Opening, Closing, RunHeld, shared
<1>6. ListensInv'
  BY <1>1, <1>4 DEF LifecycleInv, ListensInv, Open, RunHeld, Opening, Closing, shared
<1>7. \A x : Names(x) => Names(x)'
  BY <1>1, <1>4 DEF Names, Record
<1>8. SessionInv'
  BY <1>1, <1>4, <1>7 DEF LifecycleInv, SessionInv, shared, Names, NoSession
<1>9. SeenInv'
  <2> SUFFICES ASSUME NEW q \in Invocation
               PROVE  Reliable(q, proc[q].at, proc[q].seen)'
    BY DEF SeenInv
  <2>1. CASE q = p
    BY <1>4, <2>1 DEF Reliable
  <2>2. CASE q # p
    <3>1. Reliable(q, proc[q].at, proc[q].seen)
      BY DEF LifecycleInv, SeenInv
    <3>2. PICK at, x : at = proc[q].at /\ x = proc[q].seen
      OBVIOUS
    <3>3. /\ \A t \in Invocation : Serves(t)' => Serves(t) /\ proc'[t].address = proc[t].address
          /\ \A t \in Invocation : Exited(t) => Exited(t)'
          /\ proc'[q].address = proc[q].address
      BY <1>1, <1>4, <2>2
    <3>4. session' = session /\ cleared' = cleared
      BY <1>1 DEF shared
    <3> HIDE DEF Alive, Serves, Stands, Exited
    <3>5. Reliable(q, at, x)'
      BY <1>7, <3>1, <3>2, <3>3, <3>4, ReliableFrame
    <3> QED
      BY <1>4, <2>2, <3>2, <3>5 DEF Reliable, Names, Serves, Alive, Stands, Exited
  <2> QED
    BY <2>1, <2>2
<1>10. EndInv'
  BY <1>1, <1>4 DEF LifecycleInv, EndInv, Silent, shared
<1> QED
  BY <1>3, <1>5, <1>6, <1>8, <1>9, <1>10 DEF LifecycleInv

\* Nobody has the lock, so that nobody asks or opens.
LEMMA TakesLifecycleKeeps ==
  ASSUME LifecycleInv, NEW p \in Invocation, TakesLifecycle(p)
  PROVE  LifecycleInv'
<1>1. /\ proc[p].at = "waits" /\ lifecycle = None /\ lifecycle' = p
      /\ UNCHANGED <<running, api, review, session, cleared>>
  BY DEF TakesLifecycle, Stands
<1>2. Moves(p, "reads", proc[p].seen, proc[p].end)
  BY <1>1, StepsMoves DEF TakesLifecycle, Alive, LifecycleInv, Places, LockHeld, Asking
<1>3. LifecycleTyped'
  BY <1>1, <1>2 DEF Moves, ProcTyped, LifecycleInv, LifecycleTyped
<1> USE DEF Alive, Serves, Stands, Exited, Moves, Kept
<1>4. \A q \in Invocation : proc[q].at \notin LockHeld
  BY <1>1, LifecycleAssumption DEF LifecycleInv, LocksInv
<1>5. LocksInv'
  BY <1>1, <1>2, <1>4 DEF LifecycleInv, LocksInv, LockHeld, Asking, Opening, Closing, RunHeld
<1>6. ListensInv'
  BY <1>1, <1>2, <1>4, LifecycleAssumption
     DEF LifecycleInv, ListensInv, Open, RunHeld, LockHeld, Opening, Closing
<1>7. \A x : Names(x) => Names(x)'
  BY <1>1, <1>2 DEF Names, Record
<1>8. SessionInv'
  <2>1. PICK x : x = session
    OBVIOUS
  <2>2. session # NoSession => ~cleared' /\ Names(x)'
    BY <1>1, <1>7, <2>1 DEF LifecycleInv, SessionInv
  <2> QED
    BY <1>1, <1>2, <2>1, <2>2 DEF LifecycleInv, SessionInv, Names, NoSession
<1>9. SeenInv'
  <2>1. \A q \in Invocation : proc'[q].at \notin Asking \ {"reads"}
    BY <1>2, <1>4 DEF LockHeld
  <2> QED
    BY <2>1 DEF SeenInv, Reliable, Asking
<1>10. EndInv'
  BY <1>1, <1>2, LifecycleAssumption DEF LifecycleInv, EndInv
<1> QED
  BY <1>3, <1>5, <1>6, <1>8, <1>9, <1>10 DEF LifecycleInv

\* A process that goes away frees its locks and closes its listeners.
LEMMA UnheldCloses ==
  ASSUME LifecycleInv, NEW q \in Invocation, Unheld(q)
  PROVE  /\ OnlyCloses(q)
         /\ \A a \in Address : api'[a] # q /\ review'[a] # q
         /\ api' \in Listens /\ review' \in Listens
BY LifecycleAssumption DEF Unheld, Freed, OnlyCloses, LifecycleInv, LifecycleTyped, Listens

\* A command that ends keeps LifecycleInv.
LEMMA CommandEndsKeeps ==
  ASSUME LifecycleInv, NEW p \in Invocation, CommandEnds(p)
  PROVE  LifecycleInv'
<1>1. /\ proc[p].at = "leaves" /\ proc' = [proc EXCEPT ![p] = Dead]
      /\ lifecycle' = (IF lifecycle = p THEN None ELSE lifecycle)
      /\ UNCHANGED <<running, api, review, session, cleared>>
  BY DEF CommandEnds, Stands
<1>2. LifecycleTyped' /\ proc'[p] = Dead /\ \A q \in Invocation \ {p} : proc'[q] = proc[q]
  BY <1>1 DEF LifecycleInv, LifecycleTyped
<1>3. \A a \in Address : api[a] # p /\ review[a] # p
  BY <1>1 DEF LifecycleInv, ListensInv, Open, RunHeld, Opening, Closing
<1>4. OnlyCloses(p)
  BY <1>1 DEF OnlyCloses
<1>5. Alive(p)
  BY <1>1 DEF Alive
<1> QED
  BY <1>1, <1>2, <1>3, <1>4, <1>5, DeathKeeps

\* So does one that dies.
LEMMA CommandDiesKeeps ==
  ASSUME LifecycleInv, NEW p \in Invocation, CommandDies(p)
  PROVE  LifecycleInv'
<1>1. Alive(p) /\ proc' = [proc EXCEPT ![p] = Dead] /\ Unheld(p)
  BY DEF CommandDies, Alive
<1>2. proc'[p] = Dead /\ \A q \in Invocation \ {p} : proc'[q] = proc[q]
  BY <1>1 DEF LifecycleInv, LifecycleTyped
<1>3. LifecycleTyped'
  BY <1>1, UnheldCloses DEF LifecycleInv, LifecycleTyped, Unheld
<1> QED
  BY <1>1, <1>2, <1>3, UnheldCloses, DeathKeeps DEF Unheld
-----------------------------------------------------------------------------
(***************************************************************************)
(* The steps of a command that asks.                                       *)
(***************************************************************************)
LEMMA AsksOn ==
  ASSUME LifecycleInv, NEW p \in Invocation, NEW s \in Asking \cup {"leaves"}, NEW r, NEW e,
         Moves(p, s, r, e), UNCHANGED shared,
         proc[p].at \in Asking \/ (proc[p].at = "waits" /\ s = "leaves"),
         s # "leaves" => Reliable(p, s, r),
         e = "stopped" => s = "leaves" /\ Silent(p)
  PROVE  LifecycleInv'
<1>1. LifecycleTyped'
  BY DEF Moves, ProcTyped, LifecycleInv, LifecycleTyped, shared
<1>2. SameListeners /\ SessionFrame /\ UNCHANGED <<lifecycle, running>>
  BY DEF SameListeners, SessionFrame, shared
<1> QED
  BY <1>1, <1>2, AskingKeeps

\* A command gives up at any time.
LEMMA DepartsKeeps ==
  ASSUME LifecycleInv, NEW p \in Invocation, NEW e \in Ends \ {"stopped"}, Departs(p, e),
         proc[p].at \in Asking \cup {"waits"}, UNCHANGED shared
  PROVE  LifecycleInv'
<1>1. Moves(p, "leaves", proc[p].seen, e)
  BY DepartsMoves DEF LifecycleInv, Alive, Asking
<1> QED
  BY <1>1, AsksOn

\* It goes on, where it may rely on what it has read.
LEMMA StepsKeeps ==
  ASSUME LifecycleInv, NEW p \in Invocation, NEW s \in Asking, Steps(p, s),
         proc[p].at \in Asking, UNCHANGED shared, Reliable(p, s, proc[p].seen)
  PROVE  LifecycleInv'
<1>1. Moves(p, s, proc[p].seen, proc[p].end) /\ Alive(p)
  BY StepsMoves DEF LifecycleInv, Alive, Asking, Places, LockHeld
<1>2. proc[p].end # "stopped"
  BY <1>1 DEF LifecycleInv, EndInv, Stands, Asking
<1>3. s # "leaves"
  BY DEF Asking
<1> QED
  BY <1>1, <1>2, <1>3, AsksOn

\* A stop that says so found nobody. The session may go with it.
LEMMA StoppedKeeps ==
  ASSUME LifecycleInv, NEW p \in Invocation, Stopped(p), proc[p].at \in Asking,
         proc[p].phase = "stop" => Silent(p),
         UNCHANGED <<lifecycle, running, api, review>>, SessionFrame
  PROVE  LifecycleInv'
<1>1. Alive(p) /\ proc[p].end # "stopped"
  BY DEF LifecycleInv, EndInv, Alive, Stands, Asking
<1>2. SameListeners
  BY DEF SameListeners
<1>3. ASSUME ProcTyped' PROVE LifecycleTyped'
  BY <1>3 DEF ProcTyped, LifecycleInv, LifecycleTyped, SessionFrame
<1>4. CASE Moves(p, "leaves", proc[p].seen, "stopped") /\ Silent(p)
  BY <1>2, <1>3, <1>4, AskingKeeps DEF Moves
<1>5. ASSUME NEW s \in {"reads", "running", "empties"}, Moves(p, s, proc[p].seen, proc[p].end)
      PROVE  LifecycleInv'
  <2>1. Reliable(p, s, proc[p].seen) /\ s \in Asking
    BY DEF Reliable, Asking
  <2> QED
    BY <1>1, <1>2, <1>3, <1>5, <2>1, AskingKeeps DEF Moves
<1>6. CASE proc[p].phase = "stop"
  BY <1>1, <1>4, <1>5, <1>6, StoppedMoves DEF LifecycleInv
<1>7. CASE proc[p].phase # "stop"
  <2>1. Needed(p)
    BY <1>7 DEF Stopped
  <2> QED
    BY <1>1, <1>5, <2>1, NeededMoves DEF LifecycleInv
<1> QED
  BY <1>6, <1>7

\* Nobody has the running lock, so that nobody answers.
LEMMA FreeIsSilent ==
  ASSUME LifecycleInv, NEW p \in Invocation, Alive(p), running = None
  PROVE  Silent(p)
<1>1. \A a \in Address, q \in Invocation : api[a] # q
  BY LifecycleAssumption DEF LifecycleInv, LocksInv, ListensInv, Open
<1> QED
  BY <1>1, AliveTyped DEF Silent, LifecycleInv, Process

\* Who answers, while p asks, serves there.
LEMMA AnswersServes ==
  ASSUME LifecycleInv, NEW p \in Invocation, proc[p].at \in Asking,
         NEW a \in Address, NEW q \in Invocation, api[a] = q
  PROVE  Serves(q) /\ a = proc[q].address /\ q # p /\ \A t \in Invocation : Serves(t) => t = q
<1>1. lifecycle = p
  BY DEF LifecycleInv, LocksInv, LockHeld
<1>2. q # p
  BY DEF LifecycleInv, ListensInv, Open, RunHeld, Opening, Closing, Asking
<1>3. Serves(q) /\ a = proc[q].address
  BY <1>1, <1>2 DEF LifecycleInv, ListensInv
<1> QED
  BY <1>2, <1>3 DEF LifecycleInv, LocksInv, RunHeld, Serves, Stands

\* Who serves answers at its address.
LEMMA ServesAnswers ==
  ASSUME LifecycleInv, NEW q \in Invocation, Serves(q)
  PROVE  proc[q].address \in Address /\ api[proc[q].address] = q
<1>1. proc[q].address \in Address
  BY AliveTyped DEF LifecycleInv, Process, Alive, Serves, Stands
<1> QED
  BY <1>1 DEF LifecycleInv, ListensInv, Serves, Stands

\* Reading the session file moves only the reader.
LEMMA ReadMoves ==
  ASSUME LifecycleTyped, NEW p \in Invocation, Alive(p), NEW s \in Places, NEW r \in Seen,
         proc' = [proc EXCEPT ![p] = [proc[p] EXCEPT !.at = s, !.seen = r]]
  PROVE  Moves(p, s, r, proc[p].end)
<1>1. proc[p] \in Process
  BY AliveTyped
<1>2. [proc[p] EXCEPT !.at = s, !.seen = r] \in Process
  BY <1>1 DEF Process
<1>3. ProcTyped'
  BY <1>2 DEF ProcTyped, LifecycleTyped
<1> QED
  BY <1>1, <1>3 DEF Moves, Kept, LifecycleTyped, Process

\* What is read is the Handler that serves, if any does and has its record.
LEMMA ReadsSessionKeeps ==
  ASSUME LifecycleInv, NEW p \in Invocation, ReadsSession(p)
  PROVE  LifecycleInv'
<1> DEFINE s == IF session = NoSession THEN "missing" ELSE "probes"
<1>1. /\ proc[p].at = "reads" /\ UNCHANGED shared
      /\ proc' = [proc EXCEPT ![p] = [proc[p] EXCEPT !.at = s, !.seen = session]]
  BY DEF ReadsSession, Stands
<1>2. Alive(p) /\ proc[p].at \in Asking /\ s \in Asking /\ s \in Places /\ s # "leaves"
  BY <1>1 DEF Alive, Asking, Places, LockHeld
<1>3. session \in Seen
  BY DEF LifecycleInv, LifecycleTyped, Seen
<1>4. Moves(p, s, session, proc[p].end)
  BY <1>1, <1>2, <1>3, ReadMoves DEF LifecycleInv
<1>5. proc[p].end # "stopped"
  BY <1>1, <1>2 DEF LifecycleInv, EndInv, Stands
<1>6. \A q \in Invocation : Serves(q) => session.inst = q \/ cleared
  BY DEF LifecycleInv, SessionInv, Serves, Stands
<1>7. session # NoSession => ~cleared /\ Names(session)
  BY DEF LifecycleInv, SessionInv
<1>8. Reliable(p, s, session)
  <2>1. CASE session = NoSession
    BY <1>6, <2>1, LifecycleAssumption DEF Reliable, NoSession
  <2>2. CASE session # NoSession
    BY <1>6, <1>7, <2>2 DEF Reliable
  <2> QED
    BY <2>1, <2>2
<1> HIDE DEF s
<1> QED
  BY <1>1, <1>2, <1>4, <1>5, <1>8, AsksOn

\* Nothing answers where a Handler that serves would: there is none.
LEMMA FindsNobodyKeeps ==
  ASSUME LifecycleInv, NEW p \in Invocation, FindsNobody(p)
  PROVE  LifecycleInv'
<1>1. /\ proc[p].at = "probes" /\ UNCHANGED shared
      /\ proc' = [proc EXCEPT ![p] = [proc[p] EXCEPT !.at = "missing", !.seen = NoSession]]
      /\ "none" \in Probes(proc[p].seen.address)
  BY DEF FindsNobody, Stands
<1>2. Alive(p) /\ proc[p].at \in Asking /\ "missing" \in Asking /\ "missing" \in Places /\ NoSession \in Seen
  BY <1>1 DEF Alive, Asking, Places, LockHeld, Seen
<1>3. Moves(p, "missing", NoSession, proc[p].end)
  BY <1>1, <1>2, ReadMoves DEF LifecycleInv
<1>4. proc[p].end # "stopped"
  BY <1>1, <1>2 DEF LifecycleInv, EndInv, Stands
<1>5. api[proc[p].seen.address] = None
  BY <1>1 DEF Probes
<1>6. Names(proc[p].seen) /\ \A q \in Invocation : Serves(q) => q = proc[p].seen.inst
  BY <1>1 DEF LifecycleInv, SeenInv, Reliable
<1>7. \A q \in Invocation : ~Serves(q)
  <2> SUFFICES ASSUME NEW q \in Invocation, Serves(q) PROVE FALSE
    OBVIOUS
  <2>1. proc[p].seen.address = proc[q].address
    BY <1>6 DEF Names, Alive, Serves, Stands
  <2> QED
    BY <1>5, <2>1, ServesAnswers, LifecycleAssumption
<1>8. Reliable(p, "missing", NoSession)
  BY <1>7 DEF Reliable
<1> QED
  BY <1>1, <1>2, <1>3, <1>4, <1>8, AsksOn

\* A stop goes on without the session, but remembers whom it named.
LEMMA FindsTroubleKeeps ==
  ASSUME LifecycleInv, NEW p \in Invocation, FindsTrouble(p)
  PROVE  LifecycleInv'
<1>1. proc[p].at = "probes" /\ UNCHANGED shared /\ Undiscovered(p)
  BY DEF FindsTrouble, Stands
<1>2. CASE proc[p].phase = "stop"
  <2>1. Steps(p, "unidentified")
    BY <1>1, <1>2 DEF Undiscovered
  <2>2. Names(proc[p].seen) /\ \A q \in Invocation : Serves(q) => q = proc[p].seen.inst
    BY <1>1 DEF LifecycleInv, SeenInv, Reliable
  <2>3. proc[p].seen # NoSession
    BY <2>2, LifecycleAssumption DEF Names, Record, NoSession
  <2>4. Reliable(p, "unidentified", proc[p].seen)
    BY <2>2, <2>3 DEF Reliable
  <2>5. proc[p].at \in Asking /\ "unidentified" \in Asking
    BY <1>1 DEF Asking
  <2> QED
    BY <1>1, <2>1, <2>4, <2>5, StepsKeeps
<1>3. CASE proc[p].phase # "stop"
  <2>1. Departs(p, "failed") /\ "failed" \in Ends \ {"stopped"}
    BY <1>1, <1>3 DEF Undiscovered, Ends
  <2> QED
    BY <1>1, <2>1, DepartsKeeps DEF Asking
<1> QED
  BY <1>2, <1>3

\* From probing to the removal, what p relies on stays the same.
LEMMA GoesOnKeeps ==
  ASSUME LifecycleInv, NEW p \in Invocation, NEW s \in {"asks", "posts", "awaits", "drops", "removes"},
         Steps(p, s), UNCHANGED shared,
         proc[p].at \in {"probes", "asks", "posts", "awaits", "drops"},
         s \in {"drops", "removes"} => Exited(proc[p].seen.inst),
         s = "removes" => session.inst = proc[p].seen.inst
  PROVE  LifecycleInv'
<1>1. Names(proc[p].seen) /\ \A q \in Invocation : Serves(q) => q = proc[p].seen.inst
  BY DEF LifecycleInv, SeenInv, Reliable
<1>2. Reliable(p, s, proc[p].seen)
  BY <1>1 DEF Reliable
<1>3. proc[p].at \in Asking /\ s \in Asking
  BY DEF Asking
<1> QED
  BY <1>2, <1>3, StepsKeeps

\* Nothing is relied on there.
LEMMA GoesFreelyKeeps ==
  ASSUME LifecycleInv, NEW p \in Invocation, NEW s \in {"reads", "running", "borrows", "empties"},
         Steps(p, s), UNCHANGED shared, proc[p].at \in Asking
  PROVE  LifecycleInv'
<1>1. Reliable(p, s, proc[p].seen) /\ s \in Asking
  BY DEF Reliable, Asking
<1> QED
  BY <1>1, StepsKeeps

\* The step FindsHandler keeps LifecycleInv.
LEMMA FindsHandlerKeeps ==
  ASSUME LifecycleInv, NEW p \in Invocation, FindsHandler(p)
  PROVE  LifecycleInv'
<1>1. proc[p].at = "probes" /\ UNCHANGED shared /\ (Departs(p, "retained") \/ Steps(p, "asks"))
  BY DEF FindsHandler, Stands
<1>2. "retained" \in Ends \ {"stopped"} /\ proc[p].at \in Asking
  BY <1>1 DEF Ends, Asking
<1> QED
  BY <1>1, <1>2, DepartsKeeps, GoesOnKeeps

\* The step PreparesAddress keeps LifecycleInv.
LEMMA PreparesAddressKeeps ==
  ASSUME LifecycleInv, NEW p \in Invocation, PreparesAddress(p)
  PROVE  LifecycleInv'
<1>1. /\ proc[p].at = "missing" /\ UNCHANGED shared
      /\ Needed(p) \/ Departs(p, "failed") \/ Departs(p, "retained")
  BY DEF PreparesAddress, Stands
<1>2. /\ "retained" \in Ends \ {"stopped"} /\ "failed" \in Ends \ {"stopped"}
      /\ proc[p].at \in Asking /\ Alive(p)
  BY <1>1 DEF Ends, Asking, Alive
<1>3. CASE Needed(p)
  <2>1. PICK s \in {"reads", "running"} : Moves(p, s, proc[p].seen, proc[p].end)
    BY <1>2, <1>3, NeededMoves DEF LifecycleInv
  <2>2. Reliable(p, s, proc[p].seen) /\ s \in Asking
    BY DEF Reliable, Asking
  <2>3. proc[p].end # "stopped"
    BY <1>1, <1>2 DEF LifecycleInv, EndInv, Stands
  <2> QED
    BY <1>1, <1>2, <2>1, <2>2, <2>3, AsksOn
<1> QED
  BY <1>1, <1>2, <1>3, DepartsKeeps

\* The step GoesWithout keeps LifecycleInv.
LEMMA GoesWithoutKeeps ==
  ASSUME LifecycleInv, NEW p \in Invocation, GoesWithout(p)
  PROVE  LifecycleInv'
<1>1. proc[p].at = "missing" /\ UNCHANGED shared /\ Steps(p, "unidentified")
  BY DEF GoesWithout, Stands
<1>2. Reliable(p, "unidentified", proc[p].seen)
  BY <1>1 DEF LifecycleInv, SeenInv, Reliable
<1>3. proc[p].at \in Asking /\ "unidentified" \in Asking
  BY <1>1 DEF Asking
<1> QED
  BY <1>1, <1>2, <1>3, StepsKeeps

\* The step AsksRecorded keeps LifecycleInv.
LEMMA AsksRecordedKeeps ==
  ASSUME LifecycleInv, NEW p \in Invocation, AsksRecorded(p)
  PROVE  LifecycleInv'
<1>1. /\ proc[p].at = "asks" /\ UNCHANGED shared
      /\ Steps(p, "awaits") \/ Steps(p, "posts") \/ Departs(p, "failed")
  BY DEF AsksRecorded, Stands
<1>2. "failed" \in Ends \ {"stopped"} /\ proc[p].at \in Asking
  BY <1>1 DEF Ends, Asking
<1> QED
  BY <1>1, <1>2, DepartsKeeps, GoesOnKeeps

\* The Handler that is asked is another process; only its work changes.
LEMMA PostsKeeps ==
  ASSUME LifecycleInv, NEW p \in Invocation, Posts(p)
  PROVE  LifecycleInv'
<1> DEFINE q == proc[p].seen.inst
<1>1. proc[p].at = "posts" /\ UNCHANGED shared
  BY DEF Posts, Stands
<1>2. /\ proc[p].at \in Asking /\ Alive(p) /\ proc[p].end # "stopped"
      /\ "failed" \in Ends \ {"stopped"}
  BY <1>1 DEF Asking, Alive, LifecycleInv, EndInv, Stands, Ends
<1>3. Names(proc[p].seen) /\ \A t \in Invocation : Serves(t) => t = proc[p].seen.inst
  BY <1>1 DEF LifecycleInv, SeenInv, Reliable
<1>4. q \in Invocation /\ proc[p].seen.address \in Address
  BY <1>3 DEF Names, Record
<1>5. CASE Departs(p, "failed")
  BY <1>1, <1>2, <1>5, DepartsKeeps
<1>6. CASE api[proc[p].seen.address] = q
  <2>1. q # p /\ Alive(q)
    BY <1>2, <1>4, <1>6, AnswersServes DEF Alive, Serves, Stands
  <2>2. proc[p] \in Process /\ proc[q] \in Process
    BY <1>2, <1>4, <2>1, AliveTyped DEF LifecycleInv
  <2> HIDE DEF q
  <2>3. CASE \E reached \in {"awaits", "leaves"} :
               proc' = [proc EXCEPT ![q].work = "stopping", ![p].at = reached,
                                    ![p].end = IF reached = "leaves" THEN "failed" ELSE @]
    <3>1. PICK reached \in {"awaits", "leaves"} :
            proc' = [proc EXCEPT ![q].work = "stopping", ![p].at = reached,
                                 ![p].end = IF reached = "leaves" THEN "failed" ELSE @]
      BY <2>3
    <3> DEFINE e == IF reached = "leaves" THEN "failed" ELSE proc[p].end
               rp == [proc[p] EXCEPT !.at = reached, !.end = e]
               rq == [proc[q] EXCEPT !.work = "stopping"]
    <3>2. proc' = [[proc EXCEPT ![q] = rq] EXCEPT ![p] = rp]
      BY <1>4, <2>1, <3>1 DEF LifecycleInv, LifecycleTyped
    <3>3. rp \in Process /\ rq \in Process
      <4>1. e \in Ends /\ reached \in Places
        BY <2>2 DEF Process, Places, LockHeld, Asking, Ends
      <4> HIDE DEF e
      <4> QED
        BY <2>2, <4>1 DEF Process
    <3>4. /\ rp.at = reached /\ rp.end = e /\ rp.seen = proc[p].seen /\ rp.address = proc[p].address
          /\ rq.at = proc[q].at /\ rq.end = proc[q].end /\ rq.seen = proc[q].seen
          /\ rq.address = proc[q].address
      BY <2>2 DEF Process
    <3> HIDE DEF rp, rq
    <3>5. ProcTyped' /\ proc'[p] = rp /\ proc'[q] = rq /\ \A t \in Invocation \ {p, q} : proc'[t] = proc[t]
      BY <1>4, <2>1, <3>2, <3>3 DEF LifecycleInv, LifecycleTyped, ProcTyped
    <3>6. Moves(p, reached, proc[p].seen, e)
      BY <3>4, <3>5 DEF Moves, Kept
    <3>7. e # "stopped"
      BY <1>2
    <3> HIDE DEF e
    <3>8. reached \in Asking \cup {"leaves"}
      BY DEF Asking
    <3>9. reached # "leaves" => Reliable(p, reached, proc[p].seen)
      BY <1>3 DEF Reliable
    <3> QED
      BY <1>1, <1>2, <3>6, <3>7, <3>8, <3>9, AsksOn
  <2> QED
    BY <1>5, <2>3 DEF Posts, q
<1> QED
  BY <1>5, <1>6 DEF Posts

\* The step SeesExit keeps LifecycleInv.
LEMMA SeesExitKeeps ==
  ASSUME LifecycleInv, NEW p \in Invocation, SeesExit(p)
  PROVE  LifecycleInv'
<1>1. /\ proc[p].at = "awaits" /\ UNCHANGED shared
      /\ (Exited(proc[p].seen.inst) /\ Steps(p, "drops")) \/ Steps(p, "borrows")
  BY DEF SeesExit, Stands
<1>2. proc[p].at \in Asking
  BY <1>1 DEF Asking
<1> QED
  BY <1>1, <1>2, GoesOnKeeps, GoesFreelyKeeps

\* The Handler that had the record has ended, and no other one serves.
LEMMA ExitedIsSilent ==
  ASSUME LifecycleInv, NEW p \in Invocation, proc[p].at \in {"drops", "removes"}
  PROVE  Silent(p)
<1>1. Exited(proc[p].seen.inst) /\ \A t \in Invocation : Serves(t) => t = proc[p].seen.inst
  BY DEF LifecycleInv, SeenInv, Reliable
<1>2. proc[p].at \in Asking /\ Alive(p)
  BY DEF Asking, Alive
<1>3. \A a \in Address, q \in Invocation : api[a] # q
  BY <1>1, <1>2, AnswersServes DEF Serves, Exited, Stands
<1> QED
  BY <1>2, <1>3, AliveTyped DEF Silent, LifecycleInv, Process

\* The step DropsSession keeps LifecycleInv.
LEMMA DropsSessionKeeps ==
  ASSUME LifecycleInv, NEW p \in Invocation, DropsSession(p)
  PROVE  LifecycleInv'
<1>1. /\ proc[p].at = "drops" /\ UNCHANGED shared
      /\ (session.inst = proc[p].seen.inst /\ Steps(p, "removes")) \/ Stopped(p)
  BY DEF DropsSession, Stands
<1>2. proc[p].at \in Asking /\ Exited(proc[p].seen.inst)
  BY <1>1 DEF Asking, LifecycleInv, SeenInv, Reliable
<1>3. Silent(p) /\ SessionFrame /\ UNCHANGED <<lifecycle, running, api, review>>
  BY <1>1, ExitedIsSilent DEF shared, SessionFrame
<1> QED
  BY <1>1, <1>2, <1>3, GoesOnKeeps, StoppedKeeps

\* removeSession removes what is there by then: nobody's, or still that of the
\* Handler that has ended.
LEMMA RemovesSessionKeeps ==
  ASSUME LifecycleInv, NEW p \in Invocation, RemovesSession(p)
  PROVE  LifecycleInv'
<1>1. /\ proc[p].at = "removes" /\ Stopped(p) /\ session' = NoSession
      /\ UNCHANGED <<lifecycle, running, api, review, cleared>>
  BY DEF RemovesSession, Stands
<1>2. /\ proc[p].at \in Asking /\ Exited(proc[p].seen.inst)
      /\ session.inst \in {None, proc[p].seen.inst}
  BY <1>1 DEF Asking, LifecycleInv, SeenInv, Reliable
<1>3. \A q \in Invocation : proc[q].at \in {"registers", "serves"} => cleared
  BY <1>2, LifecycleAssumption DEF LifecycleInv, SessionInv, Exited, Stands
<1>4. Silent(p) /\ SessionFrame
  BY <1>1, <1>3, ExitedIsSilent DEF SessionFrame
<1> QED
  BY <1>1, <1>2, <1>4, StoppedKeeps

\* The step BorrowsRunning keeps LifecycleInv.
LEMMA BorrowsRunningKeeps ==
  ASSUME LifecycleInv, NEW p \in Invocation, BorrowsRunning(p)
  PROVE  LifecycleInv'
<1>1. proc[p].at = "borrows" /\ running = None /\ Stopped(p) /\ UNCHANGED shared
  BY DEF BorrowsRunning, Stands
<1>2. proc[p].at \in Asking /\ Alive(p)
  BY <1>1 DEF Asking, Alive
<1>3. Silent(p) /\ SessionFrame /\ UNCHANGED <<lifecycle, running, api, review>>
  BY <1>1, <1>2, FreeIsSilent DEF shared, SessionFrame
<1> QED
  BY <1>1, <1>2, <1>3, StoppedKeeps

\* The step WaitsTooLong keeps LifecycleInv.
LEMMA WaitsTooLongKeeps ==
  ASSUME LifecycleInv, NEW p \in Invocation, WaitsTooLong(p)
  PROVE  LifecycleInv'
<1>1. proc[p].at \in Asking /\ Departs(p, "failed") /\ UNCHANGED shared /\ "failed" \in Ends \ {"stopped"}
  BY DEF WaitsTooLong, Asking, Ends
<1> QED
  BY <1>1, DepartsKeeps

\* The step Empties keeps LifecycleInv.
LEMMA EmptiesKeeps ==
  ASSUME LifecycleInv, NEW p \in Invocation, Empties(p)
  PROVE  LifecycleInv'
<1>1. /\ proc[p].at = "empties" /\ running = None /\ session' = NoSession /\ Departs(p, "stopped")
      /\ UNCHANGED <<lifecycle, running, api, review, cleared>>
  BY DEF Empties, Stands
<1>2. proc[p].at \in Asking /\ Alive(p)
  BY <1>1 DEF Asking, Alive
<1>3. Silent(p)
  BY <1>1, <1>2, FreeIsSilent
<1>4. \A q \in Invocation : proc[q].at \notin RunHeld
  BY <1>1, LifecycleAssumption DEF LifecycleInv, LocksInv
<1>5. SessionFrame /\ SameListeners
  BY <1>1, <1>4 DEF SessionFrame, SameListeners, RunHeld, Opening
<1>6. Moves(p, "leaves", proc[p].seen, "stopped")
  BY <1>1, <1>2, DepartsMoves DEF LifecycleInv, Ends
<1>7. LifecycleTyped'
  BY <1>1, <1>6 DEF Moves, ProcTyped, LifecycleInv, LifecycleTyped
<1> QED
  BY <1>1, <1>2, <1>3, <1>5, <1>6, <1>7, AskingKeeps

\* Who listens at the address of p, while p asks.
LEMMA AtAddress ==
  ASSUME LifecycleInv, NEW p \in Invocation, proc[p].at \in Asking
  PROVE  /\ Alive(p) /\ proc[p].end # "stopped" /\ proc[p].address \in Address
         /\ api[proc[p].address] \in Invocation \cup {None, Other}
         /\ "none" \in Probes(proc[p].address) => api[proc[p].address] = None
         /\ "handler" \in Probes(proc[p].address) => api[proc[p].address] \in Invocation
<1>1. Alive(p) /\ proc[p].end # "stopped"
  BY DEF Alive, Asking, LifecycleInv, EndInv, Stands
<1>2. proc[p].address \in Address
  BY <1>1, AliveTyped DEF LifecycleInv, Process
<1> QED
  BY <1>1, <1>2, LifecycleAssumption DEF Probes, LifecycleInv, LifecycleTyped, Listens

\* The step Identifies keeps LifecycleInv.
LEMMA IdentifiesKeeps ==
  ASSUME LifecycleInv, NEW p \in Invocation, Identifies(p)
  PROVE  LifecycleInv'
<1> DEFINE a == proc[p].address
<1>1. proc[p].at = "unidentified" /\ UNCHANGED shared
  BY DEF Identifies, Stands
<1>2. proc[p].at \in Asking /\ "failed" \in Ends \ {"stopped"} /\ "looks" \in Asking
  BY <1>1 DEF Asking, Ends
<1>3. CASE Departs(p, "failed")
  BY <1>1, <1>2, <1>3, DepartsKeeps
<1>4. CASE "none" \in Probes(a) /\ proc[p].seen = NoSession /\ Stopped(p)
  <2>1. \A q \in Invocation : Serves(q) => cleared
    BY <1>1, <1>4 DEF LifecycleInv, SeenInv, Reliable
  <2>2. Silent(p)
    BY <1>2, <1>4, <2>1, AtAddress, AnswersServes, LifecycleAssumption DEF Silent
  <2> QED
    BY <1>1, <1>2, <1>4, <2>2, StoppedKeeps DEF shared, SessionFrame
<1>5. CASE "handler" \in Probes(a) /\ Steps(p, "looks")
  <2>1. PICK q \in Invocation : api[a] = q
    BY <1>2, <1>5, AtAddress
  <2>2. \A t \in Invocation : Serves(t) => proc[t].address = a
    BY <1>2, <2>1, AtAddress, AnswersServes
  <2>3. Reliable(p, "looks", proc[p].seen)
    BY <2>2 DEF Reliable
  <2> QED
    BY <1>1, <1>2, <1>5, <2>3, StepsKeeps
<1> QED
  BY <1>3, <1>4, <1>5 DEF Identifies

\* The step Terminates keeps LifecycleInv.
LEMMA TerminatesKeeps ==
  ASSUME LifecycleInv, NEW p \in Invocation, Terminates(p)
  PROVE  LifecycleInv'
<1> DEFINE a == proc[p].address
           q == api[a]
           r == [inst |-> q]
           rp == [proc[p] EXCEPT !.at = "outlasts", !.seen = r]
<1>1. proc[p].at = "looks" /\ UNCHANGED <<lifecycle, running, review, session, cleared>>
  BY DEF Terminates, Stands
<1>2. /\ proc[p].at \in Asking /\ "failed" \in Ends \ {"stopped"} /\ "outlasts" \in Asking
      /\ "outlasts" \in Places
  BY <1>1 DEF Asking, Ends, Places, LockHeld
<1>3. /\ a \in Address /\ q \in Invocation \cup {None, Other} /\ Alive(p) /\ proc[p].end # "stopped"
      /\ proc[p] \in Process
  BY <1>2, AtAddress, AliveTyped DEF LifecycleInv
<1>4. CASE q = None
  <2>1. Departs(p, "failed") /\ UNCHANGED shared
    BY <1>1, <1>4 DEF Terminates, shared
  <2> QED
    BY <1>2, <2>1, DepartsKeeps
<1>5. \A t \in Invocation : Serves(t) => cleared \/ proc[t].address = a
  BY <1>1 DEF LifecycleInv, SeenInv, Reliable
<1>6. ASSUME Moves(p, "outlasts", r, proc[p].end), q \in (Invocation \cup {Other}) \ {p},
             SameListeners, api' \in Listens
      PROVE  LifecycleInv'
  <2>1. Reliable(p, "outlasts", r)
    BY <1>5, <1>6 DEF Reliable
  <2>2. LifecycleTyped'
    BY <1>1, <1>6 DEF Moves, ProcTyped, LifecycleInv, LifecycleTyped
  <2>3. SessionFrame /\ UNCHANGED <<lifecycle, running>>
    BY <1>1 DEF SessionFrame
  <2> QED
    BY <1>2, <1>3, <1>6, <2>1, <2>2, <2>3, AskingKeeps
<1>7. CASE q = Other
  <2>1. proc' = [proc EXCEPT ![p] = rp]
    <3>1. proc' = [proc EXCEPT ![p].at = "outlasts", ![p].seen = r, ![p].work = @]
      BY <1>7, LifecycleAssumption DEF Terminates
    <3> QED
      BY <1>3, <3>1 DEF Process, LifecycleInv, LifecycleTyped
  <2>2. api' = [api EXCEPT ![a] = None]
    BY <1>7, LifecycleAssumption DEF Terminates
  <2>3. SameListeners /\ api' \in Listens
    BY <1>1, <1>3, <1>7, <2>2, LifecycleAssumption
       DEF SameListeners, LifecycleInv, LifecycleTyped, Listens
  <2>4. r \in Seen
    BY <1>7 DEF Seen
  <2>5. Moves(p, "outlasts", r, proc[p].end)
    BY <1>2, <1>3, <2>1, <2>4, ReadMoves DEF LifecycleInv
  <2>6. q \in (Invocation \cup {Other}) \ {p}
    BY <1>7, LifecycleAssumption
  <2> QED
    BY <1>6, <2>3, <2>5, <2>6
<1>8. CASE q \in Invocation
  <2>1. Alive(q) /\ q # p
    BY <1>2, <1>3, <1>8, AnswersServes DEF Alive, Serves, Stands
  <2>2. proc[q] \in Process
    BY <1>8, <2>1, AliveTyped DEF LifecycleInv
  <2> DEFINE w == IF Accepts(q) THEN "stopping" ELSE proc[q].work
             rq == [proc[q] EXCEPT !.work = w]
  <2>3. r \in Seen
    BY <1>8 DEF Seen
  <2>4. api' = api
    BY <1>8, LifecycleAssumption DEF Terminates
  <2> HIDE DEF q, r
  <2>5. w \in {"idle", "busy", "stopping"}
    BY <2>2 DEF Process
  <2>6. proc' = [[proc EXCEPT ![p] = rp] EXCEPT ![q] = rq]
    <3>1. proc' = [proc EXCEPT ![p].at = "outlasts", ![p].seen = r, ![q].work = w]
      BY <1>8, LifecycleAssumption DEF Terminates, q, r
    <3> QED
      BY <1>3, <1>8, <2>1, <3>1 DEF LifecycleInv, LifecycleTyped
  <2> HIDE DEF w
  <2>7. rp \in Process /\ rq \in Process
    BY <1>2, <1>3, <2>2, <2>3, <2>5 DEF Process
  <2>8. /\ rp.at = "outlasts" /\ rp.seen = r /\ rp.end = proc[p].end /\ rp.address = proc[p].address
        /\ rq.at = proc[q].at /\ rq.end = proc[q].end /\ rq.seen = proc[q].seen
        /\ rq.address = proc[q].address
    BY <1>3, <2>2 DEF Process
  <2> HIDE DEF rp, rq
  <2>9. ProcTyped' /\ proc'[p] = rp /\ proc'[q] = rq /\ \A t \in Invocation \ {p, q} : proc'[t] = proc[t]
    BY <1>8, <2>1, <2>6, <2>7 DEF LifecycleInv, LifecycleTyped, ProcTyped
  <2>10. Moves(p, "outlasts", r, proc[p].end)
    BY <2>8, <2>9 DEF Moves, Kept
  <2>11. SameListeners /\ api' \in Listens
    BY <1>1, <2>4 DEF SameListeners, LifecycleInv, LifecycleTyped
  <2> QED
    BY <1>6, <1>8, <2>1, <2>10, <2>11
<1> QED
  BY <1>3, <1>4, <1>7, <1>8

\* The step Outlasts keeps LifecycleInv.
LEMMA OutlastsKeeps ==
  ASSUME LifecycleInv, NEW p \in Invocation, Outlasts(p)
  PROVE  LifecycleInv'
<1>1. proc[p].at \in {"outlasts", "rechecks"} /\ UNCHANGED shared
  BY DEF Outlasts
<1>2. proc[p].at \in Asking /\ "failed" \in Ends \ {"stopped"} /\ "kills" \in Asking
  BY <1>1 DEF Asking, Ends
<1>3. \A q \in Invocation : Serves(q) => cleared \/ proc[q].address = proc[p].address
  BY <1>1 DEF LifecycleInv, SeenInv, Reliable
<1>4. CASE "none" \in Probes(proc[p].address) /\ Stopped(p)
  <2>1. api[proc[p].address] = None
    BY <1>2, <1>4, AtAddress
  <2>2. ASSUME NEW a \in Address, api[a] \in Invocation PROVE cleared
    BY <1>2, <1>3, <2>1, <2>2, AnswersServes, LifecycleAssumption
  <2>3. Silent(p)
    BY <2>1, <2>2, LifecycleAssumption DEF Silent
  <2> QED
    BY <1>1, <1>2, <1>4, <2>3, StoppedKeeps DEF shared, SessionFrame
<1>5. CASE Steps(p, "kills")
  <2>1. Reliable(p, "kills", proc[p].seen)
    BY <1>1 DEF LifecycleInv, SeenInv, Reliable
  <2> QED
    BY <1>1, <1>2, <1>5, <2>1, StepsKeeps
<1>6. CASE Departs(p, "failed")
  BY <1>1, <1>2, <1>6, DepartsKeeps
<1> QED
  BY <1>4, <1>5, <1>6 DEF Outlasts

\* The step Kills keeps LifecycleInv.
LEMMA KillsKeeps ==
  ASSUME LifecycleInv, NEW p \in Invocation, Kills(p)
  PROVE  LifecycleInv'
<1> DEFINE q == proc[p].seen.inst
<1>1. proc[p].at = "kills"
  BY DEF Kills, Stands
<1>2. proc[p].at \in Asking /\ "failed" \in Ends \ {"stopped"} /\ "rechecks" \in Places
  BY <1>1 DEF Asking, Ends, Places, LockHeld
<1>3. q \in (Invocation \cup {Other}) \ {p}
  BY <1>1 DEF LifecycleInv, SeenInv, Reliable
<1>4. proc[p] \in Process
  BY <1>2, AtAddress, AliveTyped DEF LifecycleInv
<1>5. CASE q = Other \/ Exited(q)
  BY <1>2, <1>5, DepartsKeeps DEF Kills
<1>6. CASE q # Other /\ ~Exited(q)
  <2> DEFINE rp == [proc[p] EXCEPT !.at = "rechecks"]
  <2>1. q \in Invocation /\ q # p
    BY <1>3, <1>6
  <2> HIDE DEF q
  <2>2. proc' = [[proc EXCEPT ![q] = Dead] EXCEPT ![p] = rp] /\ Unheld(q)
    <3>1. proc' = [proc EXCEPT ![q] = Dead, ![p].at = "rechecks"] /\ Unheld(q)
      BY <1>6 DEF Kills, q
    <3> QED
      BY <2>1, <3>1 DEF LifecycleInv, LifecycleTyped
  <2>3. /\ rp \in Process /\ rp.at = "rechecks" /\ rp.seen = proc[p].seen /\ rp.end = proc[p].end
        /\ rp.address = proc[p].address
    BY <1>2, <1>4 DEF Process
  <2> HIDE DEF rp
  <2>4. ProcTyped' /\ proc'[p] = rp /\ proc'[q] = Dead /\ \A t \in Invocation \ {p, q} : proc'[t] = proc[t]
    BY <2>1, <2>2, <2>3 DEF LifecycleInv, LifecycleTyped, ProcTyped
  <2>5. LifecycleTyped'
    BY <2>1, <2>2, <2>4, UnheldCloses DEF LifecycleInv, LifecycleTyped, ProcTyped, Unheld
  <2>6. \A t \in Invocation \ {q} :
          /\ proc'[t].at = proc[t].at \/ (proc[t].at = "kills" /\ proc'[t].at = "rechecks")
          /\ proc'[t].address = proc[t].address
          /\ proc'[t].seen = proc[t].seen
          /\ proc'[t].end = proc[t].end
    BY <1>1, <2>3, <2>4
  <2>7. /\ lifecycle' = (IF lifecycle = q THEN None ELSE lifecycle)
        /\ running' = running \/ (running = q /\ running' = None)
        /\ UNCHANGED <<session, cleared>>
    BY <2>2 DEF Unheld
  <2> QED
    BY <2>1, <2>2, <2>4, <2>5, <2>6, <2>7, UnheldCloses, DeathKeeps
<1> QED
  BY <1>5, <1>6
-----------------------------------------------------------------------------
(***************************************************************************)
(* The steps of serve.                                                     *)
(***************************************************************************)
\* What is so of p at any of them.
LEMMA ServingTyped ==
  ASSUME LifecycleInv, NEW p \in Invocation, proc[p].at \in RunHeld \cup {"running"}
  PROVE  /\ Alive(p) /\ proc[p].end # "stopped" /\ proc[p] \in Process
         /\ proc[p].address \in Address
<1>1. Alive(p)
  BY DEF Alive, RunHeld, Opening, Closing
<1>2. proc[p] \in Process
  BY <1>1, AliveTyped DEF LifecycleInv
<1> QED
  BY <1>1, <1>2 DEF LifecycleInv, EndInv, Stands, RunHeld, Opening, Closing, Process

\* Closing one's own listeners takes none from another process.
LEMMA FreedCloses ==
  ASSUME LifecycleInv, NEW p \in Invocation,
         api' = Freed(api, p) \/ api' = api, review' = Freed(review, p) \/ review' = review
  PROVE  /\ OnlyCloses(p) /\ api' \in Listens /\ review' \in Listens
         /\ api' = Freed(api, p) => \A a \in Address : api'[a] # p
         /\ review' = Freed(review, p) => \A a \in Address : review'[a] # p
BY LifecycleAssumption DEF Freed, OnlyCloses, LifecycleInv, LifecycleTyped, Listens

\* It fails: what was taken is given back.
LEMMA FailingKeeps ==
  ASSUME LifecycleInv, NEW p \in Invocation, NEW s \in {"closes", "withdraws"}, Failing(p, s),
         proc[p].at \in Opening, UNCHANGED shared
  PROVE  LifecycleInv'
<1>1. proc[p].at \in RunHeld /\ s \in Closing /\ s \in Places /\ proc[p].at # "serves"
  BY DEF RunHeld, Opening, Closing, Places
<1>2. Moves(p, s, proc[p].seen, "failed")
  BY <1>1, ServingTyped, FailingMoves DEF LifecycleInv
<1>3. LifecycleTyped' /\ OnlyCloses(p) /\ SessionFrame /\ lifecycle' = lifecycle /\ running' = running
  BY <1>2 DEF Moves, ProcTyped, LifecycleInv, LifecycleTyped, OnlyCloses, SessionFrame, shared
<1> QED
  BY <1>1, <1>2, <1>3, ClosingKeeps

\* The step TakesRunning keeps LifecycleInv.
LEMMA TakesRunningKeeps ==
  ASSUME LifecycleInv, NEW p \in Invocation, TakesRunning(p)
  PROVE  LifecycleInv'
<1>1. /\ proc[p].at = "running" /\ running = None /\ running' = p /\ Steps(p, "listens")
      /\ UNCHANGED <<lifecycle, api, review, session, cleared>>
  BY DEF TakesRunning, Stands
<1>2. "listens" \in Opening /\ "listens" \in Places
  BY DEF Opening, Places, LockHeld
<1>3. Moves(p, "listens", proc[p].seen, proc[p].end)
  BY <1>1, <1>2, ServingTyped, StepsMoves DEF LifecycleInv
<1>4. LifecycleTyped'
  BY <1>1, <1>3 DEF Moves, ProcTyped, LifecycleInv, LifecycleTyped
<1> QED
  BY <1>1, <1>2, <1>3, <1>4, OpeningKeeps

\* The step ListensApi keeps LifecycleInv.
LEMMA ListensApiKeeps ==
  ASSUME LifecycleInv, NEW p \in Invocation, ListensApi(p)
  PROVE  LifecycleInv'
<1>1. /\ proc[p].at = "listens" /\ proc[p].at \in Opening /\ proc[p].at \in RunHeld
      /\ UNCHANGED <<lifecycle, running, review, session, cleared>>
  BY DEF ListensApi, Stands, Opening, RunHeld
<1>2. CASE api[proc[p].address] = None
  <2>1. Steps(p, "listens2") /\ api' = [api EXCEPT ![proc[p].address] = p]
    BY <1>2 DEF ListensApi
  <2>2. "listens2" \in Opening /\ "listens2" \in Places
    BY DEF Opening, Places, LockHeld
  <2>3. Moves(p, "listens2", proc[p].seen, proc[p].end)
    BY <1>1, <2>1, <2>2, ServingTyped, StepsMoves DEF LifecycleInv
  <2>4. LifecycleTyped'
    BY <1>1, <2>1, <2>3 DEF Moves, ProcTyped, LifecycleInv, LifecycleTyped, Listens
  <2> QED
    BY <1>1, <1>2, <2>1, <2>2, <2>3, <2>4, OpeningKeeps
<1>3. CASE api[proc[p].address] # None
  <2>1. Failing(p, "closes") /\ UNCHANGED shared
    BY <1>1, <1>3 DEF ListensApi, shared
  <2> QED
    BY <1>1, <2>1, FailingKeeps
<1> QED
  BY <1>2, <1>3

\* The step ListensReview keeps LifecycleInv.
LEMMA ListensReviewKeeps ==
  ASSUME LifecycleInv, NEW p \in Invocation, ListensReview(p)
  PROVE  LifecycleInv'
<1>1. /\ proc[p].at = "listens2" /\ proc[p].at \in Opening /\ proc[p].at \in RunHeld
      /\ UNCHANGED <<lifecycle, running, api, session, cleared>>
  BY DEF ListensReview, Stands, Opening, RunHeld
<1>2. CASE review[proc[p].address] = None
  <2>1. Steps(p, "saves") /\ review' = [review EXCEPT ![proc[p].address] = p]
    BY <1>2 DEF ListensReview
  <2>2. "saves" \in Opening /\ "saves" \in Places
    BY DEF Opening, Places, LockHeld
  <2>3. Moves(p, "saves", proc[p].seen, proc[p].end)
    BY <1>1, <2>1, <2>2, ServingTyped, StepsMoves DEF LifecycleInv
  <2>4. LifecycleTyped'
    BY <1>1, <2>1, <2>3 DEF Moves, ProcTyped, LifecycleInv, LifecycleTyped, Listens
  <2> QED
    BY <1>1, <1>2, <2>1, <2>2, <2>3, <2>4, OpeningKeeps
<1>3. CASE review[proc[p].address] # None
  <2>1. Failing(p, "closes") /\ UNCHANGED shared
    BY <1>1, <1>3 DEF ListensReview, shared
  <2> QED
    BY <1>1, <2>1, FailingKeeps
<1> QED
  BY <1>2, <1>3

\* The step SavesSession keeps LifecycleInv.
LEMMA SavesSessionKeeps ==
  ASSUME LifecycleInv, NEW p \in Invocation, SavesSession(p)
  PROVE  LifecycleInv'
<1>1. /\ proc[p].at = "saves" /\ proc[p].at \in Opening /\ proc[p].at \in RunHeld
      /\ UNCHANGED <<lifecycle, running, api, review>>
  BY DEF SavesSession, Stands, Opening, RunHeld
<1>2. CASE /\ session' = [inst |-> p, address |-> proc[p].address]
           /\ cleared' = FALSE /\ Steps(p, "registers")
  <2>1. "registers" \in Opening /\ "registers" \in Places
    BY DEF Opening, Places, LockHeld
  <2>2. Moves(p, "registers", proc[p].seen, proc[p].end)
    BY <1>1, <1>2, <2>1, ServingTyped, StepsMoves DEF LifecycleInv
  <2>3. LifecycleTyped'
    BY <1>1, <1>2, <2>2, ServingTyped DEF Moves, ProcTyped, LifecycleInv, LifecycleTyped, Record
  <2> QED
    BY <1>1, <1>2, <2>1, <2>2, <2>3, OpeningKeeps
<1>3. CASE Failing(p, "closes") /\ UNCHANGED <<session, cleared>>
  BY <1>1, <1>3, FailingKeeps DEF shared
<1> QED
  BY <1>2, <1>3 DEF SavesSession

\* The step Registers keeps LifecycleInv.
LEMMA RegistersKeeps ==
  ASSUME LifecycleInv, NEW p \in Invocation, Registers(p)
  PROVE  LifecycleInv'
<1>1. /\ proc[p].at = "registers" /\ proc[p].at \in Opening /\ proc[p].at \in RunHeld
      /\ UNCHANGED <<running, api, review, session, cleared>>
  BY DEF Registers, Stands, Opening, RunHeld
<1>2. CASE Steps(p, "serves") /\ lifecycle' = None
  <2>1. "serves" \in Places
    BY DEF Places, RunHeld
  <2>2. Moves(p, "serves", proc[p].seen, proc[p].end)
    BY <1>1, <1>2, <2>1, ServingTyped, StepsMoves DEF LifecycleInv
  <2>3. LifecycleTyped'
    BY <1>1, <2>2 DEF Moves, ProcTyped, LifecycleInv, LifecycleTyped
  <2> QED
    BY <1>1, <1>2, <2>2, <2>3, OpeningKeeps
<1>3. CASE Failing(p, "withdraws") /\ UNCHANGED lifecycle
  BY <1>1, <1>3, FailingKeeps DEF shared
<1> QED
  BY <1>2, <1>3 DEF Registers

\* The work of a Handler is nobody else's concern.
LEMMA WorkKeeps ==
  ASSUME LifecycleInv, NEW p \in Invocation, proc[p].at = "serves",
         NEW w \in {"idle", "busy", "stopping"}, proc' = [proc EXCEPT ![p].work = w],
         UNCHANGED shared
  PROVE  LifecycleInv'
<1>1. proc[p] \in Process
  BY ServingTyped DEF RunHeld
<1>2. [proc[p] EXCEPT !.work = w] \in Process
  BY <1>1 DEF Process
<1>3. LifecycleTyped'
  BY <1>2 DEF LifecycleInv, LifecycleTyped, shared
<1>4. \A q \in Invocation : Kept(q)
  BY <1>1 DEF Kept, Process, LifecycleInv, LifecycleTyped
<1>5. SameListeners
  BY DEF SameListeners, shared
<1> QED
  BY <1>3, <1>4, <1>5, StillKeeps DEF shared

\* It begins to close its listeners, or loses both.
LEMMA ServeClosesKeeps ==
  ASSUME LifecycleInv, NEW p \in Invocation, ServeFails(p) \/ ShutsApi(p)
  PROVE  LifecycleInv'
<1>1. proc[p].at = "serves" /\ UNCHANGED <<lifecycle, running, session, cleared>>
  BY DEF ServeFails, ShutsApi, Stands
<1>2. proc[p].at \in RunHeld /\ "shuts" \in Places /\ "withdraws" \in Places
  BY <1>1 DEF RunHeld, Places, Closing
<1>3. SessionFrame
  BY <1>1 DEF SessionFrame
<1>4. ASSUME NEW s \in {"shuts", "withdraws"}, NEW e, Moves(p, s, proc[p].seen, e), e # "stopped",
             api' = Freed(api, p), review' = Freed(review, p) \/ review' = review
      PROVE  LifecycleInv'
  <2>1. LifecycleTyped'
    BY <1>1, <1>4, FreedCloses DEF Moves, ProcTyped, LifecycleInv, LifecycleTyped
  <2>2. s \in Closing /\ s \notin {"unlocks", "leaves"}
    BY DEF Closing
  <2> QED
    BY <1>1, <1>2, <1>3, <1>4, <2>1, <2>2, FreedCloses, ClosingKeeps
<1>5. CASE ServeFails(p)
  <2>1. Moves(p, "withdraws", proc[p].seen, "failed")
    BY <1>2, <1>5, ServingTyped, FailingMoves DEF ServeFails, LifecycleInv
  <2> QED
    BY <1>4, <1>5, <2>1 DEF ServeFails
<1>6. CASE ShutsApi(p)
  <2>1. Moves(p, "shuts", proc[p].seen, proc[p].end)
    BY <1>2, <1>6, ServingTyped, StepsMoves DEF ShutsApi, LifecycleInv
  <2> QED
    BY <1>2, <1>4, <1>6, <2>1, ServingTyped DEF ShutsApi
<1> QED
  BY <1>5, <1>6

\* The rest of the way out.
LEMMA GivesBackKeeps ==
  ASSUME LifecycleInv, NEW p \in Invocation, NEW s \in (Closing \ {"shuts"}) \cup {"leaves"},
         Steps(p, s), proc[p].at \in Closing,
         api' = Freed(api, p) \/ api' = api, review' = Freed(review, p) \/ review' = review,
         s = "unlocks" => api' = Freed(api, p) /\ review' = Freed(review, p),
         s = "leaves" => proc[p].at = "unlocks",
         running' = (IF s = "leaves" THEN None ELSE running),
         session' \in {session, NoSession}, UNCHANGED <<lifecycle, cleared>>
  PROVE  LifecycleInv'
<1>1. proc[p].at \in RunHeld /\ s \in Places /\ proc[p].at # "serves"
  BY DEF RunHeld, Places, Closing
<1>2. Moves(p, s, proc[p].seen, proc[p].end) /\ proc[p].end # "stopped"
  BY <1>1, ServingTyped, StepsMoves DEF LifecycleInv
<1>3. \A q \in Invocation : proc[q].at \in {"registers", "serves"} => q = p
  BY <1>1 DEF LifecycleInv, LocksInv, RunHeld, Opening
<1>4. SessionFrame
  BY <1>3 DEF SessionFrame, Closing
<1>5. LifecycleTyped'
  BY <1>2, FreedCloses DEF Moves, ProcTyped, LifecycleInv, LifecycleTyped
<1>6. s = "leaves" => \A a \in Address : api'[a] # p /\ review'[a] # p
  <2>1. s = "leaves" => \A a \in Address : api[a] # p /\ review[a] # p
    BY DEF LifecycleInv, ListensInv, Open
  <2> QED
    BY <2>1, FreedCloses DEF OnlyCloses
<1> QED
  BY <1>1, <1>2, <1>4, <1>5, <1>6, FreedCloses, ClosingKeeps

\* Every step of a Handler that serves keeps LifecycleInv.
LEMMA ServeStepKeeps ==
  ASSUME LifecycleInv, NEW p \in Invocation, ServeStep(p)
  PROVE  LifecycleInv'
<1> USE DEF Stands
<1>1. CASE TakesRunning(p)
  BY <1>1, TakesRunningKeeps
<1>2. CASE ListensApi(p)
  BY <1>2, ListensApiKeeps
<1>3. CASE ListensReview(p)
  BY <1>3, ListensReviewKeeps
<1>4. CASE SavesSession(p)
  BY <1>4, SavesSessionKeeps
<1>5. CASE Registers(p)
  BY <1>5, RegistersKeeps
<1>6. CASE Works(p)
  <2>1. \E w \in {"idle", "busy", "stopping"} : proc' = [proc EXCEPT ![p].work = w]
    BY <1>6 DEF Works
  <2> QED
    BY <1>6, <2>1, WorkKeeps DEF Works
<1>7. CASE Signalled(p)
  BY <1>7, WorkKeeps DEF Signalled
<1>8. CASE ServeFails(p) \/ ShutsApi(p)
  BY <1>8, ServeClosesKeeps
<1>9. CASE ShutsReview(p)
  BY <1>9, GivesBackKeeps DEF ShutsReview, Closing
<1>10. CASE WithdrawsSession(p)
  <2>1. \E s \in {"unrecords", "closes"} : Steps(p, s)
    BY <1>10 DEF WithdrawsSession
  <2> QED
    BY <1>10, <2>1, GivesBackKeeps DEF WithdrawsSession, Closing, shared
<1>11. CASE UnrecordsSession(p)
  BY <1>11, GivesBackKeeps DEF UnrecordsSession, Closing
<1>12. CASE ClosesListeners(p)
  BY <1>12, GivesBackKeeps DEF ClosesListeners, Closing
<1>13. CASE ReleasesRunning(p)
  BY <1>13, GivesBackKeeps DEF ReleasesRunning, Closing
<1> QED
  BY <1>1, <1>2, <1>3, <1>4, <1>5, <1>6, <1>7, <1>8, <1>9, <1>10, <1>11, <1>12, <1>13 DEF ServeStep
-----------------------------------------------------------------------------
(***************************************************************************)
(* The computer around them, and the theorems.                             *)
(***************************************************************************)
LEMMA CommandStepKeeps ==
  ASSUME LifecycleInv, NEW p \in Invocation, CommandStep(p)
  PROVE  LifecycleInv'
<1>1. CASE GivesUp(p)
  <2>1. "failed" \in Ends \ {"stopped"}
    BY DEF Ends
  <2> QED
    BY <1>1, <2>1, DepartsKeeps DEF GivesUp, Stands
<1> QED
  BY <1>1, TakesLifecycleKeeps, CommandEndsKeeps, ReadsSessionKeeps, FindsNobodyKeeps,
     FindsTroubleKeeps, FindsHandlerKeeps, PreparesAddressKeeps, GoesWithoutKeeps,
     AsksRecordedKeeps, PostsKeeps, SeesExitKeeps, DropsSessionKeeps, RemovesSessionKeeps,
     BorrowsRunningKeeps, WaitsTooLongKeeps, EmptiesKeeps, IdentifiesKeeps, TerminatesKeeps,
     OutlastsKeeps, KillsKeeps
     DEF CommandStep

\* What listens and is no Handler, and the cache that the user empties.
LEMMA AroundKeeps ==
  ASSUME LifecycleInv, (\E a \in Address : OtherListens(a) \/ OtherCloses(a)) \/ CacheCleared
  PROVE  LifecycleInv'
<1>1. \A q \in Invocation : Kept(q)
  BY DEF Kept, OtherListens, OtherCloses, CacheCleared
<1>2. UNCHANGED <<proc, lifecycle, running>> /\ SameListeners /\ api' \in Listens /\ review' = review
  BY LifecycleAssumption
     DEF SameListeners, OtherListens, OtherCloses, CacheCleared, Listens, LifecycleInv, LifecycleTyped
<1>3. UNCHANGED <<session, cleared>> \/ (session' = NoSession /\ cleared' = TRUE)
  BY DEF OtherListens, OtherCloses, CacheCleared
<1>4. LifecycleTyped'
  BY <1>2, <1>3 DEF LifecycleInv, LifecycleTyped
<1> QED
  BY <1>1, <1>2, <1>3, <1>4, StillKeeps

\* LifecycleInv holds initially.
LEMMA LifecycleInitially ==
  ASSUME LifecycleInit
  PROVE  LifecycleInv
<1> USE LifecycleAssumption DEF LifecycleInit, Unborn
<1>1. LifecycleTyped
  BY DEF LifecycleTyped, Listens
<1>2. LocksInv /\ ListensInv
  BY DEF LocksInv, ListensInv, LockHeld, RunHeld, Asking, Opening, Closing, Open
<1>3. SessionInv /\ SeenInv /\ EndInv
  BY DEF SessionInv, SeenInv, Reliable, EndInv, Alive
<1> QED
  BY <1>1, <1>2, <1>3 DEF LifecycleInv

\* The locks, the listeners, the session and what each command may rely on hold
\* together whichever commands race, die or wait too long.
LEMMA LifecycleInductive == LifecycleSpec => []LifecycleInv
<1>1. LifecycleInit => LifecycleInv
  BY LifecycleInitially
<1>2. LifecycleInv /\ [LifecycleNext]_lifecycleVars => LifecycleInv'
  <2> SUFFICES ASSUME LifecycleInv, [LifecycleNext]_lifecycleVars
               PROVE  LifecycleInv'
    OBVIOUS
  <2>1. CASE LifecycleNext
    BY <2>1, InvokedKeeps, CommandStepKeeps, ServeStepKeeps, CommandDiesKeeps, AroundKeeps
       DEF LifecycleNext
  <2>2. CASE UNCHANGED lifecycleVars
    <3>1. \A q \in Invocation : Kept(q)
      BY <2>2 DEF Kept, lifecycleVars
    <3>2. LifecycleTyped' /\ SameListeners /\ UNCHANGED <<lifecycle, running, session, cleared>>
      BY <2>2 DEF SameListeners, lifecycleVars, LifecycleInv, LifecycleTyped
    <3> QED
      BY <3>1, <3>2, StillKeeps
  <2> QED
    BY <2>1, <2>2
<1> QED
  BY <1>1, <1>2, PTL DEF LifecycleSpec

\* The Handler that serves is the one its session names, unless the user has
\* emptied the cache, and nobody else listens or serves (run.go, lifecycle.go):
\* for any number of commands, any of which may die at any step.
THEOREM HandlerIsRecordedHolds == LifecycleSpec => []HandlerIsRecorded
<1>1. LifecycleInv => HandlerIsRecorded
  BY DEF LifecycleInv, LocksInv, ListensInv, SessionInv, HandlerIsRecorded, Listening, Open, Stands
<1> QED
  BY <1>1, LifecycleInductive, PTL

\* A stop or uninstall that reports success leaves no Handler that answers at
\* its address, and none at all that had a record (stopInstance in lifecycle.go),
\* for any number of commands and addresses.
THEOREM StoppedIsSilentHolds == LifecycleSpec => []StoppedIsSilent
<1>1. LifecycleInv => StoppedIsSilent
  BY DEF LifecycleInv, EndInv, StoppedIsSilent, Silent, Alive, Stands
<1> QED
  BY <1>1, LifecycleInductive, PTL
-----------------------------------------------------------------------------
(***************************************************************************)
(* The weights: for any selection, and any number of copies and restarts.  *)
(***************************************************************************)
Statuses == {"ready", "missing", "failed", "preparing"}
ShownItem == [kind : {"image", "weight"}, id : Weight \cup {DataImage}, status : Statuses]

\* Where prepareExecution has marked the item of the model at the head.
CopySteps == {"there", "copy", "reads", "rest", "hash", "fails"}

ShownTyped ==
  /\ shown = [preparing |-> shown.preparing, models |-> shown.models,
              items |-> shown.items, status |-> shown.status]
  /\ shown.preparing \in BOOLEAN
  /\ shown.models \in Seq(Weight)
  /\ shown.items \in Seq(ShownItem)

PrepTyped ==
  /\ prep = [at |-> prep.at, images |-> prep.images, models |-> prep.models, found |-> prep.found]
  /\ prep.images \in Seq(Weight \cup {DataImage})
  /\ prep.models \in Seq(Weight)

FilesTyped ==
  /\ docker \in BOOLEAN /\ image \in [Weight \cup {DataImage} -> {"ready", "missing"}]
  /\ placed \in [Copied -> {"other", "pinned"}] /\ target \in [Copied -> {"other", "pinned"}]

\* An item that says preparing is the first one of the weights that are being
\* copied.
First(i) ==
  \A j \in DOMAIN shown.items :
    shown.items[j].kind = "weight" /\ shown.items[j].id = shown.items[i].id => i <= j

ItemsInv ==
  \A i \in DOMAIN shown.items :
    /\ shown.items[i].kind = "weight" => shown.items[i].id \in Weight
    /\ shown.items[i].status = "preparing" =>
         /\ prep.at \in CopySteps
         /\ shown.items[i].kind = "weight" /\ shown.items[i].id = Head(prep.models)
         /\ First(i)

\* What the goroutine may rely on although it works without the lock.
PrepInv ==
  /\ shown.preparing <=> prep.at # "none"
  /\ prep.at \in CopySteps => prep.models # <<>> /\ Head(prep.models) \in Copied
  /\ prep.at = "there" => target[Head(prep.models)] = "pinned"
  /\ prep.at = "inspected" => prep.found \in {"ready", "missing", "failed"} /\ prep.images # <<>>

ResourcesInv == ShownTyped /\ PrepTyped /\ FilesTyped /\ ItemsInv /\ PrepInv /\ WeightsAreShown

\* docker image inspect never says that an image is being prepared.
LEMMA StatusOfImage ==
  ASSUME FilesTyped, NEW i \in Weight \cup {DataImage}
  PROVE  imageStatus(i) \in {"ready", "missing", "failed"}
BY DEF imageStatus, FilesTyped

\* Nor does the item of a weight, which is ready only when it is true.
LEMMA StatusOfWeight ==
  ASSUME FilesTyped, NEW m \in Weight
  PROVE  /\ weightItem(m) \in ShownItem
         /\ weightItem(m).kind = "weight" /\ weightItem(m).id = m
         /\ weightItem(m).status # "preparing"
         /\ weightItem(m).status = "ready" /\ m \notin Embedded => target[m] = "pinned"
BY StatusOfImage DEF weightItem, Item, ShownItem, Statuses

\* The items of a new snapshot are typed, and ready only if the weight is whole.
LEMMA ItemsSound ==
  ASSUME FilesTyped, NEW models \in Seq(Weight)
  PROVE  /\ Items(models) \in Seq(ShownItem)
         /\ \A i \in DOMAIN Items(models) :
              LET item == Items(models)[i]
              IN /\ item.kind = "weight" => item.id \in Weight
                 /\ item.status # "preparing"
                 /\ item.kind = "weight" /\ item.status = "ready" /\ item.id \notin Embedded =>
                      target[item.id] = "pinned"
<1> DEFINE n == 2 * Len(models) + 1
           S(item) == /\ item \in ShownItem
                      /\ item.kind = "weight" => item.id \in Weight
                      /\ item.status # "preparing"
                      /\ item.kind = "weight" /\ item.status = "ready" /\ item.id \notin Embedded =>
                           target[item.id] = "pinned"
<1>1. ASSUME NEW m \in Weight \cup {DataImage}
      PROVE  S(Item("image", m, imageStatus(m)))
  BY StatusOfImage DEF Item, ShownItem, Statuses
<1>2. ASSUME NEW m \in Weight
      PROVE  S(weightItem(m))
  BY StatusOfWeight
<1> HIDE DEF S
<1>3. n \in Nat
  OBVIOUS
<1>4. Items(models) = [k \in 1..n |->
        IF k = 1 THEN Item("image", DataImage, imageStatus(DataImage))
        ELSE IF k % 2 = 0 THEN Item("image", models[k \div 2], imageStatus(models[k \div 2]))
        ELSE weightItem(models[k \div 2])]
  BY DEF Items
<1>5. ASSUME NEW k \in 1..n PROVE S(Items(models)[k])
  <2>1. CASE k = 1
    BY <1>1, <1>4, <2>1
  <2>2. CASE k # 1
    <3>1. k \div 2 \in 1..Len(models)
      BY <2>2
    <3>2. PICK m : m = models[k \div 2]
      OBVIOUS
    <3>3. m \in Weight
      BY <3>1, <3>2
    <3>4. Items(models)[k] = Item("image", m, imageStatus(m)) \/ Items(models)[k] = weightItem(m)
      BY <1>4, <2>2, <3>2
    <3> QED
      BY <1>1, <1>2, <3>3, <3>4
  <2> QED
    BY <2>1, <2>2
<1>6. DOMAIN Items(models) = 1..n
  BY <1>4
<1> HIDE DEF n
<1>7. \A k \in 1..n : Items(models)[k] \in ShownItem
  BY <1>5 DEF S
<1>8. Items(models) \in Seq(ShownItem)
  <2>1. Items(models) = [k \in 1..n |-> Items(models)[k]]
    BY <1>4
  <2> QED
    BY <1>3, <1>7, <2>1, SeqDef
<1> QED
  BY <1>5, <1>6, <1>8 DEF S

\* What an update of one item leaves: kinds and names stay, and the first item of
\* that kind and name, if there is one, is the new one.
LEMMA UpdatedItems ==
  ASSUME ShownTyped, NEW item \in ShownItem, Updated(item)
  PROVE  /\ ShownTyped' /\ shown'.preparing = shown.preparing
         /\ DOMAIN shown'.items = DOMAIN shown.items
         /\ \A i \in DOMAIN shown.items :
              /\ \/ shown'.items[i] = shown.items[i]
                 \/ shown'.items[i] = item /\ (item.kind = "weight" => First(i))
              /\ shown'.items[i].kind = shown.items[i].kind /\ shown'.items[i].id = shown.items[i].id
              /\ shown.items[i].kind = item.kind /\ shown.items[i].id = item.id /\ First(i)
                   /\ item.kind = "weight" => shown'.items[i] = item
<1> DEFINE like == {i \in DOMAIN shown.items :
                      shown.items[i].kind = item.kind /\ shown.items[i].id = item.id}
           items == [i \in DOMAIN shown.items |->
                       IF i \in like /\ \A j \in like : i <= j THEN item ELSE shown.items[i]]
           status == IF shown.preparing THEN "preparing" ELSE groupFromItems(items)
<1>1. shown' = [shown EXCEPT !.items = items, !.status = status]
  BY DEF Updated
<1>2. /\ DOMAIN shown.items = 1..Len(shown.items) /\ Len(shown.items) \in Nat
      /\ \A i \in DOMAIN shown.items : shown.items[i] \in ShownItem
  BY DEF ShownTyped
<1>3. items \in [1..Len(shown.items) -> ShownItem]
  BY <1>2
<1>4. items \in Seq(ShownItem)
  BY <1>2, <1>3, SeqDef
<1>5. /\ DOMAIN items = DOMAIN shown.items
      /\ \A i \in DOMAIN shown.items :
           /\ \/ items[i] = shown.items[i]
              \/ items[i] = item /\ (item.kind = "weight" => First(i))
           /\ items[i].kind = shown.items[i].kind /\ items[i].id = shown.items[i].id
           /\ shown.items[i].kind = item.kind /\ shown.items[i].id = item.id /\ First(i)
                /\ item.kind = "weight" => items[i] = item
  <2>1. ASSUME NEW i \in DOMAIN shown.items
        PROVE  /\ items[i] = shown.items[i] \/ (items[i] = item /\ i \in like)
               /\ items[i] = item => items[i] = shown.items[i] \/ \A j \in like : i <= j
               /\ i \in like /\ First(i) /\ item.kind = "weight" => items[i] = item
    BY <2>1 DEF First
  <2> QED
    BY <2>1 DEF First
<1> HIDE DEF items, status
<1>6. shown' = [preparing |-> shown.preparing, models |-> shown.models, items |-> items,
                status |-> status]
  BY <1>1 DEF ShownTyped
<1> QED
  BY <1>4, <1>5, <1>6 DEF ShownTyped

\* A step of the goroutine that updates an item: what the item says is true, and
\* no other one says that it is being prepared.
LEMMA UpdateKeeps ==
  ASSUME ResourcesInv, NEW item \in ShownItem, Updated(item), shown.preparing,
         item.kind = "weight" => item.id \in Weight,
         item.kind = "weight" /\ item.status = "ready" /\ item.id \notin Embedded =>
           target[item.id] = "pinned",
         item.status = "preparing" =>
           prep'.at \in CopySteps /\ item.kind = "weight" /\ item.id = Head(prep'.models),
         prep.at \in CopySteps => item.kind = "weight" /\ item.id = Head(prep.models),
         UNCHANGED <<target, placed>>
  PROVE  ShownTyped' /\ ItemsInv' /\ WeightsAreShown' /\ shown'.preparing
<1> USE DEF ResourcesInv
<1> DEFINE old == shown.items
           new == shown'.items
<1>0. /\ ShownTyped' /\ shown'.preparing = shown.preparing
      /\ DOMAIN new = DOMAIN old
      /\ \A i \in DOMAIN old :
           /\ new[i] = old[i] \/ (new[i] = item /\ (item.kind = "weight" => First(i)))
           /\ new[i].kind = old[i].kind /\ new[i].id = old[i].id
           /\ old[i].kind = item.kind /\ old[i].id = item.id /\ First(i) /\ item.kind = "weight" =>
                new[i] = item
  BY UpdatedItems
<1>1. ItemsInv'
  <2> SUFFICES ASSUME NEW i \in DOMAIN shown'.items
               PROVE  /\ shown'.items[i].kind = "weight" => shown'.items[i].id \in Weight
                      /\ shown'.items[i].status = "preparing" =>
                           /\ prep'.at \in CopySteps
                           /\ shown'.items[i].kind = "weight"
                           /\ shown'.items[i].id = Head(prep'.models)
                           /\ First(i)'
    BY DEF ItemsInv
  <2>1. i \in DOMAIN old
    BY <1>0
  <2>2. new[i].kind = "weight" => new[i].id \in Weight
    BY <1>0, <2>1 DEF ItemsInv
  <2>3. First(i) => First(i)'
    BY <1>0, <2>1 DEF First
  <2>4. ASSUME new[i].status = "preparing"
        PROVE  new[i] = item /\ item.kind = "weight" /\ First(i)
    <3>1. CASE new[i] = old[i]
      <4>1. /\ prep.at \in CopySteps /\ old[i].kind = "weight" /\ old[i].id = Head(prep.models)
            /\ First(i)
        BY <2>1, <2>4, <3>1 DEF ItemsInv
      <4> QED
        BY <1>0, <2>1, <4>1
    <3>2. CASE new[i] # old[i]
      BY <1>0, <2>1, <2>4, <3>2
    <3> QED
      BY <3>1, <3>2
  <2> QED
    BY <2>2, <2>3, <2>4
<1>2. WeightIsWhole'
  BY DEF WeightsAreShown, WeightIsWhole
<1>3. ReadyIsPinned'
  <2> SUFFICES ASSUME NEW i \in DOMAIN new, new[i].kind = "weight", new[i].status = "ready",
                      new[i].id \notin Embedded
               PROVE  target'[new[i].id] = "pinned"
    BY DEF ReadyIsPinned
  <2>1. CASE new[i] = old[i]
    BY <1>0, <2>1 DEF WeightsAreShown, ReadyIsPinned
  <2>2. CASE new[i] = item
    BY <2>2
  <2> QED
    BY <1>0, <2>1, <2>2
<1> QED
  BY <1>1, <1>2, <1>3, <1>0 DEF WeightsAreShown, SettledIsShown

\* A step that shows nothing: the marked item stays marked, and a file only
\* becomes the pinned one.
LEMMA QuietKeeps ==
  ASSUME ResourcesInv, UNCHANGED <<shown, placed>>, PrepTyped', FilesTyped', PrepInv',
         \A m \in Copied : target'[m] \in {target[m], "pinned"},
         prep.at \in CopySteps => prep'.at \in CopySteps /\ prep'.models = prep.models
  PROVE  ResourcesInv'
<1> USE DEF ResourcesInv
<1>1. ShownTyped'
  BY DEF ShownTyped
<1>2. ItemsInv'
  BY DEF ItemsInv, First
<1>3. WeightIsWhole'
  BY DEF WeightsAreShown, WeightIsWhole
<1>4. ReadyIsPinned'
  <2> SUFFICES ASSUME NEW i \in DOMAIN shown.items, shown.items[i].kind = "weight",
                      shown.items[i].status = "ready", shown.items[i].id \notin Embedded
               PROVE  target'[shown.items[i].id] = "pinned"
    BY DEF ReadyIsPinned
  <2>1. shown.items[i].id \in Copied /\ target[shown.items[i].id] = "pinned"
    BY DEF WeightsAreShown, ReadyIsPinned, ItemsInv, Copied
  <2> QED
    BY <2>1
<1>5. SettledIsShown'
  BY DEF WeightsAreShown, SettledIsShown
<1> QED
  BY <1>1, <1>2, <1>3, <1>4, <1>5 DEF WeightsAreShown

\* A group that is computed anew: nothing in it says that it is being prepared.
LEMMA GroupKeeps ==
  ASSUME ResourcesInv, NEW models \in Seq(Weight), NEW preparing \in BOOLEAN, NEW group,
         group.items = executionGroup(models).items,
         ~preparing => group.status = executionGroup(models).status,
         ShowsGroup(preparing, models, group), UNCHANGED <<target, placed>>
  PROVE  ShownTyped' /\ ItemsInv' /\ WeightsAreShown' /\ shown'.preparing = preparing
<1> DEFINE items == executionGroup(models).items
<1> USE DEF ResourcesInv
<1>1. shown' = [preparing |-> preparing, models |-> models, items |-> items, status |-> group.status]
  BY DEF ShowsGroup
<1>2. /\ items \in Seq(ShownItem)
      /\ \A i \in DOMAIN items :
           /\ items[i].kind = "weight" => items[i].id \in Weight
           /\ items[i].status # "preparing"
           /\ items[i].kind = "weight" /\ items[i].status = "ready" /\ items[i].id \notin Embedded =>
                target[items[i].id] = "pinned"
  <2>1. CASE models = <<>>
    <3>1. items = <<>>
      BY <2>1 DEF executionGroup
    <3>2. items \in Seq(ShownItem) /\ DOMAIN items = {}
      BY <3>1
    <3> QED
      BY <3>2
  <2>2. CASE models # <<>>
    <3>1. items = Items(models)
      BY <2>2 DEF executionGroup
    <3> HIDE DEF items
    <3> QED
      BY <3>1, ItemsSound
  <2> QED
    BY <2>1, <2>2
<1>3. ~preparing /\ items # <<>> => group.status = groupFromItems(items)
  BY DEF executionGroup
<1> HIDE DEF items
<1>4. ShownTyped' /\ shown'.preparing = preparing
  BY <1>1, <1>2 DEF ShownTyped
<1>5. ItemsInv'
  BY <1>1, <1>2 DEF ItemsInv
<1>6. WeightIsWhole' /\ ReadyIsPinned'
  BY <1>1, <1>2 DEF WeightsAreShown, WeightIsWhole, ReadyIsPinned
<1>7. SettledIsShown'
  BY <1>1, <1>2, <1>3 DEF SettledIsShown
<1> QED
  BY <1>4, <1>5, <1>6, <1>7 DEF WeightsAreShown

\* A request that starts a preparation keeps ResourcesInv.
LEMMA PreparesKeeps ==
  ASSUME ResourcesInv, NEW models \in Selection, Prepares(models)
  PROVE  ResourcesInv'
<1>1. models \in Seq(Weight)
  BY ResourcesAssumption, SeqDef DEF Selection
<1> DEFINE group == executionGroup(models)
           shows == IF models # <<>> /\ group.status # "failed"
                    THEN [group EXCEPT !.status = "preparing"] ELSE group
<1>2. /\ ShowsGroup(TRUE, models, shows) /\ UNCHANGED <<docker, image, placed, target>>
      /\ prep' = [at |-> "inspect", images |-> <<DataImage>> \o models, models |-> models,
                  found |-> "none"]
  BY DEF Prepares, weightFiles
<1>3. shows.items = group.items
  BY DEF executionGroup
<1> HIDE DEF shows
<1>4. ShownTyped' /\ ItemsInv' /\ WeightsAreShown' /\ shown'.preparing
  BY <1>1, <1>2, <1>3, GroupKeeps
<1>5. <<DataImage>> \o models \in Seq(Weight \cup {DataImage})
  <2>1. models \in Seq(Weight \cup {DataImage})
    BY <1>1, SeqMonotonic
  <2>2. <<DataImage>> \in Seq(Weight \cup {DataImage})
    OBVIOUS
  <2> QED
    BY <2>1, <2>2, ConcatProperties
<1>6. PrepTyped' /\ PrepInv'
  BY <1>1, <1>2, <1>4, <1>5 DEF PrepTyped, PrepInv, CopySteps
<1>7. FilesTyped'
  BY <1>2 DEF FilesTyped, ResourcesInv
<1> QED
  BY <1>4, <1>6, <1>7 DEF ResourcesInv

\* So does one that refreshes the snapshot,
LEMMA RefreshesKeeps ==
  ASSUME ResourcesInv, Refreshes
  PROVE  ResourcesInv'
<1>1. /\ ShowsGroup(FALSE, shown.models, executionGroup(shown.models))
      /\ UNCHANGED <<docker, image, placed, target, prep>> /\ ~shown.preparing
  BY DEF Refreshes, weightFiles
<1>2. shown.models \in Seq(Weight)
  BY DEF ResourcesInv, ShownTyped
<1>3. ShownTyped' /\ ItemsInv' /\ WeightsAreShown' /\ ~shown'.preparing
  BY <1>1, <1>2, GroupKeeps
<1>4. PrepTyped' /\ FilesTyped' /\ PrepInv'
  BY <1>1, <1>3 DEF PrepTyped, PrepInv, FilesTyped, ResourcesInv
<1> QED
  BY <1>3, <1>4 DEF ResourcesInv
-----------------------------------------------------------------------------
\* The steps of the goroutine that show nothing.
LEMMA QuietPrepKeeps ==
  ASSUME ResourcesInv, Inspects \/ CopyOpens \/ CopyReads \/ CopyFails \/ CopyEnds \/ CopyPlaces
  PROVE  ResourcesInv'
<1> USE DEF ResourcesInv, Doing, Does
<1>0. /\ PrepTyped /\ FilesTyped /\ PrepInv
      /\ prep = [at |-> prep.at, images |-> prep.images, models |-> prep.models, found |-> prep.found]
  BY DEF PrepTyped
<1>1. CASE Inspects
  <2>1. CASE prep.images = <<>>
    <3>1. prep' = [prep EXCEPT !.at = "weight"] /\ prep.at = "inspect"
          /\ UNCHANGED <<docker, image, placed, target, shown>>
      BY <1>1, <2>1 DEF Inspects, weightFiles
    <3>2. PrepTyped' /\ FilesTyped' /\ PrepInv'
      BY <1>0, <3>1 DEF PrepTyped, FilesTyped, PrepInv, CopySteps
    <3> QED
      BY <3>1, <3>2, QuietKeeps DEF CopySteps
  <2>2. CASE prep.images # <<>>
    <3>1. /\ prep' = [prep EXCEPT !.at = "inspected", !.found = imageStatus(Head(prep.images))]
          /\ prep.at = "inspect" /\ UNCHANGED <<docker, image, placed, target, shown>>
      BY <1>1, <2>2 DEF Inspects, weightFiles
    <3>2. Head(prep.images) \in Weight \cup {DataImage}
      BY <1>0, <2>2 DEF PrepTyped
    <3>3. imageStatus(Head(prep.images)) \in {"ready", "missing", "failed"}
      BY <1>0, <3>2, StatusOfImage
    <3>4. PrepTyped' /\ FilesTyped' /\ PrepInv'
      BY <1>0, <2>2, <3>1, <3>3 DEF PrepTyped, FilesTyped, PrepInv, CopySteps
    <3> QED
      BY <3>1, <3>4, QuietKeeps DEF CopySteps
  <2> QED
    BY <2>1, <2>2
<1>2. ASSUME NEW at \in CopySteps \ {"there"}, NEW found,
             prep' = [prep EXCEPT !.at = at, !.found = found], prep.at \in CopySteps,
             UNCHANGED <<docker, image, placed, target, shown>>
      PROVE  ResourcesInv'
  <2>1. PrepTyped' /\ FilesTyped' /\ PrepInv'
    BY <1>0, <1>2 DEF PrepTyped, FilesTyped, PrepInv, CopySteps
  <2>2. prep'.at \in CopySteps /\ prep'.models = prep.models
    BY <1>0, <1>2
  <2> QED
    BY <1>2, <2>1, <2>2, QuietKeeps
<1>3. ASSUME NEW at \in CopySteps \ {"there"}, Does(at), prep.at \in CopySteps,
             UNCHANGED <<docker, image, placed, target, shown>>
      PROVE  ResourcesInv'
  <2>1. prep' = [prep EXCEPT !.at = at, !.found = prep.found]
    BY <1>0, <1>3
  <2> QED
    BY <1>2, <1>3, <2>1
<1>4. CASE CopyOpens
  <2>1. (Does("reads") \/ Does("fails")) /\ prep.at = "copy"
        /\ UNCHANGED <<docker, image, placed, target, shown>>
    BY <1>4 DEF CopyOpens
  <2> QED
    BY <1>3, <2>1 DEF CopySteps
<1>5. CASE CopyReads
  <2>1. /\ prep' = [prep EXCEPT !.at = "rest", !.found = source[Head(prep.models)]]
        /\ prep.at = "reads" /\ UNCHANGED <<docker, image, placed, target, shown>>
    BY <1>5 DEF CopyReads, weightFiles
  <2> QED
    BY <1>2, <2>1 DEF CopySteps
<1>6. CASE CopyFails
  <2>1. prep' = [prep EXCEPT !.at = "fails", !.found = "none"] /\ prep.at \in {"reads", "rest", "hash"}
        /\ UNCHANGED <<docker, image, placed, target, shown>>
    BY <1>6 DEF CopyFails
  <2> QED
    BY <1>2, <2>1 DEF CopySteps
<1>7. CASE CopyEnds
  <2>1. prep' = [prep EXCEPT !.at = "hash", !.found = "none"] /\ prep.at = "rest"
        /\ UNCHANGED <<docker, image, placed, target, shown>>
    BY <1>7 DEF CopyEnds
  <2> QED
    BY <1>2, <2>1 DEF CopySteps
<1>8. CASE CopyPlaces
  <2> DEFINE m == Head(prep.models)
  <2>1. prep.at = "hash" /\ UNCHANGED <<docker, image, placed, shown>>
    BY <1>8 DEF CopyPlaces
  <2>2. m \in Copied /\ prep.models # <<>>
    BY <1>0, <2>1 DEF PrepInv, CopySteps
  <2>3. CASE Does("fails") /\ UNCHANGED target
    BY <1>3, <2>1, <2>3 DEF CopySteps
  <2>4. CASE target' = [target EXCEPT ![m] = "pinned"] /\ Does("there")
    <3>1. /\ target' \in [Copied -> {"other", "pinned"}] /\ target'[m] = "pinned"
          /\ \A x \in Copied : target'[x] \in {target[x], "pinned"}
      BY <1>0, <2>2, <2>4 DEF FilesTyped
    <3>2. FilesTyped'
      BY <1>0, <2>1, <3>1 DEF FilesTyped
    <3>3. /\ PrepTyped' /\ prep'.at = "there" /\ prep'.models = prep.models
          /\ "there" \in CopySteps /\ prep.at \in CopySteps
      BY <1>0, <2>1, <2>4 DEF PrepTyped, CopySteps
    <3>4. PrepInv'
      BY <1>0, <2>1, <2>2, <3>1, <3>3 DEF PrepInv
    <3> QED
      BY <2>1, <3>1, <3>2, <3>3, <3>4, QuietKeeps
  <2> QED
    BY <1>8, <2>3, <2>4 DEF CopyPlaces
<1> QED
  BY <1>1, <1>4, <1>5, <1>6, <1>7, <1>8

\* The steps that update an item, and then go on to the next image or model.
LEMMA UpdatingPrepKeeps ==
  ASSUME ResourcesInv, Inspected \/ WeightEmbedded \/ WeightChecked \/ WeightThere \/ WeightFails
  PROVE  ResourcesInv'
<1> USE DEF Doing, Does
<1>0. /\ PrepTyped /\ FilesTyped /\ PrepInv
      /\ prep = [at |-> prep.at, images |-> prep.images, models |-> prep.models, found |-> prep.found]
  BY DEF PrepTyped, ResourcesInv
<1>1. FilesTyped' /\ shown.preparing /\ UNCHANGED <<target, placed>>
  BY <1>0 DEF Inspected, WeightEmbedded, WeightChecked, WeightThere, WeightFails, weightFiles,
              FilesTyped, PrepInv
<1>2. ASSUME prep.models # <<>>
      PROVE  Head(prep.models) \in Weight /\ Tail(prep.models) \in Seq(Weight)
  BY <1>0, <1>2, HeadTailProperties DEF PrepTyped
<1>3. CASE Inspected
  <2> DEFINE item == Item("image", Head(prep.images), prep.found)
  <2>1. /\ prep.at = "inspected" /\ Updated(item)
        /\ prep' = [prep EXCEPT !.at = IF prep.found = "ready" THEN "inspect" ELSE "finish",
                                !.images = Tail(prep.images), !.found = "none"]
    BY <1>3 DEF Inspected
  <2>2. /\ Head(prep.images) \in Weight \cup {DataImage}
        /\ Tail(prep.images) \in Seq(Weight \cup {DataImage})
        /\ prep.found \in {"ready", "missing", "failed"}
    BY <1>0, <2>1, HeadTailProperties DEF PrepTyped, PrepInv
  <2>3. item \in ShownItem /\ item.kind = "image" /\ item.status # "preparing"
    BY <2>2 DEF Item, ShownItem, Statuses
  <2> HIDE DEF item
  <2>4. ShownTyped' /\ ItemsInv' /\ WeightsAreShown' /\ shown'.preparing
    BY <1>1, <2>1, <2>3, UpdateKeeps DEF CopySteps
  <2>5. PrepTyped' /\ PrepInv'
    BY <1>0, <2>1, <2>2, <2>4 DEF PrepTyped, PrepInv, CopySteps
  <2> QED
    BY <1>1, <2>4, <2>5 DEF ResourcesInv
<1>4. CASE WeightEmbedded
  <2> DEFINE m == Head(prep.models)
             item == weightItem(m)
  <2>1. /\ prep.at = "weight" /\ prep.models # <<>> /\ m \in Embedded /\ Updated(item)
        /\ prep' = [prep EXCEPT !.at = "weight", !.models = Tail(prep.models)]
    BY <1>4 DEF WeightEmbedded, NextModel
  <2>2. m \in Weight
    BY <1>2, <2>1
  <2>3. item \in ShownItem /\ item.kind = "weight" /\ item.id = m /\ item.status # "preparing"
    BY <1>0, <2>2, StatusOfWeight
  <2> HIDE DEF item
  <2>4. ShownTyped' /\ ItemsInv' /\ WeightsAreShown' /\ shown'.preparing
    BY <1>1, <2>1, <2>2, <2>3, UpdateKeeps DEF CopySteps
  <2>5. PrepTyped' /\ PrepInv'
    BY <1>0, <1>2, <2>1, <2>4 DEF PrepTyped, PrepInv, CopySteps
  <2> QED
    BY <1>1, <2>4, <2>5 DEF ResourcesInv
<1>5. CASE WeightChecked
  <2> DEFINE m == Head(prep.models)
             item == Item("weight", m, "preparing")
             at == IF target[m] = "pinned" THEN "there" ELSE "copy"
  <2>1. /\ prep.at = "weight" /\ prep.models # <<>> /\ m \notin Embedded /\ Updated(item)
        /\ prep' = [prep EXCEPT !.at = at]
    BY <1>5 DEF WeightChecked
  <2>2. m \in Weight /\ m \in Copied
    BY <1>2, <2>1 DEF Copied
  <2>3. /\ item \in ShownItem /\ item.kind = "weight" /\ item.id = m /\ item.status = "preparing"
        /\ at \in CopySteps /\ at # "none" /\ at # "inspected"
    BY <2>2 DEF Item, ShownItem, Statuses, CopySteps
  <2>4. prep'.at = at /\ prep'.models = prep.models /\ PrepTyped'
    BY <1>0, <2>1 DEF PrepTyped
  <2>5. at = "there" => target[m] = "pinned"
    OBVIOUS
  <2> HIDE DEF item, at
  <2>6. ShownTyped' /\ ItemsInv' /\ WeightsAreShown' /\ shown'.preparing
    BY <1>1, <2>1, <2>2, <2>3, <2>4, UpdateKeeps DEF CopySteps
  <2>7. PrepInv'
    BY <1>1, <2>1, <2>2, <2>3, <2>4, <2>5, <2>6 DEF PrepInv
  <2> QED
    BY <1>1, <2>4, <2>6, <2>7 DEF ResourcesInv
<1>6. CASE WeightThere \/ WeightFails
  <2> DEFINE m == Head(prep.models)
             item == Item("weight", m, IF WeightThere THEN "ready" ELSE "failed")
  <2>1. /\ prep.at \in {"there", "fails"} /\ Updated(item)
        /\ \/ prep' = [prep EXCEPT !.at = "weight", !.models = Tail(prep.models)]
           \/ prep' = [prep EXCEPT !.at = "finish"]
        /\ WeightThere => prep.at = "there"
    BY <1>6 DEF WeightThere, WeightFails, NextModel
  <2>2. m \in Weight /\ prep.models # <<>> /\ prep.at \in CopySteps
    BY <1>0, <1>2, <2>1 DEF PrepInv, CopySteps
  <2>3. /\ item \in ShownItem /\ item.kind = "weight" /\ item.id = m /\ item.status # "preparing"
        /\ item.status = "ready" => target[m] = "pinned"
    BY <1>0, <2>1, <2>2 DEF Item, ShownItem, Statuses, PrepInv
  <2> HIDE DEF item
  <2>4. ShownTyped' /\ ItemsInv' /\ WeightsAreShown' /\ shown'.preparing
    BY <1>1, <2>1, <2>2, <2>3, UpdateKeeps
  <2>5. PrepTyped' /\ PrepInv'
    BY <1>0, <1>2, <2>1, <2>2, <2>4 DEF PrepTyped, PrepInv, CopySteps
  <2> QED
    BY <1>1, <2>4, <2>5 DEF ResourcesInv
<1> QED
  BY <1>3, <1>4, <1>5, <1>6

\* The end of the preparation: nothing is marked any more.
LEMMA SettlesKeeps ==
  ASSUME ResourcesInv, Settles
  PROVE  ResourcesInv'
<1>1. /\ prep.at \in {"finish", "weight"} /\ prep' = Resting
      /\ shown' = [shown EXCEPT !.preparing = FALSE, !.status = groupFromItems(shown.items)]
      /\ UNCHANGED <<docker, image, target, placed>>
  BY DEF Settles, Finished, Doing, weightFiles
<1>2. shown' = [preparing |-> FALSE, models |-> shown.models, items |-> shown.items,
                status |-> groupFromItems(shown.items)]
  BY <1>1 DEF ResourcesInv, ShownTyped
<1>3. \A i \in DOMAIN shown.items : shown.items[i].status # "preparing"
  BY <1>1 DEF ResourcesInv, ItemsInv, CopySteps
<1>4. ShownTyped' /\ ItemsInv'
  BY <1>2, <1>3 DEF ResourcesInv, ShownTyped, ItemsInv
<1>5. WeightsAreShown'
  BY <1>1, <1>2, <1>3
     DEF ResourcesInv, WeightsAreShown, WeightIsWhole, ReadyIsPinned, SettledIsShown
<1>6. PrepTyped' /\ PrepInv' /\ FilesTyped'
  BY <1>1, <1>2 DEF ResourcesInv, Resting, PrepTyped, PrepInv, FilesTyped, CopySteps
<1> QED
  BY <1>4, <1>5, <1>6 DEF ResourcesInv

\* so does a restart.
LEMMA RestartKeeps ==
  ASSUME ResourcesInv, HandlerRestarts
  PROVE  ResourcesInv'
<1>1. shown' = Unloaded /\ prep' = Resting /\ UNCHANGED <<docker, image, target, placed>>
  BY DEF HandlerRestarts, weightFiles
<1>2. ShownTyped' /\ ItemsInv' /\ PrepTyped' /\ PrepInv' /\ FilesTyped'
  BY <1>1 DEF ResourcesInv, Resting, Unloaded, ShownTyped, ItemsInv, PrepTyped, PrepInv, FilesTyped,
              CopySteps
<1>3. WeightsAreShown'
  BY <1>1
     DEF ResourcesInv, Unloaded, WeightsAreShown, WeightIsWhole, ReadyIsPinned, SettledIsShown
<1> QED
  BY <1>2, <1>3 DEF ResourcesInv

\* Docker, its images and the sources come and go.
LEMMA OutsideKeeps ==
  ASSUME ResourcesInv,
         \/ DockerChanges
         \/ \E i \in Weight \cup {DataImage} : ImageChanges(i)
         \/ \E m \in Copied : SourceChanges(m)
  PROVE  ResourcesInv'
<1>1. UNCHANGED <<shown, placed, target, prep>> /\ FilesTyped'
  BY DEF DockerChanges, ImageChanges, SourceChanges, weightFiles, FilesTyped, ResourcesInv
<1>2. PrepTyped' /\ PrepInv'
  BY <1>1 DEF ResourcesInv, PrepTyped, PrepInv
<1> QED
  BY <1>1, <1>2, QuietKeeps

\* ResourcesInv holds initially.
LEMMA ResourcesInitially ==
  ASSUME ResourcesInit
  PROVE  ResourcesInv
<1>1. ShownTyped /\ ItemsInv /\ PrepTyped /\ PrepInv /\ FilesTyped
  BY DEF ResourcesInit, Resting, Unloaded, ShownTyped, ItemsInv, PrepTyped, PrepInv, FilesTyped,
         CopySteps
<1>2. WeightsAreShown
  BY DEF ResourcesInit, Unloaded, WeightsAreShown, WeightIsWhole, ReadyIsPinned, SettledIsShown
<1> QED
  BY <1>1, <1>2 DEF ResourcesInv

\* What is shown of the weights is true however a copy ends, whatever is asked
\* for and wherever the Handler dies (resources.go, images.go): the file at a
\* weight's path is the one that was there or the pinned one, a ready item's file
\* is the pinned one, and nothing says that it is being prepared for ever. For
\* any models, and selections of any length.
THEOREM WeightsAreShownHolds == ResourcesSpec => []WeightsAreShown
<1>1. ResourcesInit => ResourcesInv
  BY ResourcesInitially
<1>2. ResourcesInv /\ [ResourcesNext]_resourceVars => ResourcesInv'
  <2> SUFFICES ASSUME ResourcesInv, [ResourcesNext]_resourceVars
               PROVE  ResourcesInv'
    OBVIOUS
  <2>1. CASE ResourcesNext
    BY <2>1, PreparesKeeps, RefreshesKeeps, RestartKeeps, OutsideKeeps, QuietPrepKeeps,
       UpdatingPrepKeeps, SettlesKeeps
       DEF ResourcesNext, PrepStep
  <2>2. CASE UNCHANGED resourceVars
    <3>1. UNCHANGED <<shown, placed, target, prep>> /\ PrepTyped' /\ FilesTyped' /\ PrepInv'
      BY <2>2 DEF resourceVars, ResourcesInv, PrepTyped, FilesTyped, PrepInv
    <3> QED
      BY <3>1, QuietKeeps
  <2> QED
    BY <2>1, <2>2
<1>3. ResourcesInv => WeightsAreShown
  BY DEF ResourcesInv
<1> QED
  BY <1>1, <1>2, <1>3, PTL DEF ResourcesSpec
=============================================================================

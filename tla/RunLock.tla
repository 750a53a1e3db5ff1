------------------------------- MODULE RunLock -------------------------------
(***************************************************************************)
(* SingleInstanceLock: the pid file below a verification root. A pass (a   *)
(* thread of the review server, or the run command) creates the file,      *)
(* writes its process's pid, and unlinks the file when it is done. A file  *)
(* whose pid is not that of a live process is unlinked by the next pass.   *)
(*                                                                         *)
(* The file a pass has open may be unlinked by another pass; what is then  *)
(* written goes nowhere. So the file at the path is known by its creator.  *)
(*                                                                         *)
(* Nothing keeps two passes from being inside acquire at once, and then    *)
(* one may take the other's file for stale. The history variables met and  *)
(* taken record that; no guard reads them.                                 *)
(***************************************************************************)
EXTENDS Naturals

CONSTANTS
  Pass, NoPass,   \* threads and commands that take the lock
  Process, Home,  \* processes, each of which lives once; Home[c] runs pass c
  Pid, NoPid,     \* process identifiers; the text of an empty file
  PidOf           \* which identifier a process gets

ASSUME LockAssumption ==
  /\ NoPass \notin Pass /\ NoPid \notin Pid
  /\ Home \in [Pass -> Process]
  /\ PidOf \in [Process -> Pid]

VARIABLES
  life,   \* of each process
  at,     \* where each pass is in acquire and release
  tries,  \* turns of the loop in acquire
  file,   \* who created the file at the path, if there is one
  text,   \* the pid in it
  met,    \* history: who else was inside acquire while a pass is
  taken   \* history: at work with their file taken from them by one they met,
          \* or by the release of one whose own was taken

metVars == <<met, taken>>
lockVars == <<life, at, tries, file, text, metVars>>

Acquiring == {"create", "read", "unlink", "write"}
Up(c) == life[Home[c]] = "up"

\* Types of the lock's state.
LockTypeOK ==
  /\ life \in [Process -> {"new", "up", "dead"}]
  /\ at \in [Pass -> {"idle", "holding"} \cup Acquiring]
  /\ tries \in [Pass -> 0..1]
  /\ file \in Pass \cup {NoPass}
  /\ text \in Pid \cup {NoPid}
  /\ met \in [Pass -> SUBSET Pass] /\ taken \in SUBSET Pass

LockInit ==
  /\ life = [p \in Process |-> "new"]
  /\ at = [c \in Pass |-> "idle"]
  /\ tries = [c \in Pass |-> 0]
  /\ file = NoPass /\ text = NoPid
  /\ met = [c \in Pass |-> {}] /\ taken = {}

\* The system never gives two live processes one pid.
ProcessStarts(p) ==
  /\ life[p] = "new"
  /\ \A q \in Process : life[q] = "up" => PidOf[q] # PidOf[p]
  /\ life' = [life EXCEPT ![p] = "up"]
  /\ UNCHANGED <<at, tries, file, text, metVars>>

\* Its passes are gone and its file stays.
ProcessDies(p) ==
  /\ life[p] = "up"
  /\ life' = [life EXCEPT ![p] = "dead"]
  /\ at' = [c \in Pass |-> IF Home[c] = p THEN "idle" ELSE at[c]]
  /\ tries' = [c \in Pass |-> IF Home[c] = p THEN 0 ELSE tries[c]]
  /\ met' = [c \in Pass |-> IF Home[c] = p THEN {} ELSE met[c]]
  /\ taken' = {c \in taken : Home[c] # p}
  /\ UNCHANGED <<file, text>>

Moves(c, from, next) ==
  /\ at[c] = from
  /\ at' = [at EXCEPT ![c] = next]
  /\ UNCHANGED life

Inside == {d \in Pass : at[d] \in Acquiring}

Enters(c) ==
  /\ Up(c)
  /\ Moves(c, "idle", "create")
  /\ met' = [d \in Pass |-> IF d = c THEN Inside
                            ELSE IF d \in Inside THEN met[d] \cup {c} ELSE met[d]]
  /\ UNCHANGED <<tries, file, text, taken>>

\* os.open with O_CREAT and O_EXCL.
Creates(c) ==
  \/ /\ file = NoPass
     /\ Moves(c, "create", "write")
     /\ file' = c /\ text' = NoPid
     /\ UNCHANGED <<tries, metVars>>
  \/ /\ file # NoPass
     /\ Moves(c, "create", "read")
     /\ UNCHANGED <<tries, file, text, metVars>>

AliveSlip(pid) == FALSE  \* no probe: every lock that is found counts as stale

\* An empty, unreadable or missing file names nobody.
Alive(pid) == pid # NoPid /\ \E p \in Process : life[p] = "up" /\ PidOf[p] = pid

\* The loop is left, with the lock or without it.
Leaves(c) == tries' = [tries EXCEPT ![c] = 0] /\ met' = [met EXCEPT ![c] = {}]

\* Locked: the file is held by a live pid.
Refused(c) ==
  /\ Alive(text)
  /\ Moves(c, "read", "idle")
  /\ Leaves(c)
  /\ UNCHANGED <<file, text, taken>>

FindsStale(c) ==
  /\ ~Alive(text)
  /\ Moves(c, "read", "unlink")
  /\ UNCHANGED <<tries, file, text, metVars>>

Unlinks == file' = NoPass /\ text' = NoPid

\* The pass whose file is at the path, if it is still there.
Owner == {d \in Pass : file = d /\ at[d] # "idle"}

\* Whatever is at the path by now goes; the second turn is the last.
UnlinksStale(c) ==
  /\ Unlinks
  /\ taken' = taken \cup (Owner \cap met[c])
  /\ \/ /\ tries[c] = 0
        /\ Moves(c, "unlink", "create")
        /\ tries' = [tries EXCEPT ![c] = 1]
        /\ UNCHANGED met
     \/ /\ tries[c] = 1
        /\ Moves(c, "unlink", "idle")
        /\ Leaves(c)

WritesSlipByPath(c) ==  \* the pid goes to whichever file is at the path
  /\ Moves(c, "write", "holding")
  /\ text' = PidOf[Home[c]]
  /\ Leaves(c)
  /\ UNCHANGED <<file, taken>>

Writes(c) ==
  /\ Moves(c, "write", "holding")
  /\ text' = IF file = c THEN PidOf[Home[c]] ELSE text
  /\ Leaves(c)
  /\ UNCHANGED <<file, taken>>

ReleasesSlip(c) ==  \* the file stays
  /\ Moves(c, "holding", "idle")
  /\ taken' = taken \ {c}
  /\ UNCHANGED <<tries, file, text, met>>

\* Also the file of another, if this one's own was taken.
Releases(c) ==
  /\ Moves(c, "holding", "idle")
  /\ Unlinks
  /\ taken' = (IF c \in taken THEN taken \cup Owner ELSE taken) \ {c}
  /\ UNCHANGED <<tries, met>>

LockNext ==
  \/ \E p \in Process : ProcessStarts(p) \/ ProcessDies(p)
  \/ \E c \in Pass : Enters(c) \/ Creates(c) \/ Refused(c) \/ FindsStale(c)
                     \/ UnlinksStale(c) \/ Writes(c) \/ Releases(c)

LockSpec == LockInit /\ [][LockNext]_lockVars
-----------------------------------------------------------------------------
\* "A pid file that refuses a second holder": two passes never write one store
\* at a time, not even when a dead process left its file behind.
LockIsExclusive ==
  \A c, d \in Pass : at[c] = "holding" /\ at[d] = "holding" => c = d

\* What is true of it: of two passes that hold the lock at once, one has lost
\* its file to a pass that was inside acquire together with it (or to one that
\* lost its own so). A pass that came later never takes a live holder's file,
\* however many crowd in and whatever dead processes left behind.
ExclusiveUnlessTaken ==
  \A c, d \in Pass : at[c] = "holding" /\ at[d] = "holding" =>
     c = d \/ c \in taken \/ d \in taken

\* A run is turned away by a pid only while another one holds the lock, and
\* gives up after two turns only if it met another in acquire: a process that
\* died cannot block the next run.
RefusedOnlyByHolder ==
  [][\A c \in Pass :
       /\ Refused(c) => \E d \in Pass : at[d] = "holding"
       /\ tries[c] = 1 /\ UnlinksStale(c) => met[c] # {}]_lockVars
-----------------------------------------------------------------------------
(***************************************************************************)
(* The inductive invariants behind the two.                                *)
(***************************************************************************)
\* Whoever has a place in acquire or release is alive; a file with a pid has
\* the pid of its creator, who holds the lock unless it died.
FileInv ==
  /\ \A c \in Pass : at[c] # "idle" => Up(c)
  /\ IF file = NoPass THEN text = NoPid ELSE life[Home[file]] # "new"
  /\ file # NoPass /\ text # NoPid => /\ text = PidOf[Home[file]]
                                      /\ Up(file) => at[file] = "holding"

\* Passes inside acquire together have met; a file that was judged stale and is
\* a live pass's after all is the file of one that was met; who has created a
\* file and is at work has it still, or it was taken; a second turn finds a
\* file only if another pass was met.
OwnerInv ==
  /\ \A c, d \in Inside : c # d => d \in met[c]
  /\ \A c \in Pass : at[c] = "unlink" => Owner \subseteq met[c]
  /\ \A c \in Pass : at[c] \in {"write", "holding"} /\ c \notin taken => file = c
  /\ \A c \in Pass : at[c] = "holding" /\ file = c => text = PidOf[Home[c]]
  /\ \A c \in taken : at[c] \in {"write", "holding"} /\ file # c
  /\ \A c \in Pass : file = c /\ Up(c) => at[c] \in {"write", "holding"}
  /\ \A c \in Pass : tries[c] = 1 =>
       /\ c \in Inside
       /\ met[c] = {} => at[c] = "write" \/ (at[c] = "create" /\ file = NoPass)

\* Together: what acquire, release and a dying process keep true.
LockInv == LockTypeOK /\ FileInv /\ OwnerInv

\* What it takes for RefusedOnlyByHolder: no pid is used again.
FreshPids == \A p, q \in Process : PidOf[p] = PidOf[q] => p = q
=============================================================================

---------------------------- MODULE Verification ----------------------------
(***************************************************************************)
(* Verification passes over one config's tasks: the review server's        *)
(* POST /api/runs and the run command, under RunLock; run_tasks with the   *)
(* transactions it commits to the store; and the edits and the deletion of *)
(* the config by other requests meanwhile, which take no lock.             *)
(*                                                                         *)
(* A task is one frame pair (member, init time, lead). What a config asks  *)
(* of a task is a set of quantities, each a row of the store; rows of one  *)
(* key overwrite each other, so a set of them is all the store can hold.   *)
(* A name that ends in Slip is a mutation for the model checker, as in     *)
(* Execution.                                                              *)
(***************************************************************************)
EXTENDS RunLock

CONSTANTS
  Server,     \* the processes that are review servers, not commands
  Task,       \* what a pass is planned over
  Quantity, First,  \* rows a task may have; those of a new config
  Editor,     \* requests that append metrics to the config
  MaxChanges  \* bound: times the config file is written or deleted

ASSUME VerificationAssumption ==
  /\ Server \subseteq Process
  /\ First \subseteq Quantity /\ First # {}
  /\ MaxChanges \in Nat

VARIABLES
  \* the config file
  config,   \* quantities it asks for, none while there is no file
  changed,  \* how often it was written or deleted
  edit,     \* where each editing request is
  draft,    \* the config it will write
  purging,  \* the file is deleted, its rows not yet
  \* each pass
  phase, want, force, left, now,
  \* its history
  purged,   \* rows were deleted while it was under way
  undone,   \* tasks it could not do
  touched,  \* tasks that another pass wrote to after it was through with them
  \* the store, as committed
  task, rows

configVars == <<config, changed, edit, draft, purging>>
passVars   == <<phase, want, force, left, now>>
pastVars   == <<purged, undone, touched>>
storeVars  == <<task, rows>>
vars == <<lockVars, configVars, passVars, pastVars, storeVars>>

Over == {"done", "failed", "unavailable"}

\* Types of the config, the passes and the store.
TypeOK ==
  /\ LockTypeOK
  /\ config \in SUBSET Quantity /\ changed \in 0..MaxChanges
  /\ edit \in [Editor -> {"idle", "drafted", "checked"}]
  /\ draft \in [Editor -> SUBSET Quantity]
  /\ purging \in BOOLEAN
  /\ phase \in [Pass -> {"idle", "asked", "lock", "pick", "run", "mark", "over"}]
  /\ want \in [Pass -> SUBSET Quantity] /\ force \in [Pass -> BOOLEAN]
  /\ left \in [Pass -> SUBSET Task] /\ now \in [Pass -> SUBSET Task]
  /\ purged \in SUBSET Pass
  /\ undone \in [Pass -> SUBSET Task] /\ touched \in [Pass -> SUBSET Task]
  /\ task \in [Task -> Over \cup {"none", "running"}]
  /\ rows \in [Task -> SUBSET Quantity]

Init ==
  /\ LockInit
  /\ config = {} /\ changed = 0
  /\ edit = [e \in Editor |-> "idle"] /\ draft = [e \in Editor |-> {}]
  /\ purging = FALSE
  /\ phase = [c \in Pass |-> "idle"]
  /\ want = [c \in Pass |-> {}] /\ force = [c \in Pass |-> FALSE]
  /\ left = [c \in Pass |-> {}] /\ now = [c \in Pass |-> {}]
  /\ purged = {}
  /\ undone = [c \in Pass |-> {}] /\ touched = [c \in Pass |-> {}]
  /\ task = [t \in Task |-> "none"] /\ rows = [t \in Task |-> {}]
-----------------------------------------------------------------------------
(***************************************************************************)
(* The config: ConfigLibrary, as the server's requests call it.            *)
(***************************************************************************)
ConfigBecomes(quantities) ==
  /\ changed < MaxChanges /\ changed' = changed + 1
  /\ config' = quantities

ConfigCreated ==
  /\ config = {}
  /\ ConfigBecomes(First)
  /\ UNCHANGED <<edit, draft, purging>>

EditorMoves(e, from, next) ==
  /\ edit[e] = from
  /\ edit' = [edit EXCEPT ![e] = next]
  /\ UNCHANGED purging

\* add_metrics reads the config and appends; what is there already is refused.
MetricsDrafted(e, q) ==
  /\ config # {} /\ q \notin config
  /\ EditorMoves(e, "idle", "drafted")
  /\ draft' = [draft EXCEPT ![e] = config \cup {q}]
  /\ UNCHANGED <<config, changed>>

\* save compares with the file that is there now: it refuses to drop metrics,
\* and has nothing to do when another edit wrote the same.
Writable(e) == config # {} /\ config \subseteq draft[e] /\ config # draft[e]

MetricsChecked(e) ==
  /\ Writable(e)
  /\ EditorMoves(e, "drafted", "checked")
  /\ UNCHANGED <<config, changed, draft>>

MetricsUnwritten(e) ==
  /\ ~Writable(e)
  /\ EditorMoves(e, "drafted", "idle")
  /\ draft' = [draft EXCEPT ![e] = {}]
  /\ UNCHANGED <<config, changed>>

MetricsWritten(e) ==
  /\ EditorMoves(e, "checked", "idle")
  /\ ConfigBecomes(draft[e])
  /\ draft' = [draft EXCEPT ![e] = {}]

ConfigDeleted ==
  /\ config # {} /\ ~purging
  /\ ConfigBecomes({})
  /\ purging' = TRUE
  /\ UNCHANGED <<edit, draft>>

\* delete_group: every row and task, in one transaction.
GroupPurged ==
  /\ purging
  /\ purging' = FALSE
  /\ task' = [t \in Task |-> "none"] /\ rows' = [t \in Task |-> {}]
  /\ purged' = {c \in Pass : phase[c] # "idle"}
  /\ UNCHANGED <<config, changed, edit, draft, lockVars, passVars, undone, touched>>
-----------------------------------------------------------------------------
(***************************************************************************)
(* A pass. The config it works for is the one it read when it was asked.   *)
(***************************************************************************)
Busy(c) == \E d \in Pass : Home[d] = Home[c] /\ phase[d] \notin {"idle", "asked"}

\* The busy check of a server and the start of the thread are two steps.
RunAsked(c, f) ==
  /\ Up(c) /\ phase[c] = "idle"
  /\ config # {}
  /\ Home[c] \in Server => ~Busy(c)
  /\ phase' = [phase EXCEPT ![c] = "asked"]
  /\ want' = [want EXCEPT ![c] = config]
  /\ force' = [force EXCEPT ![c] = f]
  /\ UNCHANGED <<left, now, pastVars, lockVars, configVars, storeVars>>

RunStarts(c) ==
  /\ phase[c] = "asked"
  /\ Enters(c)
  /\ phase' = [phase EXCEPT ![c] = "lock"]
  /\ UNCHANGED <<want, force, left, now, pastVars, configVars, storeVars>>

PastForgotten(c) ==
  /\ purged' = purged \ {c}
  /\ undone' = [undone EXCEPT ![c] = {}] /\ touched' = [touched EXCEPT ![c] = {}]

\* The pass is over, however it went.
Forgets(c) ==
  /\ phase' = [phase EXCEPT ![c] = "idle"]
  /\ want' = [want EXCEPT ![c] = {}] /\ force' = [force EXCEPT ![c] = FALSE]
  /\ left' = [left EXCEPT ![c] = {}] /\ now' = [now EXCEPT ![c] = {}]
  /\ PastForgotten(c)
  /\ UNCHANGED <<configVars, storeVars>>

\* Turns in acquire; a Locked exception fails the job or the command.
RunLocks(c) ==
  \/ /\ Creates(c) \/ FindsStale(c) \/ (tries[c] = 0 /\ UnlinksStale(c))
     /\ UNCHANGED <<passVars, pastVars, configVars, storeVars>>
  \/ /\ Writes(c)
     /\ phase' = [phase EXCEPT ![c] = "pick"]
     /\ left' = [left EXCEPT ![c] = Task]
     /\ UNCHANGED <<want, force, now, pastVars, configVars, storeVars>>
  \/ /\ Refused(c) \/ (tries[c] = 1 /\ UnlinksStale(c))
     /\ Forgets(c)

CoversSlip(c, t) == rows[t] # {}  \* some row of the task is enough

\* covers_quantities: the store has every row this config asks for.
Covers(c, t) == want[c] \subseteq rows[t]

Skips(c, t) == ~force[c] /\ task[t] = "done" /\ Covers(c, t)

Working(c) == phase[c] \in {"pick", "run", "mark"}

\* The tasks a pass is through with.
Behind(c) == IF Working(c) THEN Task \ (left[c] \cup now[c]) ELSE {}

Touches(c, tasks) ==
  touched' = [d \in Pass |-> IF d = c THEN touched[d]
                             ELSE touched[d] \cup (tasks \cap Behind(d))]

TaskSkipped(c, t) ==
  /\ phase[c] = "pick" /\ t \in left[c]
  /\ Skips(c, t)
  /\ left' = [left EXCEPT ![c] = @ \ {t}]
  /\ UNCHANGED <<phase, want, force, now, pastVars, lockVars, configVars, storeVars>>

TaskBegins(c, t) ==
  /\ phase[c] = "pick" /\ t \in left[c]
  /\ ~Skips(c, t)
  /\ task' = [task EXCEPT ![t] = "running"]
  /\ left' = [left EXCEPT ![c] = @ \ {t}]
  /\ now' = [now EXCEPT ![c] = {t}]
  /\ phase' = [phase EXCEPT ![c] = "run"]
  /\ Touches(c, {t})
  /\ UNCHANGED <<rows, want, force, purged, undone, lockVars, configVars>>

\* _run_one commits every row of the task at once.
TaskCommits(c) ==
  /\ phase[c] = "run"
  /\ rows' = [t \in Task |-> IF t \in now[c] THEN rows[t] \cup want[c] ELSE rows[t]]
  /\ phase' = [phase EXCEPT ![c] = "mark"]
  /\ UNCHANGED <<task, want, force, left, now, pastVars, lockVars, configVars>>

Marks(c, state) ==
  /\ task' = [t \in Task |-> IF t \in now[c] THEN state ELSE task[t]]
  /\ now' = [now EXCEPT ![c] = {}]
  /\ phase' = [phase EXCEPT ![c] = "pick"]
  /\ undone' = [undone EXCEPT ![c] = IF state = "done" THEN @ ELSE @ \cup now[c]]
  /\ Touches(c, now[c])
  /\ UNCHANGED <<want, force, left, purged, lockVars, configVars>>

TaskDone(c) == phase[c] = "mark" /\ Marks(c, "done") /\ UNCHANGED rows

TaskUnavailable(c) == phase[c] = "run" /\ Marks(c, "unavailable") /\ UNCHANGED rows

\* An error among the upserts: marking the task commits those before it.
TaskFails(c) ==
  /\ phase[c] = "run"
  /\ Marks(c, "failed")
  /\ \E some \in SUBSET want[c] :
       rows' = [t \in Task |-> IF t \in now[c] THEN rows[t] \cup some ELSE rows[t]]

\* record_run, once every task was handled.
PassRecorded(c) ==
  /\ phase[c] = "pick" /\ left[c] = {}
  /\ phase' = [phase EXCEPT ![c] = "over"]
  /\ PastForgotten(c)
  /\ UNCHANGED <<want, force, left, now, lockVars, configVars, storeVars>>

\* The pass returned, or the store refused one of its writes and raised.
RunEnds(c) ==
  /\ Working(c) \/ phase[c] = "over"
  /\ Releases(c)
  /\ Forgets(c)

Dies(p) ==
  LET lost == {c \in Pass : Home[c] = p}
      without(f, none) == [c \in Pass |-> IF c \in lost THEN none ELSE f[c]]
  IN /\ ProcessDies(p)
     /\ phase' = without(phase, "idle") /\ want' = without(want, {})
     /\ force' = without(force, FALSE)
     /\ left' = without(left, {}) /\ now' = without(now, {})
     /\ purged' = purged \ lost
     /\ undone' = without(undone, {}) /\ touched' = without(touched, {})
     /\ UNCHANGED <<configVars, storeVars>>
-----------------------------------------------------------------------------
ConfigStep ==
  /\ \/ ConfigCreated \/ ConfigDeleted
     \/ \E e \in Editor : \/ \E q \in Quantity : MetricsDrafted(e, q)
                          \/ MetricsChecked(e) \/ MetricsUnwritten(e) \/ MetricsWritten(e)
  /\ UNCHANGED <<lockVars, passVars, pastVars, storeVars>>

PassStep(c) ==
  \/ \E f \in BOOLEAN : RunAsked(c, f)
  \/ RunStarts(c) \/ RunLocks(c)
  \/ \E t \in Task : TaskSkipped(c, t) \/ TaskBegins(c, t)
  \/ TaskCommits(c) \/ TaskDone(c) \/ TaskUnavailable(c) \/ TaskFails(c)
  \/ PassRecorded(c) \/ RunEnds(c)

Next ==
  \/ ConfigStep
  \/ GroupPurged
  \/ \E c \in Pass : PassStep(c)
  \/ \E p \in Process : \/ Dies(p)
                        \/ /\ ProcessStarts(p)
                           /\ UNCHANGED <<configVars, passVars, pastVars, storeVars>>

Spec == Init /\ [][Next]_vars
-----------------------------------------------------------------------------
\* What a pass that is recorded leaves behind: the rows its config asked for of
\* every task but those it could not do, and with them the state it gave the
\* task, unless another pass changed that since. What a crash, a failure, an
\* earlier config or another pass left was not taken for done, and two passes at
\* once "would double-count nothing" (lock.py), but "the task table would flip
\* between states". (A deletion of the config meanwhile deletes its work as well.)
Settled(c, t) ==
  /\ t \notin undone[c] => want[c] \subseteq rows[t]
  /\ t \notin touched[c] => /\ task[t] \in Over
                            /\ task[t] = "done" <=> t \notin undone[c]

PassIsComplete ==
  [][\A c \in Pass : PassRecorded(c) /\ c \notin purged =>
       \A t \in Task : Settled(c, t)]_vars

\* Its inductive invariant: a pass works exactly while it holds the lock, or
\* believes so, and the tasks it is through with are settled.
WorkInvOf(c) ==
  /\ Working(c) \/ phase[c] = "over" <=> at[c] = "holding"
  /\ phase[c] \notin {"run", "mark"} => now[c] = {}
  /\ left[c] \cap now[c] = {}
  /\ undone[c] \subseteq Behind(c)
  /\ Working(c) /\ c \notin purged =>
       /\ \A t \in Behind(c) : Settled(c, t)
       /\ phase[c] = "mark" => \A t \in now[c] : want[c] \subseteq rows[t]

WorkInv == \A c \in Pass : WorkInvOf(c)
=============================================================================

------------------------ MODULE Verification_proofs ------------------------
(***************************************************************************)
(* For any number of passes and processes, however many are inside acquire *)
(* at once: two passes hold the pid file only if one of them lost it to a  *)
(* pass it met in acquire. What the passes do with the lock is what        *)
(* RunLock allows, so its theorems hold of them; and what a recorded pass  *)
(* leaves behind holds for any number of passes, tasks and quantities,     *)
(* also when two of them are at work together.                             *)
(***************************************************************************)
EXTENDS Verification, TLAPS

-----------------------------------------------------------------------------
(***************************************************************************)
(* The lock by itself.                                                     *)
(***************************************************************************)
\* The lock's variables keep their types.
LEMMA LockTyped == LockTypeOK /\ [LockNext]_lockVars => LockTypeOK'
<1> SUFFICES ASSUME LockTypeOK, [LockNext]_lockVars
             PROVE  LockTypeOK'
  OBVIOUS
<1> USE LockAssumption DEF LockTypeOK, Acquiring, metVars
<1>1. ASSUME NEW p \in Process, ProcessStarts(p)
      PROVE  LockTypeOK'
  BY <1>1 DEF ProcessStarts
<1>2. ASSUME NEW p \in Process, ProcessDies(p)
      PROVE  LockTypeOK'
  BY <1>2 DEF ProcessDies
<1>3. ASSUME NEW c \in Pass, Enters(c)
      PROVE  LockTypeOK'
  BY <1>3 DEF Enters, Moves, Inside
<1>4. ASSUME NEW c \in Pass, Creates(c)
      PROVE  LockTypeOK'
  BY <1>4 DEF Creates, Moves
<1>5. ASSUME NEW c \in Pass, Refused(c)
      PROVE  LockTypeOK'
  BY <1>5 DEF Refused, Moves, Leaves
<1>6. ASSUME NEW c \in Pass, FindsStale(c)
      PROVE  LockTypeOK'
  BY <1>6 DEF FindsStale, Moves
<1>7. ASSUME NEW c \in Pass, UnlinksStale(c)
      PROVE  LockTypeOK'
  BY <1>7 DEF UnlinksStale, Unlinks, Moves, Leaves
<1>8. ASSUME NEW c \in Pass, Writes(c)
      PROVE  LockTypeOK'
  BY <1>8 DEF Writes, Moves, Leaves
<1>9. ASSUME NEW c \in Pass, Releases(c)
      PROVE  LockTypeOK'
  BY <1>9 DEF Releases, Unlinks, Moves, Owner
<1>10. CASE UNCHANGED lockVars
  BY <1>10 DEF lockVars
<1>. QED
  BY <1>1, <1>2, <1>3, <1>4, <1>5, <1>6, <1>7, <1>8, <1>9, <1>10 DEF LockNext

\* Only Writes puts a pid into a file, and only its creator's.
LEMMA FileInductive == LockTypeOK /\ FileInv /\ [LockNext]_lockVars => FileInv'
<1> SUFFICES ASSUME LockTypeOK, FileInv, [LockNext]_lockVars
             PROVE  FileInv'
  OBVIOUS
<1> USE LockAssumption DEF LockTypeOK, FileInv, Up
<1>1. ASSUME NEW p \in Process, ProcessStarts(p)
      PROVE  FileInv'
  BY <1>1 DEF ProcessStarts
<1>2. ASSUME NEW p \in Process, ProcessDies(p)
      PROVE  FileInv'
  BY <1>2 DEF ProcessDies
<1>3. ASSUME NEW c \in Pass, Enters(c)
      PROVE  FileInv'
  BY <1>3 DEF Enters, Moves
<1>4. ASSUME NEW c \in Pass, Creates(c)
      PROVE  FileInv'
  BY <1>4 DEF Creates, Moves
<1>5. ASSUME NEW c \in Pass, Refused(c)
      PROVE  FileInv'
  BY <1>5 DEF Refused, Moves, Leaves
<1>6. ASSUME NEW c \in Pass, FindsStale(c)
      PROVE  FileInv'
  BY <1>6 DEF FindsStale, Moves
<1>7. ASSUME NEW c \in Pass, UnlinksStale(c)
      PROVE  FileInv'
  BY <1>7 DEF UnlinksStale, Unlinks, Moves
<1>8. ASSUME NEW c \in Pass, Writes(c)
      PROVE  FileInv'
  BY <1>8 DEF Writes, Moves
<1>9. ASSUME NEW c \in Pass, Releases(c)
      PROVE  FileInv'
  BY <1>9 DEF Releases, Unlinks, Moves
<1>10. CASE UNCHANGED lockVars
  BY <1>10 DEF lockVars
<1>. QED
  BY <1>1, <1>2, <1>3, <1>4, <1>5, <1>6, <1>7, <1>8, <1>9, <1>10 DEF LockNext

\* Also when many passes are inside acquire at once: whoever wrote the pid in
\* the file holds the lock or is dead, so an idle process never blocks a pass.
THEOREM FileNamesItsHolder == LockSpec => []FileInv
<1>1. LockInit => LockTypeOK /\ FileInv
  BY LockAssumption DEF LockInit, LockTypeOK, FileInv, Acquiring
<1>2. LockTypeOK /\ FileInv /\ [LockNext]_lockVars => LockTypeOK' /\ FileInv'
  BY LockTyped, FileInductive
<1>. QED
  BY <1>1, <1>2, PTL DEF LockSpec

\* A file that is found stale is not that of a live holder: its creator has not
\* written its pid yet, so both are inside acquire. From then on, whoever puts a
\* new file there is met as well, and an unlink takes only from one that was met.
LEMMA OwnerInductive ==
  ASSUME LockInv, [LockNext]_lockVars
  PROVE  OwnerInv'
<1> USE LockAssumption
    DEF LockInv, LockTypeOK, FileInv, OwnerInv, Acquiring, Up, Inside, Owner, metVars
<1>1. ASSUME NEW p \in Process, ProcessStarts(p)
      PROVE  OwnerInv'
  BY <1>1 DEF ProcessStarts
<1>2. ASSUME NEW p \in Process, ProcessDies(p)
      PROVE  OwnerInv'
  BY <1>2 DEF ProcessDies
<1>3. ASSUME NEW c \in Pass, Enters(c)
      PROVE  OwnerInv'
  <2>1. /\ at[c] = "idle" /\ at' = [at EXCEPT ![c] = "create"] /\ Up(c)
        /\ UNCHANGED <<life, tries, file, text, taken>>
    BY <1>3 DEF Enters, Moves
  <2>2. file # c /\ c \notin taken /\ tries[c] # 1
    BY <2>1
  <2>3. Inside' = Inside \cup {c} /\ Owner' = Owner
    BY <2>1, <2>2
  <2>4. /\ met'[c] = Inside
        /\ \A d \in Inside : met'[d] = met[d] \cup {c}
        /\ \A d \in Pass \ {c} : met[d] \subseteq met'[d]
    BY <1>3, <2>1 DEF Enters
  <2>5. \A d, e \in Inside' : d # e => e \in met'[d]
    BY <2>1, <2>3, <2>4
  <2>6. \A d \in Pass : at'[d] = "unlink" => Owner' \subseteq met'[d]
    BY <2>1, <2>3, <2>4
  <2>7. \A d \in Pass : tries'[d] = 1 =>
          /\ d \in Inside'
          /\ met'[d] = {} => at'[d] = "write" \/ (at'[d] = "create" /\ file' = NoPass)
    BY <2>1, <2>2, <2>4
  <2>. QED
    BY <2>1, <2>2, <2>5, <2>6, <2>7
<1>4. ASSUME NEW c \in Pass, Creates(c)
      PROVE  OwnerInv'
  BY <1>4 DEF Creates, Moves
<1>5. ASSUME NEW c \in Pass, Refused(c)
      PROVE  OwnerInv'
  BY <1>5 DEF Refused, Moves, Leaves
<1>6. ASSUME NEW c \in Pass, FindsStale(c)
      PROVE  OwnerInv'
  <2>1. Owner \subseteq met[c]
    BY <1>6 DEF FindsStale, Moves, Alive
  <2>. QED
    BY <1>6, <2>1 DEF FindsStale, Moves
<1>7. ASSUME NEW c \in Pass, UnlinksStale(c)
      PROVE  OwnerInv'
  BY <1>7 DEF UnlinksStale, Unlinks, Moves, Leaves
<1>8. ASSUME NEW c \in Pass, Writes(c)
      PROVE  OwnerInv'
  BY <1>8 DEF Writes, Moves, Leaves
<1>9. ASSUME NEW c \in Pass, Releases(c)
      PROVE  OwnerInv'
  BY <1>9 DEF Releases, Unlinks, Moves
<1>10. CASE UNCHANGED lockVars
  BY <1>10 DEF lockVars
<1>. QED
  BY <1>1, <1>2, <1>3, <1>4, <1>5, <1>6, <1>7, <1>8, <1>9, <1>10 DEF LockNext

\* The three parts of LockInv hold together, whatever passes and processes do
\* with the pid file.
THEOREM LockInvariantHolds == LockSpec => []LockInv
<1>1. LockInit => LockInv
  BY LockAssumption DEF LockInit, LockInv, LockTypeOK, FileInv, OwnerInv, Acquiring, Inside, Owner
<1>2. LockInv /\ [LockNext]_lockVars => LockInv'
  BY LockTyped, FileInductive, OwnerInductive DEF LockInv
<1>. QED
  BY <1>1, <1>2, PTL DEF LockSpec

\* lock.py's promise, "a pid file that refuses a second holder", as far as it
\* goes: two hold it only if one lost its file to a pass it met in acquire.
THEOREM ExclusiveUnlessTakenHolds == LockSpec => []ExclusiveUnlessTaken
<1>1. LockInv => ExclusiveUnlessTaken
  BY DEF LockInv, OwnerInv, ExclusiveUnlessTaken
<1>. QED
  BY <1>1, LockInvariantHolds, PTL

\* So it keeps the promise in full while no file is taken, for instance as long
\* as no pass enters acquire while another is inside.
LEMMA ExclusiveWhileNoneTaken == ExclusiveUnlessTaken /\ taken = {} => LockIsExclusive
BY DEF ExclusiveUnlessTaken, LockIsExclusive

\* Its other promise: only a live holder turns a run away, and only a pass that
\* meets another gives up.
THEOREM RefusedOnlyByHolderHolds ==
  ASSUME FreshPids
  PROVE  LockSpec => RefusedOnlyByHolder
<1>1. ASSUME LockInv, NEW c \in Pass, Refused(c)
      PROVE  \E d \in Pass : at[d] = "holding"
  <2>1. PICK p \in Process : text # NoPid /\ life[p] = "up" /\ PidOf[p] = text
    BY <1>1 DEF Refused, Alive
  <2>2. file \in Pass /\ PidOf[Home[file]] = text
    BY <1>1, <2>1 DEF LockInv, LockTypeOK, FileInv
  <2>3. Home[file] = p
    BY <2>1, <2>2, LockAssumption DEF FreshPids
  <2>. QED
    BY <1>1, <2>1, <2>2, <2>3 DEF LockInv, FileInv, Up
<1>2. ASSUME LockInv, NEW c \in Pass, tries[c] = 1, UnlinksStale(c)
      PROVE  met[c] # {}
  BY <1>2 DEF LockInv, OwnerInv, UnlinksStale, Moves
<1>3. LockInv /\ [LockNext]_lockVars =>
        [\A c \in Pass :
           /\ Refused(c) => \E d \in Pass : at[d] = "holding"
           /\ tries[c] = 1 /\ UnlinksStale(c) => met[c] # {}]_lockVars
  BY <1>1, <1>2
<1>. QED
  BY <1>3, LockInvariantHolds, PTL DEF LockSpec, RefusedOnlyByHolder

-----------------------------------------------------------------------------
(***************************************************************************)
(* The passes with the lock.                                               *)
(***************************************************************************)
\* Every step of a pass, a request or a process is a step of the lock or
\* leaves it alone.
LEMMA StepsTheLock == [Next]_vars => [LockNext]_lockVars
<1> SUFFICES ASSUME [Next]_vars
             PROVE  [LockNext]_lockVars
  OBVIOUS
<1>1. CASE ConfigStep
  BY <1>1 DEF ConfigStep
<1>2. CASE GroupPurged
  BY <1>2 DEF GroupPurged
<1>3. ASSUME NEW c \in Pass, PassStep(c)
      PROVE  [LockNext]_lockVars
  <2>1. CASE RunStarts(c) \/ RunLocks(c) \/ RunEnds(c)
    BY <2>1 DEF RunStarts, RunLocks, RunEnds, LockNext
  <2>2. CASE \/ \E f \in BOOLEAN : RunAsked(c, f)
             \/ \E t \in Task : TaskSkipped(c, t) \/ TaskBegins(c, t)
             \/ TaskCommits(c) \/ PassRecorded(c)
    BY <2>2 DEF RunAsked, TaskSkipped, TaskBegins, TaskCommits, PassRecorded
  <2>3. CASE TaskDone(c) \/ TaskUnavailable(c) \/ TaskFails(c)
    BY <2>3 DEF TaskDone, TaskUnavailable, TaskFails, Marks
  <2>. QED
    BY <1>3, <2>1, <2>2, <2>3 DEF PassStep
<1>4. ASSUME NEW p \in Process, Dies(p) \/ ProcessStarts(p)
      PROVE  [LockNext]_lockVars
  BY <1>4 DEF Dies, LockNext
<1>5. CASE UNCHANGED vars
  BY <1>5 DEF vars
<1>. QED
  BY <1>1, <1>2, <1>3, <1>4, <1>5 DEF Next

\* Passes implement the lock's specification.
THEOREM PassesUseTheLock == Spec => LockSpec
<1>1. Init => LockInit
  BY DEF Init
<1>. QED
  BY <1>1, StepsTheLock, PTL DEF Spec, LockSpec

\* "A slow run cannot be started twice": what the server and the command make of
\* the lock does not go beyond what it allows, so two passes write the store at
\* once only if one of them lost its file.
THEOREM PassesExclude == Spec => []ExclusiveUnlessTaken
BY PassesUseTheLock, ExclusiveUnlessTakenHolds, PTL

\* Types, for every step of the passes and of the requests.
LEMMA Typed == TypeOK /\ [Next]_vars => TypeOK'
<1> SUFFICES ASSUME TypeOK, [Next]_vars
             PROVE  TypeOK'
  OBVIOUS
<1>0. LockTypeOK'
  BY LockTyped, StepsTheLock DEF TypeOK
<1> USE <1>0, LockAssumption, VerificationAssumption
    DEF TypeOK, configVars, passVars, pastVars, storeVars, Over
<1>1. CASE ConfigStep
  <2>1. UNCHANGED <<passVars, pastVars, storeVars>>
    BY <1>1 DEF ConfigStep
  <2>2. CASE ConfigCreated \/ ConfigDeleted
    <3>1. changed' \in 0..MaxChanges
      BY <2>2 DEF ConfigCreated, ConfigDeleted, ConfigBecomes
    <3>2. purging' \in BOOLEAN
      BY <2>2 DEF ConfigCreated, ConfigDeleted, ConfigBecomes
    <3>3. config' \in SUBSET Quantity
      BY <2>2 DEF ConfigCreated, ConfigDeleted, ConfigBecomes
    <3>4. UNCHANGED <<edit, draft>>
      BY <2>2 DEF ConfigCreated, ConfigDeleted, ConfigBecomes
    <3>. QED
      BY <2>1, <3>1, <3>2, <3>3, <3>4
  <2>3. ASSUME NEW e \in Editor, NEW q \in Quantity, MetricsDrafted(e, q)
        PROVE  TypeOK'
    BY <2>1, <2>3 DEF MetricsDrafted, EditorMoves
  <2>4. ASSUME NEW e \in Editor, MetricsChecked(e) \/ MetricsUnwritten(e) \/ MetricsWritten(e)
        PROVE  TypeOK'
    BY <2>1, <2>4 DEF MetricsChecked, MetricsUnwritten, MetricsWritten, EditorMoves, ConfigBecomes
  <2>. QED
    BY <1>1, <2>2, <2>3, <2>4 DEF ConfigStep
<1>2. CASE GroupPurged
  BY <1>2 DEF GroupPurged
<1>3. ASSUME NEW c \in Pass, PassStep(c)
      PROVE  TypeOK'
  <2>1. CASE \E f \in BOOLEAN : RunAsked(c, f)
    BY <2>1 DEF RunAsked
  <2>2. CASE RunStarts(c)
    BY <2>2 DEF RunStarts
  <2>3. CASE RunLocks(c)
    <3>1. CASE UNCHANGED <<passVars, pastVars, configVars, storeVars>>
      BY <3>1
    <3>2. CASE /\ phase' = [phase EXCEPT ![c] = "pick"]
               /\ left' = [left EXCEPT ![c] = Task]
               /\ UNCHANGED <<want, force, now, pastVars, configVars, storeVars>>
      BY <3>2
    <3>3. CASE Forgets(c)
      BY <3>3 DEF Forgets, PastForgotten
    <3>. QED
      BY <2>3, <3>1, <3>2, <3>3 DEF RunLocks
  <2>4. ASSUME NEW t \in Task, TaskSkipped(c, t)
        PROVE  TypeOK'
    BY <2>4 DEF TaskSkipped
  <2>5. ASSUME NEW t \in Task, TaskBegins(c, t)
        PROVE  TypeOK'
    BY <2>5 DEF TaskBegins, Touches
  <2>6. CASE TaskCommits(c)
    BY <2>6 DEF TaskCommits
  <2>7. CASE TaskDone(c)
    BY <2>7 DEF TaskDone, Marks, Touches
  <2>8. CASE TaskUnavailable(c)
    BY <2>8 DEF TaskUnavailable, Marks, Touches
  <2>9. CASE TaskFails(c)
    BY <2>9 DEF TaskFails, Marks, Touches
  <2>10. CASE PassRecorded(c)
    BY <2>10 DEF PassRecorded, PastForgotten
  <2>11. CASE RunEnds(c)
    BY <2>11 DEF RunEnds, Forgets, PastForgotten
  <2>. QED
    BY <1>3, <2>1, <2>2, <2>3, <2>4, <2>5, <2>6, <2>7, <2>8, <2>9, <2>10, <2>11 DEF PassStep
<1>4. ASSUME NEW p \in Process, Dies(p)
      PROVE  TypeOK'
  BY <1>4 DEF Dies
<1>5. ASSUME NEW p \in Process, UNCHANGED <<configVars, passVars, pastVars, storeVars>>
      PROVE  TypeOK'
  BY <1>5
<1>6. CASE UNCHANGED vars
  BY <1>6 DEF vars
<1>. QED
  BY <1>1, <1>2, <1>3, <1>4, <1>5, <1>6 DEF Next

\* Every reachable state is well typed.
THEOREM VerificationTyped == Spec => []TypeOK
<1>1. Init => TypeOK
  <2> SUFFICES ASSUME Init
               PROVE  TypeOK
    OBVIOUS
  <2>1. LockTypeOK
    BY LockAssumption DEF Init, LockInit, LockTypeOK, Acquiring
  <2>2. changed \in 0..MaxChanges
    BY VerificationAssumption DEF Init
  <2>6. config \in SUBSET Quantity /\ purging \in BOOLEAN
    BY DEF Init
  <2>3. edit \in [Editor -> {"idle", "drafted", "checked"}] /\ draft \in [Editor -> SUBSET Quantity]
    BY DEF Init
  <2>4. /\ task \in [Task -> Over \cup {"none", "running"}]
        /\ rows \in [Task -> SUBSET Quantity]
        /\ purged \in SUBSET Pass
        /\ undone \in [Pass -> SUBSET Task] /\ touched \in [Pass -> SUBSET Task]
    BY DEF Init
  <2>5. /\ phase \in [Pass -> {"idle", "asked", "lock", "pick", "run", "mark", "over"}]
        /\ want \in [Pass -> SUBSET Quantity] /\ force \in [Pass -> BOOLEAN]
        /\ left \in [Pass -> SUBSET Task] /\ now \in [Pass -> SUBSET Task]
    BY DEF Init
  <2>. QED
    BY <2>1, <2>2, <2>3, <2>4, <2>5, <2>6 DEF TypeOK
<1>. QED
  BY <1>1, Typed, PTL DEF Spec

\* What a step of the others must leave a pass: its own variables, every row, and
\* the state of each task behind it, unless the step counts as touching the task.
Spared(d) ==
  /\ phase'[d] = phase[d] /\ at'[d] = at[d] /\ now'[d] = now[d]
  /\ want'[d] = want[d] /\ left'[d] = left[d]
  /\ undone'[d] = undone[d] /\ (d \in purged' <=> d \in purged)
  /\ \A t \in Task : rows[t] \subseteq rows'[t]
  /\ touched[d] \subseteq touched'[d]
  /\ \A t \in Behind(d) : task'[t] = task[t] \/ t \in touched'[d]

LEMMA SparedKeepsWork ==
  ASSUME TypeOK, NEW d \in Pass, WorkInvOf(d), Spared(d)
  PROVE  WorkInvOf(d)'
<1> USE DEF Spared, WorkInvOf, Working
<1>1. Behind(d)' = Behind(d) /\ Behind(d) \subseteq Task
  BY DEF Behind
<1>2. ASSUME Working(d)', d \notin purged', NEW t \in Behind(d)'
      PROVE  Settled(d, t)'
  BY <1>1, <1>2 DEF Settled
<1>3. ASSUME Working(d)', d \notin purged', phase'[d] = "mark", NEW t \in now'[d]
      PROVE  want'[d] \subseteq rows'[t]
  <2>1. t \in Task /\ want[d] \subseteq rows[t]
    BY <1>3 DEF TypeOK
  <2>. QED
    BY <2>1
<1>4. /\ (Working(d) \/ phase[d] = "over" <=> at[d] = "holding")'
      /\ (phase[d] \notin {"run", "mark"} => now[d] = {})'
      /\ (left[d] \cap now[d] = {})'
      /\ (undone[d] \subseteq Behind(d))'
  BY <1>1
<1> HIDE DEF Working
<1>. QED
  BY <1>2, <1>3, <1>4

\* A pass takes no row away, and what it does to a task is seen as a touch by
\* every other pass that is through with the task.
LEMMA PassesSpareOthers ==
  ASSUME TypeOK, NEW c \in Pass, NEW d \in Pass, c # d, PassStep(c)
  PROVE  Spared(d)
<1>1. CASE \/ \E f \in BOOLEAN : RunAsked(c, f)
           \/ RunStarts(c) \/ RunLocks(c)
           \/ \E t \in Task : TaskSkipped(c, t)
           \/ PassRecorded(c) \/ RunEnds(c)
  <2>1. UNCHANGED storeVars
    BY <1>1 DEF RunAsked, RunStarts, RunLocks, TaskSkipped, PassRecorded, RunEnds, Forgets
  <2>2. /\ phase'[d] = phase[d] /\ now'[d] = now[d]
        /\ want'[d] = want[d] /\ left'[d] = left[d]
    BY <1>1 DEF RunAsked, RunStarts, RunLocks, TaskSkipped, PassRecorded, RunEnds, Forgets,
                passVars, TypeOK
  <2>3. /\ undone'[d] = undone[d] /\ touched'[d] = touched[d]
        /\ (d \in purged' <=> d \in purged)
    BY <1>1 DEF RunAsked, RunStarts, RunLocks, TaskSkipped, PassRecorded, RunEnds, Forgets,
                PastForgotten, pastVars, TypeOK
  <2>4. at'[d] = at[d]
    BY <1>1 DEF RunAsked, RunStarts, RunLocks, TaskSkipped, PassRecorded, RunEnds, lockVars,
                Enters, Creates, Refused, FindsStale, UnlinksStale, Writes, Releases, Moves,
                TypeOK, LockTypeOK
  <2>. QED
    BY <2>1, <2>2, <2>3, <2>4 DEF Spared, storeVars
<1>2. ASSUME NEW t \in Task, TaskBegins(c, t)
      PROVE  Spared(d)
  BY <1>2 DEF TaskBegins, Touches, Spared, lockVars, pastVars, TypeOK
<1>3. CASE TaskCommits(c)
  BY <1>3 DEF TaskCommits, Spared, lockVars, pastVars, TypeOK
<1>4. ASSUME NEW state, Marks(c, state), \A t \in Task : rows[t] \subseteq rows'[t]
      PROVE  Spared(d)
  BY <1>4 DEF Marks, Touches, Spared, Behind, lockVars, TypeOK
<1>5. CASE TaskDone(c) \/ TaskUnavailable(c)
  BY <1>4, <1>5 DEF TaskDone, TaskUnavailable
<1>6. CASE TaskFails(c)
  BY <1>4, <1>6 DEF TaskFails
<1>. QED
  BY <1>1, <1>2, <1>3, <1>5, <1>6 DEF PassStep

\* The steps of a pass itself.
LEMMA PassKeepsWork ==
  ASSUME TypeOK, NEW d \in Pass, WorkInvOf(d), PassStep(d)
  PROVE  WorkInvOf(d)'
<1> USE DEF WorkInvOf, Working, TypeOK, LockTypeOK, lockVars, passVars, pastVars, storeVars
<1>1. CASE \E f \in BOOLEAN : RunAsked(d, f)
  BY <1>1 DEF RunAsked, Behind
<1>2. CASE RunStarts(d)
  BY <1>2 DEF RunStarts, Enters, Moves, Behind
<1>3. CASE RunLocks(d)
  <2>1. CASE /\ Creates(d) \/ FindsStale(d) \/ (tries[d] = 0 /\ UnlinksStale(d))
             /\ UNCHANGED <<passVars, pastVars, configVars, storeVars>>
    BY <2>1 DEF Creates, FindsStale, UnlinksStale, Moves, Behind
  <2>2. CASE /\ Writes(d)
             /\ phase' = [phase EXCEPT ![d] = "pick"]
             /\ left' = [left EXCEPT ![d] = Task]
             /\ UNCHANGED <<want, force, now, pastVars, configVars, storeVars>>
    BY <2>2 DEF Writes, Moves, Behind
  <2>3. CASE /\ Refused(d) \/ (tries[d] = 1 /\ UnlinksStale(d))
             /\ Forgets(d)
    BY <2>3 DEF Refused, UnlinksStale, Moves, Forgets, PastForgotten
  <2>. QED
    BY <1>3, <2>1, <2>2, <2>3 DEF RunLocks
<1>4. ASSUME NEW t \in Task, TaskSkipped(d, t)
      PROVE  WorkInvOf(d)'
  BY <1>4 DEF TaskSkipped, Skips, Settled, Covers, Over, Behind
<1>5. ASSUME NEW t \in Task, TaskBegins(d, t)
      PROVE  WorkInvOf(d)'
  BY <1>5 DEF TaskBegins, Touches, Settled, Behind
<1>6. CASE TaskCommits(d)
  BY <1>6 DEF TaskCommits, Settled, Behind
<1>7. CASE TaskDone(d)
  BY <1>7 DEF TaskDone, Marks, Touches, Settled, Over, Behind
<1>8. CASE TaskUnavailable(d)
  BY <1>8 DEF TaskUnavailable, Marks, Touches, Settled, Over, Behind
<1>9. CASE TaskFails(d)
  BY <1>9 DEF TaskFails, Marks, Touches, Settled, Over, Behind
<1>10. CASE PassRecorded(d)
  BY <1>10 DEF PassRecorded, PastForgotten
<1>11. CASE RunEnds(d)
  BY <1>11 DEF RunEnds, Releases, Moves, Forgets, PastForgotten
<1>. QED
  BY <1>1, <1>2, <1>3, <1>4, <1>5, <1>6, <1>7, <1>8, <1>9, <1>10, <1>11 DEF PassStep

\* Passes do not disturb each other's work, with the lock or without it; the
\* deletion of the config does, and the passes under way count as purged.
LEMMA WorkInductive ==
  ASSUME TypeOK, WorkInv, [Next]_vars
  PROVE  WorkInv'
<1> SUFFICES ASSUME NEW d \in Pass
             PROVE  WorkInvOf(d)'
  BY DEF WorkInv
<1>0. WorkInvOf(d)
  BY DEF WorkInv
<1>1. CASE ConfigStep \/ UNCHANGED vars
  <2>1. Spared(d)
    BY <1>1 DEF ConfigStep, vars, lockVars, passVars, pastVars, storeVars, Spared
  <2>. QED
    BY <1>0, <2>1, SparedKeepsWork
<1>2. CASE GroupPurged
  BY <1>0, <1>2 DEF GroupPurged, WorkInvOf, Working, Behind, lockVars, passVars
<1>3. ASSUME NEW c \in Pass, PassStep(c)
      PROVE  WorkInvOf(d)'
  BY <1>0, <1>3, PassesSpareOthers, SparedKeepsWork, PassKeepsWork
<1>5. ASSUME NEW p \in Process, Dies(p)
      PROVE  WorkInvOf(d)'
  <2>1. CASE Home[d] = p
    BY <1>5, <2>1 DEF Dies, ProcessDies, WorkInvOf, Working, Behind
  <2>2. CASE Home[d] # p
    <3>1. Spared(d)
      BY <1>5, <2>2 DEF Dies, ProcessDies, Spared, storeVars
    <3>. QED
      BY <1>0, <3>1, SparedKeepsWork
  <2>. QED
    BY <2>1, <2>2
<1>6. ASSUME NEW p \in Process, ProcessStarts(p),
             UNCHANGED <<configVars, passVars, pastVars, storeVars>>
      PROVE  WorkInvOf(d)'
  <2>1. Spared(d)
    BY <1>6 DEF ProcessStarts, passVars, pastVars, storeVars, Spared
  <2>. QED
    BY <1>0, <2>1, SparedKeepsWork
<1>. QED
  BY <1>1, <1>2, <1>3, <1>5, <1>6 DEF Next

\* A pass works exactly while it believes to hold the lock, and what it is
\* through with is settled in the store.
THEOREM WorkIsSettled == Spec => []WorkInv
<1>1. Init => WorkInv
  BY DEF Init, LockInit, WorkInv, WorkInvOf, Working, Behind
<1>. QED
  BY <1>1, WorkInductive, VerificationTyped, PTL DEF Spec

\* The executor's promise of resumption: a recorded pass skipped nothing that
\* its config still lacked, whatever crashes and failures left, and nothing that
\* another pass does beside it takes a row away.
THEOREM RecordedPassIsComplete == Spec => PassIsComplete
<1>1. ASSUME TypeOK, WorkInv, NEW c \in Pass, PassRecorded(c), c \notin purged, NEW t \in Task
      PROVE  Settled(c, t)
  BY <1>1 DEF PassRecorded, WorkInv, WorkInvOf, Working, Behind
<1>2. TypeOK /\ WorkInv /\ [Next]_vars =>
        [\A c \in Pass : PassRecorded(c) /\ c \notin purged =>
           \A t \in Task : Settled(c, t)]_vars
  BY <1>1
<1>. QED
  BY <1>2, WorkIsSettled, VerificationTyped, PTL DEF Spec, PassIsComplete
=============================================================================

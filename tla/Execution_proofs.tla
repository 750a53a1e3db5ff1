--------------------------- MODULE Execution_proofs ---------------------------
(***************************************************************************)
(* Type correctness of Execution, for every value of its constants; then   *)
(* serial execution and a quiet stop, for every value under which the code *)
(* is Dependable.                                                          *)
(*                                                                         *)
(* A position is typed only because a job's sample and step never pass the *)
(* shape of its package, so PositionInv is carried along.                  *)
(*                                                                         *)
(* OneExecution is not inductive. What carries it: whoever gets past the   *)
(* reconciliation saw no container that is on record (QuietIsEmpty), every *)
(* container is on record before it exists (RecordedInv), and the one      *)
(* exempt operation is the owner's own (ExemptInv). From there the owner   *)
(* is alone with its own containers (AloneInv), also after it gave         *)
(* executionMu up or was lost in a restart (LiveInv).                      *)
(***************************************************************************)
EXTENDS Execution, TLAPS

\* The positions every bound admits: the stage a position names, the first
\* sample and the ingestion step.
LEMMA Bounds ==
  /\ 1 \in 1..MaxSamples /\ 0 \in 0..MaxModels /\ 0 \in 0..MaxInstance
  /\ \A j \in Job : package \in [Job -> Package] =>
       /\ Shape[package[j]].samples \in 1..MaxSamples
       /\ Shape[package[j]].models \in 0..MaxModels
       /\ Shape[package[j]].diagnostics \in BOOLEAN
BY ExecutionAssumption

\* updateJob keeps the types of the statuses, in memory and on disk.
LEMMA UpdateTyped ==
  ASSUME mem \in [Job -> Status], disk \in [Job -> Status],
         NEW j \in Job, NEW status \in Status, updateJob(j, status)
  PROVE  mem' \in [Job -> Status] /\ disk' \in [Job -> Status]
BY DEF updateJob, Status, Terminal

\* So does saving a new operation's status.json for those of the operations.
LEMMA SavedTyped ==
  ASSUME TypeOK, NEW o \in Op, NEW run \in Job, OperationSaved(o, run)
  PROVE  /\ opStatus' \in [Op -> {"none", "running", "succeeded", "partial", "failed"}]
         /\ opInstance' \in [Op -> 0..MaxInstance]
         /\ opRun' \in [Op -> Job \cup {Nobody}]
BY DEF TypeOK, OperationSaved

\* An operation's result is one of its final statuses.
LEMMA ResultTyped ==
  ASSUME TypeOK, NEW o \in Op, NEW clean \in BOOLEAN
  PROVE  OperationResult(o, clean) \in {"succeeded", "partial", "failed"}
<1>1. CASE Adopted(o) = {}
  BY <1>1 DEF OperationResult
<1>2. CASE Adopted(o) # {}
  <2>1. (CHOOSE r \in Adopted(o) : TRUE) \in Adopted(o)
    BY <1>2
  <2>2. \A r \in Adopted(o) : report[r] \in {"succeeded", "partial"}
    BY DEF Adopted, Registered, TypeOK
  <2>. QED
    BY <1>2, <2>1, <2>2 DEF OperationResult
<1>. QED
  BY <1>1, <1>2

\* The end of a stage keeps every part of the position typed.
LEMMA OutcomeTyped ==
  ASSUME TypeOK, PositionInv, NEW j \in Job, holder = j,
         NEW ok \in BOOLEAN, StageOutcome(j, ok)
  PROVE  /\ sample' \in 1..MaxSamples /\ step' \in 0..MaxModels
         /\ lapsed' \in BOOLEAN /\ completed' \in BOOLEAN
         /\ phase' \in {"announce", "report", "over"}
         /\ mem' \in [Job -> Status] /\ disk' \in [Job -> Status]
<1>1. "failed" \in Status
  BY DEF Status, Terminal
<1>2. mem \in [Job -> Status] /\ disk \in [Job -> Status]
  BY DEF TypeOK
<1>3. /\ sample \in 1..MaxSamples /\ step \in 0..MaxModels
      /\ lapsed \in BOOLEAN /\ completed \in BOOLEAN
      /\ package \in [Job -> Package]
      /\ sample <= Shape[package[j]].samples /\ step <= Shape[package[j]].models
      /\ MaxSamples \in Nat /\ MaxModels \in Nat
  BY ExecutionAssumption DEF TypeOK, PositionInv
<1>4. ASSUME updateJob(j, "failed")
      PROVE  mem' \in [Job -> Status] /\ disk' \in [Job -> Status]
  BY <1>1, <1>2, <1>4, UpdateTyped
<1>5. ASSUME NEW usable \in BOOLEAN, SampleEnds(j, usable)
      PROVE  /\ sample' \in 1..MaxSamples /\ step' \in 0..MaxModels
             /\ completed' \in BOOLEAN
             /\ phase' \in {"announce", "report", "over"}
             /\ mem' \in [Job -> Status] /\ disk' \in [Job -> Status]
  <2>1. completed' \in BOOLEAN
    BY <1>5 DEF SampleEnds
  <2>2. CASE ~LastSample(j)
    BY <1>2, <1>3, <1>5, <2>1, <2>2, Bounds DEF SampleEnds, LastSample
  <2>3. CASE LastSample(j)
    BY <1>2, <1>3, <1>4, <1>5, <2>1, <2>3 DEF SampleEnds
  <2>. QED
    BY <2>2, <2>3
<1>6. ASSUME ~LastModel(j), NextStage
      PROVE  /\ sample' \in 1..MaxSamples /\ step' \in 0..MaxModels
             /\ completed' \in BOOLEAN /\ phase' = "announce"
             /\ mem' \in [Job -> Status] /\ disk' \in [Job -> Status]
  BY <1>2, <1>3, <1>6, Bounds DEF LastModel, NextStage
<1>7. CASE ~ok /\ ~Batch(j) /\ lapsed' = TRUE /\ phase' = "over"
           /\ updateJob(j, "failed") /\ UNCHANGED <<sample, step, completed>>
  BY <1>3, <1>4, <1>7
<1>8. CASE ~LastModel(j) /\ lapsed' = (lapsed \/ ~ok) /\ NextStage
  BY <1>3, <1>6, <1>8
<1>9. CASE \E usable \in BOOLEAN :
             lapsed' = (lapsed \/ ~ok \/ ~usable) /\ SampleEnds(j, usable)
  BY <1>3, <1>5, <1>9
<1>10. CASE lapsed' = TRUE /\ SampleEnds(j, FALSE)
  BY <1>5, <1>10
<1>. QED
  BY <1>7, <1>8, <1>9, <1>10 DEF StageOutcome

\* Every step keeps the types.
LEMMA TypeInductive == TypeOK /\ PositionInv /\ [Next]_vars => TypeOK'
<1> SUFFICES ASSUME TypeOK, PositionInv, [Next]_vars PROVE TypeOK'
  OBVIOUS
<1> USE DEF memory, jobFiles, opFiles, docker, position, Status, Active, Terminal, Phases
<1>1. ASSUME NEW c \in Client, CreateReconciles(c) PROVE TypeOK'
  BY <1>1 DEF TypeOK, CreateReconciles, ReconcileBegins
<1>2. ASSUME NEW c \in Client, CreateBlocked(c) PROVE TypeOK'
  BY <1>2 DEF TypeOK, CreateBlocked, CreateAnswered, ReconcileEnds
<1>3. ASSUME NEW c \in Client, CreateUnverified(c) PROVE TypeOK'
  BY <1>3 DEF TypeOK, CreateUnverified, CreateAnswered, ReconcileEnds
<1>4. ASSUME NEW c \in Client, CreateCleared(c) PROVE TypeOK'
  BY <1>4 DEF TypeOK, CreateCleared, CreateAnswered, ReconcileEnds
<1>5. ASSUME NEW c \in Client, AdmissionRefused(c) PROVE TypeOK'
  BY <1>5 DEF TypeOK, AdmissionRefused, Concludes
<1>6. ASSUME NEW c \in Client, NEW j \in Job, AdmissionRecalled(c, j) PROVE TypeOK'
  BY <1>6 DEF TypeOK, AdmissionRecalled, Concludes
<1>7. ASSUME NEW c \in Client, NEW j \in Job, AdmissionQueued(c, j) PROVE TypeOK'
  BY <1>7 DEF TypeOK, AdmissionQueued, Admissible, Concludes
<1>8. ASSUME NEW c \in Client, NEW j \in Job, AdmissionStranded(c, j) PROVE TypeOK'
  BY <1>8 DEF TypeOK, AdmissionStranded, Admissible, Concludes
<1>9. ASSUME NEW j \in Job, Poll(j) PROVE TypeOK'
  BY <1>9 DEF TypeOK, Poll
<1>10. ASSUME NEW j \in Job, JobLocks(j) PROVE TypeOK'
  BY <1>10 DEF TypeOK, JobLocks, Locks
<1>11. ASSUME NEW j \in Job, JobRefused(j) PROVE TypeOK'
  BY <1>11 DEF TypeOK, JobRefused, Checked, ReconcileEnds, updateJob
<1>12. ASSUME NEW j \in Job, JobCleared(j) PROVE TypeOK'
  BY <1>12 DEF TypeOK, JobCleared, Checked, ReconcileEnds
<1>13. ASSUME NEW j \in Job, StageAnnounced(j) PROVE TypeOK'
  <2>1. mem' \in [Job -> Status] /\ disk' \in [Job -> Status]
    BY <1>13, UpdateTyped DEF StageAnnounced, TypeOK
  <2>. QED
    BY <1>13, <2>1 DEF StageAnnounced, OwnStep, TypeOK
<1>14. ASSUME NEW j \in Job, StageLaunched(j) PROVE TypeOK'
  <2>1. <<sample, step>> \in Stage
    BY DEF TypeOK, Stage
  <2>. QED
    BY <1>14, <2>1 DEF StageLaunched, OwnStep, TypeOK
<1>15. ASSUME NEW j \in Job, StageUnlaunched(j) PROVE TypeOK'
  BY <1>15, OutcomeTyped DEF TypeOK, StageUnlaunched, At, OwnStep
<1>16. ASSUME NEW j \in Job, StageReturns(j) PROVE TypeOK'
  BY <1>16, OutcomeTyped DEF TypeOK, StageReturns, At, OwnStep
<1>17. ASSUME NEW j \in Job, JobReports(j) PROVE TypeOK'
  <2>1. updateJob(j, "failed") \/ updateJob(j, "partial")
        \/ updateJob(j, "succeeded") \/ updateJob(j, "running")
    BY <1>17 DEF JobReports
  <2>2. mem' \in [Job -> Status] /\ disk' \in [Job -> Status]
    BY <2>1, UpdateTyped DEF TypeOK
  <2>3. phase' \in Phases
    BY <1>17 DEF JobReports
  <2>. QED
    BY <1>17, <2>2, <2>3 DEF JobReports, OwnStep, TypeOK
<1>18. ASSUME NEW j \in Job, NEW o \in Op, JobDiagnoses(j, o) PROVE TypeOK'
  BY <1>18 DEF TypeOK, JobDiagnoses, At, OwnStep, OperationSaved, OperationStarts
<1>19. ASSUME NEW j \in Job, JobUnprepared(j) PROVE TypeOK'
  <2>1. /\ opStatus' \in [Op -> {"none", "running", "succeeded", "partial", "failed"}]
        /\ opInstance' \in [Op -> 0..MaxInstance]
        /\ opRun' \in [Op -> Job \cup {Nobody}]
        /\ jobOp' \in [Job -> Op \cup {NoOp}]
    BY <1>19, SavedTyped DEF JobUnprepared, TypeOK
  <2>2. mem' \in [Job -> Status] /\ disk' \in [Job -> Status]
    BY <1>19, UpdateTyped DEF JobUnprepared, TypeOK
  <2>. QED
    BY <1>19, <2>1, <2>2 DEF JobUnprepared, OwnStep, TypeOK
<1>20. ASSUME NEW j \in Job, JobConcludes(j) PROVE TypeOK'
  <2>1. updateJob(j, "partial") \/ updateJob(j, "succeeded")
    BY <1>20 DEF JobConcludes
  <2>2. mem' \in [Job -> Status] /\ disk' \in [Job -> Status]
    BY <2>1, UpdateTyped DEF TypeOK
  <2>. QED
    BY <1>20, <2>2 DEF JobConcludes, OwnStep, TypeOK
<1>21. ASSUME RetryLocks PROVE TypeOK'
  BY <1>21 DEF TypeOK, RetryLocks, TriesLock, Locks
<1>22. ASSUME StopLocks PROVE TypeOK'
  BY <1>22 DEF TypeOK, StopLocks, TriesLock, Locks
<1>23. ASSUME HolderReconciles PROVE TypeOK'
  BY <1>23 DEF TypeOK, HolderReconciles, ReconcileBegins
<1>24. ASSUME NEW a \in {Retrier, Stopper}, RequestRefused(a) PROVE TypeOK'
  BY <1>24 DEF TypeOK, RequestRefused, Checked, ReconcileEnds
<1>25. ASSUME NEW a \in {Retrier, Stopper}, RequestCleared(a) PROVE TypeOK'
  BY <1>25 DEF TypeOK, RequestCleared, Checked, ReconcileEnds
<1>26. ASSUME RetryDeclined PROVE TypeOK'
  <2>1. /\ opStatus' \in [Op -> {"none", "running", "succeeded", "partial", "failed"}]
        /\ opInstance' \in [Op -> 0..MaxInstance]
        /\ opRun' \in [Op -> Job \cup {Nobody}]
    BY <1>26, SavedTyped DEF RetryDeclined, TypeOK
  <2>. QED
    BY <1>26, <2>1 DEF RetryDeclined, OwnStep, TypeOK
<1>27. ASSUME NEW o \in Op, NEW run \in Job, RetryDiagnoses(o, run) PROVE TypeOK'
  BY <1>27 DEF TypeOK, RetryDiagnoses, At, OwnStep, OperationSaved, OperationStarts
<1>28. ASSUME StopDecides PROVE TypeOK'
  BY <1>28 DEF TypeOK, StopDecides, At, NoActiveJob
<1>29. ASSUME DiagnosticsReturn PROVE TypeOK'
  <2>1. opStatus' \in [Op -> {"none", "running", "succeeded", "partial", "failed"}]
        /\ lapsed' \in BOOLEAN
    <3>1. PICK clean \in BOOLEAN :
            \/ opStatus' = [opStatus EXCEPT ![current] = OperationResult(current, clean)]
               /\ lapsed' = (lapsed \/ OperationResult(current, clean) # "succeeded")
            \/ UNCHANGED opStatus /\ lapsed' = TRUE
      BY <1>29 DEF DiagnosticsReturn
    <3>2. lapsed' \in BOOLEAN
      BY <3>1
    <3>3. CASE current \in Op
      BY <3>1, <3>2, <3>3, ResultTyped DEF TypeOK
    <3>4. CASE current \notin Op
      <4>1. opStatus' = opStatus
        BY <3>1, <3>4 DEF TypeOK
      <4>. QED
        BY <3>2, <4>1 DEF TypeOK
    <3>. QED
      BY <3>3, <3>4
  <2>2. liveOp' \in SUBSET Op /\ cliOp' \in SUBSET Op /\ phase' \in Phases
    BY <1>29 DEF DiagnosticsReturn, TypeOK
  <2>. QED
    BY <1>29, <2>1, <2>2 DEF DiagnosticsReturn, OwnStep, TypeOK
<1>30. ASSUME Releases PROVE TypeOK'
  BY <1>30, Bounds DEF TypeOK, Releases, Unlocks
<1>31. ASSUME NEW j \in Job, NEW stage \in Stage, StageStarts(j, stage) PROVE TypeOK'
  BY <1>31 DEF TypeOK, StageStarts, unlessDocker
<1>32. ASSUME NEW j \in Job, NEW stage \in Stage, StageExits(j, stage) PROVE TypeOK'
  BY <1>32 DEF TypeOK, StageExits, unlessDocker
<1>33. ASSUME NEW o \in Op, DiagnosticsStart(o) PROVE TypeOK'
  BY <1>33 DEF TypeOK, DiagnosticsStart, unlessDocker
<1>34. ASSUME NEW o \in Op, DiagnosticsRegister(o) PROVE TypeOK'
  BY <1>34 DEF TypeOK, DiagnosticsRegister, unlessDocker
<1>35. ASSUME NEW o \in Op, DiagnosticsExit(o) PROVE TypeOK'
  BY <1>35 DEF TypeOK, DiagnosticsExit, unlessDocker
<1>36. ASSUME Restart PROVE TypeOK'
  <2>1. instance' \in 0..MaxInstance
    BY <1>36 , ExecutionAssumption DEF Restart, TypeOK
  <2>2. cli' \in [Job -> SUBSET Stage] /\ cliOp' \in SUBSET Op
    BY <1>36 DEF Restart, TypeOK
  <2>. QED
    BY <1>36, <2>1, <2>2, Bounds DEF Restart, Unlocks, ReconcileEnds, TypeOK
<1>37. CASE UNCHANGED vars
  BY <1>37 DEF vars, TypeOK
<1>. QED
  BY <1>1, <1>2, <1>3, <1>4, <1>5, <1>6, <1>7, <1>8, <1>9, <1>10, <1>11,
     <1>12, <1>13, <1>14, <1>15, <1>16, <1>17, <1>18, <1>19, <1>20, <1>21,
     <1>22, <1>23, <1>24, <1>25, <1>26, <1>27, <1>28, <1>29, <1>30, <1>31,
     <1>32, <1>33, <1>34, <1>35, <1>36, <1>37
     DEF Next, ClientStep, ClientReconciled, JobStep, RequestStep, DockerStep

\* Neither a failed nor a finished stage leads past the shape of the package.
LEMMA OutcomePlaced ==
  ASSUME TypeOK, PositionInv, NEW j \in Job, holder = j,
         NEW ok \in BOOLEAN, StageOutcome(j, ok)
  PROVE  sample' <= Shape[package[j]].samples /\ step' <= Shape[package[j]].models
<1>1. /\ sample \in Nat /\ step \in Nat
      /\ Shape[package[j]].samples \in Nat /\ Shape[package[j]].models \in Nat
      /\ sample <= Shape[package[j]].samples /\ step <= Shape[package[j]].models
  BY Bounds, ExecutionAssumption DEF TypeOK, PositionInv
<1>2. ASSUME NEW usable \in BOOLEAN, SampleEnds(j, usable)
      PROVE  sample' <= Shape[package[j]].samples /\ step' <= Shape[package[j]].models
  BY <1>1, <1>2 DEF SampleEnds, LastSample
<1>3. CASE UNCHANGED <<sample, step>>
  BY <1>1, <1>3
<1>4. CASE ~LastModel(j) /\ NextStage
  BY <1>1, <1>4 DEF LastModel, NextStage
<1>. QED
  BY <1>2, <1>3, <1>4 DEF StageOutcome

\* A job's position stays within the shape of its package, and only a job has
\* one.
LEMMA PositionInductive ==
  TypeOK /\ PositionInv /\ [Next]_vars => PositionInv'
<1> SUFFICES ASSUME TypeOK, PositionInv, [Next]_vars
             PROVE  PositionInv'
  OBVIOUS
<1> USE DEF memory, jobFiles, opFiles, docker, position
<1>0. /\ Nobody \notin Job /\ Retrier \notin Job /\ Stopper \notin Job
      /\ sample \in Nat /\ step \in Nat
      /\ \A j \in Job : /\ Shape[package[j]].samples \in Nat \ {0}
                        /\ Shape[package[j]].models \in Nat
  BY ExecutionAssumption, Bounds DEF TypeOK
<1>1. CASE UNCHANGED <<holder, sample, step, package>>
  BY <1>1 DEF PositionInv
<1>2. ASSUME NEW j \in Job, JobLocks(j) PROVE PositionInv'
  BY <1>2, <1>0 DEF PositionInv, JobLocks, Locks
<1>3. ASSUME NEW j \in Job, StageUnlaunched(j) PROVE PositionInv'
  BY <1>0, <1>3, OutcomePlaced DEF StageUnlaunched, At, OwnStep, PositionInv
<1>4. ASSUME NEW j \in Job, StageReturns(j) PROVE PositionInv'
  BY <1>0, <1>4, OutcomePlaced DEF StageReturns, At, OwnStep, PositionInv
<1>5. ASSUME RetryLocks PROVE PositionInv'
  BY <1>5, <1>0 DEF PositionInv, RetryLocks, TriesLock, Locks
<1>6. ASSUME StopLocks PROVE PositionInv'
  BY <1>6, <1>0 DEF PositionInv, StopLocks, TriesLock, Locks
<1>7. ASSUME Releases PROVE PositionInv'
  BY <1>7, <1>0 DEF PositionInv, Releases, Unlocks
<1>8. ASSUME Restart PROVE PositionInv'
  BY <1>8, <1>0 DEF PositionInv, Restart, Unlocks, ReconcileEnds
<1>. QED
  <2>1. ASSUME NEW c \in Client, ClientStep(c) PROVE PositionInv'
    BY <2>1, <1>1
       DEF ClientStep, ClientReconciled, CreateReconciles, ReconcileBegins,
           CreateBlocked, CreateAnswered, ReconcileEnds, CreateUnverified,
           CreateCleared, AdmissionRefused, Concludes, AdmissionRecalled,
           AdmissionQueued, AdmissionStranded
  <2>2. ASSUME NEW j \in Job, JobStep(j) PROVE PositionInv'
    BY <2>2, <1>1, <1>3, <1>4
       DEF JobStep, JobRefused, ReconcileEnds, JobCleared, StageAnnounced,
           At, OwnStep, StageLaunched, JobReports, JobDiagnoses,
           OperationSaved, OperationStarts, JobUnprepared, JobConcludes
  <2>3. CASE RequestStep
    BY <2>3, <1>1
       DEF RequestStep, RequestRefused, ReconcileEnds, RequestCleared,
           RetryDeclined, At, OwnStep, OperationSaved, RetryDiagnoses,
           OperationStarts, StopDecides
  <2>4. CASE DockerStep
    BY <2>4, <1>1
       DEF DockerStep, StageStarts, unlessDocker, StageExits,
           DiagnosticsStart, DiagnosticsRegister, DiagnosticsExit
  <2>. QED
    BY <2>1, <2>2, <2>3, <2>4, <1>1, <1>2, <1>5, <1>6, <1>7, <1>8
       DEF Next, vars, Poll, HolderReconciles, ReconcileBegins,
           DiagnosticsReturn, OwnStep

\* The types and the positions hold initially.
LEMMA TypeInitially == Init => TypeOK /\ PositionInv
<1> SUFFICES ASSUME Init PROVE TypeOK /\ PositionInv
  OBVIOUS
<1>1. /\ mem \in [Job -> Status] /\ disk \in [Job -> Status]
      /\ holder \in Job \cup {Nobody, Retrier, Stopper} /\ phase \in Phases
  BY DEF Init, Status, Phases
<1>2. /\ sample \in 1..MaxSamples /\ step \in 0..MaxModels
      /\ instance \in 0..MaxInstance
      /\ opInstance \in [Op -> 0..MaxInstance]
  BY Bounds DEF Init
<1>3. /\ client \in [Client -> {"idle", "recovering", "cleared"}]
      /\ jobOp \in [Job -> Op \cup {NoOp}]
      /\ opRun \in [Op -> Job \cup {Nobody}]
      /\ composed \in [Job -> SUBSET Stage]
      /\ live \in [Job -> SUBSET Stage] /\ cli \in [Job -> SUBSET Stage]
  BY DEF Init
<1>4. /\ opStatus \in [Op -> {"none", "running", "succeeded", "partial", "failed"}]
      /\ report \in [Op -> {"none", "succeeded", "partial"}]
  BY DEF Init
<1>5. TypeOK
  BY <1>1, <1>2, <1>3, <1>4 DEF Init, TypeOK
<1>6. PositionInv
  BY ExecutionAssumption DEF Init, PositionInv
<1>. QED
  BY <1>5, <1>6

\* Type correctness: every variable keeps its type in every reachable state.
THEOREM TypeCorrect == Spec => []TypeOK
<1> DEFINE Inv == TypeOK /\ PositionInv
<1>1. Init => Inv
  BY TypeInitially
<1>2. Inv /\ [Next]_vars => Inv'
  BY TypeInductive, PositionInductive
<1>. QED
  BY <1>1, <1>2, PTL DEF Spec

------------------------------------------------------------------------------
\* What the end of a stage tells: where the job goes next, that no other job's
\* status changes, and that a job that is over is recorded as failed.
LEMMA OutcomeReported ==
  ASSUME TypeOK, NEW j \in Job, NEW ok \in BOOLEAN, StageOutcome(j, ok)
  PROVE  /\ phase' \in {"announce", "report", "over"}
         /\ \A i \in Job : i # j => mem'[i] = mem[i]
         /\ phase' = "over" => mem'[j] = "failed"
BY DEF TypeOK, StageOutcome, SampleEnds, NextStage, updateJob

\* Who owns executionMu and where, and which statuses follow from it.
LEMMA OwnerInductive ==
  TypeOK /\ OwnerInv /\ [Next]_vars => OwnerInv'
<1> SUFFICES ASSUME TypeOK, OwnerInv, [Next]_vars
             PROVE  OwnerInv'
  OBVIOUS
<1> USE DEF memory, jobFiles, opFiles, docker, position
<1>0. /\ Nobody \notin Job /\ Retrier \notin Job /\ Stopper \notin Job
      /\ Nobody # Retrier /\ Nobody # Stopper /\ Retrier # Stopper
      /\ Client \cap (Job \cup {Nobody, Retrier, Stopper}) = {}
  BY ExecutionAssumption
<1>1. CASE UNCHANGED <<mem, holder, phase, recoverer, active>>
  BY <1>1 DEF OwnerInv, TypeOK, Working
<1>2. ASSUME NEW c \in Client, CreateReconciles(c) PROVE OwnerInv'
  BY <1>2, <1>0 DEF OwnerInv, CreateReconciles, ReconcileBegins, TypeOK,
     Working
<1>3. ASSUME NEW c \in Client, CreateBlocked(c) PROVE OwnerInv'
  BY <1>3, <1>0 DEF OwnerInv, CreateBlocked, CreateAnswered, ReconcileEnds,
     TypeOK, Working
<1>4. ASSUME NEW c \in Client, CreateUnverified(c) PROVE OwnerInv'
  BY <1>4, <1>0 DEF OwnerInv, CreateUnverified, CreateAnswered,
     ReconcileEnds, TypeOK, Working
<1>5. ASSUME NEW c \in Client, CreateCleared(c) PROVE OwnerInv'
  BY <1>5, <1>0 DEF OwnerInv, CreateCleared, CreateAnswered, ReconcileEnds,
     TypeOK, Working
<1>6. ASSUME NEW c \in Client, NEW j \in Job, AdmissionRecalled(c, j) PROVE OwnerInv'
  BY <1>6, <1>0 DEF OwnerInv, AdmissionRecalled, Concludes, Active,
     TypeOK, Working
<1>7. ASSUME NEW c \in Client, NEW j \in Job, AdmissionQueued(c, j) PROVE OwnerInv'
  BY <1>7, <1>0 DEF OwnerInv, AdmissionQueued, Admissible, Concludes, TypeOK,
     Working
<1>8. ASSUME NEW j \in Job, JobLocks(j) PROVE OwnerInv'
  BY <1>8, <1>0 DEF OwnerInv, JobLocks, Locks, TypeOK, Working
<1>9. ASSUME NEW j \in Job, JobRefused(j) PROVE OwnerInv'
  BY <1>9, <1>0 DEF OwnerInv, JobRefused, Checked, ReconcileEnds, updateJob,
     TypeOK, Working
<1>10. ASSUME NEW j \in Job, JobCleared(j) PROVE OwnerInv'
  BY <1>10, <1>0 DEF OwnerInv, JobCleared, Checked, ReconcileEnds, TypeOK,
     Working
<1>11. ASSUME NEW j \in Job, StageAnnounced(j) PROVE OwnerInv'
  BY <1>11, <1>0 DEF OwnerInv, StageAnnounced, At, OwnStep, updateJob,
     TypeOK, Working
<1>12. ASSUME NEW j \in Job, StageLaunched(j) PROVE OwnerInv'
  BY <1>12, <1>0 DEF OwnerInv, StageLaunched, At, OwnStep, TypeOK, Working
<1>13. ASSUME NEW j \in Job, StageUnlaunched(j) PROVE OwnerInv'
  BY <1>0, <1>13, OutcomeReported DEF StageUnlaunched, At, OwnStep, OwnerInv, Working, TypeOK
<1>14. ASSUME NEW j \in Job, StageReturns(j) PROVE OwnerInv'
  BY <1>0, <1>14, OutcomeReported DEF StageReturns, At, OwnStep, OwnerInv, Working, TypeOK
<1>15. ASSUME NEW j \in Job, JobReports(j) PROVE OwnerInv'
  BY <1>15, <1>0 DEF OwnerInv, JobReports, At, OwnStep, updateJob, TypeOK,
     Working
<1>16. ASSUME NEW j \in Job, NEW o \in Op, JobDiagnoses(j, o) PROVE OwnerInv'
  BY <1>16, <1>0 DEF OwnerInv, JobDiagnoses, At, OwnStep, OperationSaved,
     OperationStarts, TypeOK, Working
<1>17. ASSUME NEW j \in Job, JobUnprepared(j) PROVE OwnerInv'
  BY <1>17, <1>0 DEF OwnerInv, JobUnprepared, At, OwnStep, OperationSaved,
     updateJob, TypeOK, Working
<1>18. ASSUME NEW j \in Job, JobConcludes(j) PROVE OwnerInv'
  BY <1>18, <1>0 DEF OwnerInv, JobConcludes, At, OwnStep, updateJob, TypeOK,
     Working
<1>19. ASSUME RetryLocks PROVE OwnerInv'
  BY <1>19, <1>0 DEF OwnerInv, RetryLocks, TriesLock, Locks, TypeOK, Working
<1>20. ASSUME StopLocks PROVE OwnerInv'
  BY <1>20, <1>0 DEF OwnerInv, StopLocks, TriesLock, Locks, TypeOK, Working
<1>21. ASSUME HolderReconciles PROVE OwnerInv'
  BY <1>21, <1>0 DEF OwnerInv, HolderReconciles, ReconcileBegins, TypeOK,
     Working
<1>22. ASSUME NEW a \in {Retrier, Stopper}, RequestRefused(a) PROVE OwnerInv'
  BY <1>22, <1>0 DEF OwnerInv, RequestRefused, Checked, ReconcileEnds,
     TypeOK, Working
<1>23. ASSUME NEW a \in {Retrier, Stopper}, RequestCleared(a) PROVE OwnerInv'
  BY <1>23, <1>0 DEF OwnerInv, RequestCleared, Checked, ReconcileEnds,
     TypeOK, Working
<1>24. ASSUME RetryDeclined PROVE OwnerInv'
  BY <1>24, <1>0 DEF OwnerInv, RetryDeclined, At, OwnStep, OperationSaved,
     TypeOK, Working
<1>25. ASSUME NEW o \in Op, NEW run \in Job, RetryDiagnoses(o, run) PROVE OwnerInv'
  BY <1>25, <1>0 DEF OwnerInv, RetryDiagnoses, At, OwnStep, OperationSaved,
     OperationStarts, TypeOK, Working
<1>26. ASSUME StopDecides PROVE OwnerInv'
  BY <1>26, <1>0 DEF OwnerInv, StopDecides, At, NoActiveJob, TypeOK, Working
<1>27. ASSUME DiagnosticsReturn PROVE OwnerInv'
  BY <1>27, <1>0 DEF OwnerInv, DiagnosticsReturn, OwnStep, TypeOK, Working
<1>28. ASSUME Releases PROVE OwnerInv'
  BY <1>28, <1>0 DEF OwnerInv, Releases, Unlocks, TypeOK, Working
<1>29. ASSUME Restart PROVE OwnerInv'
  BY <1>29, <1>0 DEF OwnerInv, Restart, Unlocks, ReconcileEnds, TypeOK,
     Working
<1>. QED
  <2>1. ASSUME NEW c \in Client, ClientStep(c) PROVE OwnerInv'
    BY <2>1, <1>1, <1>2, <1>3, <1>4, <1>5, <1>6, <1>7
       DEF ClientStep, ClientReconciled, AdmissionRefused, Concludes,
           AdmissionStranded
  <2>2. ASSUME NEW j \in Job, JobStep(j) PROVE OwnerInv'
    BY <2>2, <1>9, <1>10, <1>11, <1>12, <1>13, <1>14, <1>15, <1>16, <1>17,
       <1>18
       DEF JobStep
  <2>3. CASE RequestStep
    BY <2>3, <1>22, <1>23, <1>24, <1>25, <1>26
       DEF RequestStep
  <2>4. CASE DockerStep
    BY <2>4, <1>1
       DEF DockerStep, StageStarts, unlessDocker, StageExits,
           DiagnosticsStart, DiagnosticsRegister, DiagnosticsExit
  <2>. QED
    BY <2>1, <2>2, <2>3, <2>4, <1>1, <1>8, <1>19, <1>20, <1>21, <1>27, <1>28,
       <1>29
       DEF Next, vars, Poll

\* Compose files and status files precede the containers they describe.
LEMMA RecordedInductive ==
  TypeOK /\ RecordedInv /\ [Next]_vars => RecordedInv'
<1> SUFFICES ASSUME TypeOK, RecordedInv, [Next]_vars
             PROVE  RecordedInv'
  OBVIOUS
<1> USE DEF memory, jobFiles, opFiles, docker, position, TypeOK
<1>0. /\ Nobody \notin Job /\ Retrier \notin Job /\ Stopper \notin Job
      /\ Nobody # Retrier /\ Nobody # Stopper /\ Retrier # Stopper
      /\ NoOp \notin Op
  BY ExecutionAssumption
<1>1. CASE UNCHANGED <<composed, live, cli, liveOp, cliOp, opStatus, opInstance, instance, jobOp>>
  BY <1>1 DEF RecordedInv
<1>2. ASSUME NEW j \in Job, StageLaunched(j) PROVE RecordedInv'
  BY <1>2, <1>0 DEF RecordedInv, StageLaunched, At, OwnStep
<1>3. ASSUME NEW j \in Job, StageReturns(j) PROVE RecordedInv'
  BY <1>3, <1>0 DEF RecordedInv, StageReturns, At, OwnStep
<1>4. ASSUME NEW j \in Job, NEW o \in Op, JobDiagnoses(j, o) PROVE RecordedInv'
  BY <1>4, <1>0 DEF RecordedInv, JobDiagnoses, At, OwnStep, OperationSaved,
     OperationStarts
<1>5. ASSUME NEW j \in Job, JobUnprepared(j) PROVE RecordedInv'
  BY <1>5, <1>0 DEF RecordedInv, JobUnprepared, At, OwnStep, OperationSaved,
     updateJob
<1>6. ASSUME RetryDeclined PROVE RecordedInv'
  BY <1>6, <1>0 DEF RecordedInv, RetryDeclined, At, OwnStep, OperationSaved
<1>7. ASSUME NEW o \in Op, NEW run \in Job, RetryDiagnoses(o, run) PROVE RecordedInv'
  BY <1>7, <1>0 DEF RecordedInv, RetryDiagnoses, At, OwnStep, OperationSaved,
     OperationStarts
<1>8. ASSUME DiagnosticsReturn PROVE RecordedInv'
  <2>1. \A o \in Op : opStatus[o] # "none" => opStatus'[o] # "none"
    BY <1>8, ResultTyped DEF DiagnosticsReturn
  <2>. QED
    BY <1>8, <2>1 DEF DiagnosticsReturn, OwnStep, RecordedInv
<1>9. ASSUME NEW j \in Job, NEW stage \in Stage, StageStarts(j, stage) PROVE RecordedInv'
  BY <1>9, <1>0 DEF RecordedInv, StageStarts, unlessDocker
<1>10. ASSUME NEW j \in Job, NEW stage \in Stage, StageExits(j, stage) PROVE RecordedInv'
  BY <1>10, <1>0 DEF RecordedInv, StageExits, unlessDocker
<1>11. ASSUME NEW o \in Op, DiagnosticsStart(o) PROVE RecordedInv'
  BY <1>11, <1>0 DEF RecordedInv, DiagnosticsStart, unlessDocker
<1>12. ASSUME NEW o \in Op, DiagnosticsExit(o) PROVE RecordedInv'
  BY <1>12, <1>0 DEF RecordedInv, DiagnosticsExit, unlessDocker
<1>13. ASSUME Restart PROVE RecordedInv'
  BY <1>13, <1>0 DEF RecordedInv, Restart, Unlocks, ReconcileEnds
<1>. QED
  <2>1. ASSUME NEW c \in Client, ClientStep(c) PROVE RecordedInv'
    BY <2>1, <1>1
       DEF ClientStep, ClientReconciled, CreateReconciles, ReconcileBegins,
           CreateBlocked, CreateAnswered, ReconcileEnds, CreateUnverified,
           CreateCleared, AdmissionRefused, Concludes, AdmissionRecalled,
           AdmissionQueued, AdmissionStranded
  <2>2. ASSUME NEW j \in Job, JobStep(j) PROVE RecordedInv'
    BY <2>2, <1>1, <1>2, <1>3, <1>4, <1>5
       DEF JobStep, JobRefused, ReconcileEnds, JobCleared, StageAnnounced,
           At, OwnStep, StageUnlaunched, JobReports, JobConcludes
  <2>3. CASE RequestStep
    BY <2>3, <1>1, <1>6, <1>7
       DEF RequestStep, RequestRefused, ReconcileEnds, RequestCleared,
           StopDecides, At
  <2>4. CASE DockerStep
    BY <2>4, <1>1, <1>9, <1>10, <1>11, <1>12
       DEF DockerStep, DiagnosticsRegister, unlessDocker
  <2>. QED
    BY <2>1, <2>2, <2>3, <2>4, <1>1, <1>8, <1>13
       DEF Next, vars, Poll, JobLocks, Locks, RetryLocks, TriesLock,
           StopLocks, HolderReconciles, ReconcileBegins, Releases, Unlocks

\* A reconciliation that found nothing while holding executionMu proves that
\* no container of any execution is left: the heart of the argument.
LEMMA QuietIsEmpty ==
  ASSUME TypeOK, OwnerInv, RecordedInv, ExemptInv, phase = "check", Quiet
  PROVE  liveOp = {} /\ \A j \in Job : live[j] = {}
<1>1. \A j \in Job : live[j] = {}
  BY DEF TypeOK, OwnerInv, RecordedInv, Quiet
<1>2. \A o \in liveOp : o \in ListedOps
  BY DEF TypeOK, RecordedInv, ExemptInv, ListedOps
<1>. QED
  BY <1>1, <1>2 DEF Quiet

\* Only the operation that is being executed is exempt, and only the owner has
\* a docker command under way.
LEMMA ExemptInductive ==
  Dependable /\ TypeOK /\ OwnerInv /\ RecordedInv /\ ExemptInv /\ [Next]_vars => ExemptInv'
<1> SUFFICES ASSUME Dependable, TypeOK, OwnerInv, RecordedInv, ExemptInv, [Next]_vars
             PROVE  ExemptInv'
  OBVIOUS
<1> USE DEF memory, jobFiles, opFiles, docker, position, TypeOK, OwnerInv, OwnRunning
<1>0. /\ Nobody \notin Job /\ Retrier \notin Job /\ Stopper \notin Job
      /\ Nobody # Retrier /\ Nobody # Stopper /\ Retrier # Stopper
      /\ NoOp \notin Op
  BY ExecutionAssumption
<1>1. CASE UNCHANGED <<holder, phase, sample, step, current, jobOp, instance, opStatus, opInstance, liveOp, cliOp, cli>>
  BY <1>1 DEF ExemptInv
<1>2. ASSUME NEW j \in Job, JobLocks(j) PROVE ExemptInv'
  BY <1>2, <1>0 DEF ExemptInv, JobLocks, Locks
<1>3. ASSUME NEW j \in Job, JobRefused(j) PROVE ExemptInv'
  BY <1>3, <1>0 DEF ExemptInv, JobRefused, Checked, ReconcileEnds, updateJob
<1>4. ASSUME NEW j \in Job, JobCleared(j) PROVE ExemptInv'
  BY <1>4, <1>0 DEF ExemptInv, JobCleared, Checked, ReconcileEnds
<1>5. ASSUME NEW j \in Job, StageAnnounced(j) PROVE ExemptInv'
  BY <1>5, <1>0 DEF ExemptInv, StageAnnounced, At, OwnStep, updateJob
<1>6. ASSUME NEW j \in Job, StageLaunched(j) PROVE ExemptInv'
  BY <1>6, <1>0 DEF ExemptInv, StageLaunched, At, OwnStep
<1>7. ASSUME NEW j \in Job, StageUnlaunched(j) PROVE ExemptInv'
  BY <1>7, OutcomeReported DEF StageUnlaunched, At, OwnStep, ExemptInv
<1>8. ASSUME NEW j \in Job, StageReturns(j) PROVE ExemptInv'
  <2>1. phase = "up" /\ phase' \in {"announce", "report", "over"}
    BY <1>8, OutcomeReported DEF StageReturns, At
  <2>2. \A i \in Job : cli'[i] = {}
    BY <1>8 DEF StageReturns, At, ExemptInv
  <2>. QED
    BY <1>8, <2>1, <2>2 DEF StageReturns, OwnStep, ExemptInv
<1>9. ASSUME NEW j \in Job, JobReports(j) PROVE ExemptInv'
  BY <1>9, <1>0 DEF ExemptInv, JobReports, At, OwnStep, updateJob
<1>10. ASSUME NEW j \in Job, NEW o \in Op, JobDiagnoses(j, o) PROVE ExemptInv'
  BY <1>10, <1>0 DEF ExemptInv, JobDiagnoses, At, OwnStep, OperationSaved,
     OperationStarts
<1>11. ASSUME NEW j \in Job, JobUnprepared(j) PROVE ExemptInv'
  <2>1. \A o \in liveOp : opStatus'[o] = opStatus[o] /\ opInstance'[o] = opInstance[o]
    BY <1>11 DEF JobUnprepared, OperationSaved, RecordedInv
  <2>. QED
    BY <1>11, <2>1 DEF JobUnprepared, At, OwnStep, ExemptInv
<1>12. ASSUME NEW j \in Job, JobConcludes(j) PROVE ExemptInv'
  BY <1>12, <1>0 DEF ExemptInv, JobConcludes, At, OwnStep, updateJob
<1>13. ASSUME RetryLocks PROVE ExemptInv'
  BY <1>13, <1>0 DEF ExemptInv, RetryLocks, TriesLock, Locks
<1>14. ASSUME StopLocks PROVE ExemptInv'
  BY <1>14, <1>0 DEF ExemptInv, StopLocks, TriesLock, Locks
<1>15. ASSUME HolderReconciles PROVE ExemptInv'
  BY <1>15, <1>0 DEF ExemptInv, HolderReconciles, ReconcileBegins
<1>16. ASSUME NEW a \in {Retrier, Stopper}, RequestRefused(a) PROVE ExemptInv'
  BY <1>16, <1>0 DEF ExemptInv, RequestRefused, Checked, ReconcileEnds
<1>17. ASSUME NEW a \in {Retrier, Stopper}, RequestCleared(a) PROVE ExemptInv'
  BY <1>17, <1>0 DEF ExemptInv, RequestCleared, Checked, ReconcileEnds
<1>18. ASSUME RetryDeclined PROVE ExemptInv'
  <2>1. \A o \in liveOp : opStatus'[o] = opStatus[o] /\ opInstance'[o] = opInstance[o]
    BY <1>18 DEF RetryDeclined, OperationSaved, RecordedInv
  <2>. QED
    BY <1>18, <2>1 DEF RetryDeclined, At, OwnStep, ExemptInv
<1>19. ASSUME NEW o \in Op, NEW run \in Job, RetryDiagnoses(o, run) PROVE ExemptInv'
  <2>1. \A j \in Job : jobOp[j] # o
    BY <1>0, <1>19 DEF RetryDiagnoses, OperationSaved, RecordedInv
  <2>2. o \notin liveOp \cup cliOp
    BY <1>19 DEF RetryDiagnoses, OperationSaved, RecordedInv
  <2>3. \A p \in liveOp : opStatus'[p] = opStatus[p] /\ opInstance'[p] = opInstance[p]
    BY <1>19, <2>2 DEF RetryDiagnoses, OperationSaved
  <2>. QED
    BY <1>0, <1>19, <2>1, <2>2, <2>3
       DEF RetryDiagnoses, At, OwnStep, OperationStarts, ExemptInv
<1>20. ASSUME StopDecides PROVE ExemptInv'
  BY <1>20, <1>0 DEF ExemptInv, StopDecides, At, NoActiveJob
<1>21. ASSUME DiagnosticsReturn PROVE ExemptInv'
  <2>1. phase = "diagnose" /\ current \in Op /\ cliOp' = {}
    BY <1>21 DEF DiagnosticsReturn, ExemptInv
  <2>2. opStatus'[current] # "running"
    BY <1>21, <2>1, ResultTyped DEF DiagnosticsReturn, Dependable
  <2>3. \A o \in Op \ {current} : opStatus'[o] = opStatus[o]
    BY <1>21, <2>1 DEF DiagnosticsReturn
  <2>4. \A o \in liveOp' : o \in liveOp
    BY <1>21 DEF DiagnosticsReturn
  <2>5. \A o \in liveOp' : ~OwnRunning(o)'
    BY <1>21, <2>2, <2>3, <2>4 DEF DiagnosticsReturn, OwnStep, ExemptInv
  <2>. QED
    BY <1>0, <1>21, <2>1, <2>5 DEF DiagnosticsReturn, OwnStep, ExemptInv
<1>22. ASSUME Releases PROVE ExemptInv'
  BY <1>22, <1>0 DEF ExemptInv, Releases, Unlocks
<1>23. ASSUME NEW j \in Job, NEW stage \in Stage, StageStarts(j, stage) PROVE ExemptInv'
  BY <1>23, <1>0 DEF ExemptInv, StageStarts, unlessDocker
<1>24. ASSUME NEW o \in Op, DiagnosticsStart(o) PROVE ExemptInv'
  BY <1>24, <1>0 DEF ExemptInv, DiagnosticsStart, unlessDocker
<1>25. ASSUME NEW o \in Op, DiagnosticsExit(o) PROVE ExemptInv'
  BY <1>25, <1>0 DEF ExemptInv, DiagnosticsExit, unlessDocker
<1>26. ASSUME Restart PROVE ExemptInv'
  <2>1. \A o \in Op : opInstance[o] \in Nat /\ opInstance[o] <= instance
    BY ExecutionAssumption DEF RecordedInv
  <2>2. \A o \in Op : opInstance'[o] # instance'
    BY <1>26, <2>1, ExecutionAssumption DEF Restart
  <2>3. cliOp' = {} /\ \A j \in Job : cli'[j] = {}
    BY <1>26 DEF Restart, Dependable
  <2>. QED
    BY <1>26, <2>2, <2>3 DEF Restart, Unlocks, ExemptInv
<1>. QED
  <2>1. ASSUME NEW c \in Client, ClientStep(c) PROVE ExemptInv'
    BY <2>1, <1>1
       DEF ClientStep, ClientReconciled, CreateReconciles, ReconcileBegins,
           CreateBlocked, CreateAnswered, ReconcileEnds, CreateUnverified,
           CreateCleared, AdmissionRefused, Concludes, AdmissionRecalled,
           AdmissionQueued, AdmissionStranded
  <2>2. ASSUME NEW j \in Job, JobStep(j) PROVE ExemptInv'
    BY <2>2, <1>3, <1>4, <1>5, <1>6, <1>7, <1>8, <1>9, <1>10, <1>11, <1>12
       DEF JobStep
  <2>3. CASE RequestStep
    BY <2>3, <1>16, <1>17, <1>18, <1>19, <1>20
       DEF RequestStep
  <2>4. CASE DockerStep
    BY <2>4, <1>1, <1>23, <1>24, <1>25
       DEF DockerStep, StageExits, unlessDocker, DiagnosticsRegister
  <2>. QED
    BY <2>1, <2>2, <2>3, <2>4, <1>1, <1>2, <1>13, <1>14, <1>15, <1>21, <1>22,
       <1>26
       DEF Next, vars, Poll

\* Past its reconciliation the owner is alone with its own containers.
LEMMA AloneInductive ==
  TypeOK /\ OwnerInv /\ RecordedInv /\ ExemptInv /\ AloneInv /\ [Next]_vars => AloneInv'
<1> SUFFICES ASSUME TypeOK, OwnerInv, RecordedInv, ExemptInv, AloneInv, [Next]_vars
             PROVE  AloneInv'
  OBVIOUS
<1> USE DEF memory, jobFiles, opFiles, docker, position, TypeOK, OwnerInv, Working, OwnRunning
<1>0. /\ Nobody \notin Job /\ Retrier \notin Job /\ Stopper \notin Job
      /\ Nobody # Retrier /\ Nobody # Stopper /\ Retrier # Stopper
      /\ NoOp \notin Op
  BY ExecutionAssumption
<1>1. CASE UNCHANGED <<holder, phase, current, live, liveOp>>
  BY <1>1 DEF AloneInv
<1>2. ASSUME NEW j \in Job, JobLocks(j) PROVE AloneInv'
  BY <1>2, <1>0 DEF AloneInv, JobLocks, Locks
<1>3. ASSUME NEW j \in Job, JobRefused(j) PROVE AloneInv'
  BY <1>3, <1>0 DEF AloneInv, JobRefused, Checked, ReconcileEnds, updateJob
<1>4. ASSUME NEW j \in Job, JobCleared(j) PROVE AloneInv'
  BY <1>0, <1>4, QuietIsEmpty DEF JobCleared, Checked, AloneInv
<1>5. ASSUME NEW j \in Job, StageAnnounced(j) PROVE AloneInv'
  BY <1>5, <1>0 DEF AloneInv, StageAnnounced, At, OwnStep, updateJob
<1>6. ASSUME NEW j \in Job, StageLaunched(j) PROVE AloneInv'
  BY <1>6, <1>0 DEF AloneInv, StageLaunched, At, OwnStep
<1>7. ASSUME NEW j \in Job, StageUnlaunched(j) PROVE AloneInv'
  BY <1>7, OutcomeReported DEF StageUnlaunched, At, OwnStep, AloneInv
<1>8. ASSUME NEW j \in Job, StageReturns(j) PROVE AloneInv'
  <2>1. phase = "up" /\ holder = j /\ phase' \in {"announce", "report", "over"}
    BY <1>8, OutcomeReported DEF StageReturns, At
  <2>2. \A i \in Job : live'[i] \subseteq live[i]
    BY <1>8 DEF StageReturns
  <2>. QED
    BY <1>8, <2>1, <2>2 DEF StageReturns, OwnStep, AloneInv
<1>9. ASSUME NEW j \in Job, JobReports(j) PROVE AloneInv'
  BY <1>9, <1>0 DEF AloneInv, JobReports, At, OwnStep, updateJob
<1>10. ASSUME NEW j \in Job, NEW o \in Op, JobDiagnoses(j, o) PROVE AloneInv'
  BY <1>10, <1>0 DEF AloneInv, JobDiagnoses, At, OwnStep, OperationSaved,
     OperationStarts
<1>11. ASSUME NEW j \in Job, JobUnprepared(j) PROVE AloneInv'
  BY <1>11, <1>0 DEF AloneInv, JobUnprepared, At, OwnStep, OperationSaved,
     updateJob
<1>12. ASSUME NEW j \in Job, JobConcludes(j) PROVE AloneInv'
  BY <1>12, <1>0 DEF AloneInv, JobConcludes, At, OwnStep, updateJob
<1>13. ASSUME RetryLocks PROVE AloneInv'
  BY <1>13, <1>0 DEF AloneInv, RetryLocks, TriesLock, Locks
<1>14. ASSUME StopLocks PROVE AloneInv'
  BY <1>14, <1>0 DEF AloneInv, StopLocks, TriesLock, Locks
<1>15. ASSUME HolderReconciles PROVE AloneInv'
  BY <1>15, <1>0 DEF AloneInv, HolderReconciles, ReconcileBegins
<1>16. ASSUME NEW a \in {Retrier, Stopper}, RequestRefused(a) PROVE AloneInv'
  BY <1>16, <1>0 DEF AloneInv, RequestRefused, Checked, ReconcileEnds
<1>17. ASSUME NEW a \in {Retrier, Stopper}, RequestCleared(a) PROVE AloneInv'
  BY <1>0, <1>17, QuietIsEmpty DEF RequestCleared, Checked, AloneInv
<1>18. ASSUME RetryDeclined PROVE AloneInv'
  BY <1>18, <1>0 DEF AloneInv, RetryDeclined, At, OwnStep, OperationSaved
<1>19. ASSUME NEW o \in Op, NEW run \in Job, RetryDiagnoses(o, run) PROVE AloneInv'
  BY <1>19, <1>0 DEF AloneInv, RetryDiagnoses, At, OwnStep, OperationSaved,
     OperationStarts
<1>20. ASSUME StopDecides PROVE AloneInv'
  BY <1>20, <1>0 DEF AloneInv, StopDecides, At, NoActiveJob
<1>21. ASSUME DiagnosticsReturn PROVE AloneInv'
  BY <1>21, <1>0 DEF AloneInv, DiagnosticsReturn, OwnStep
<1>22. ASSUME Releases PROVE AloneInv'
  BY <1>22, <1>0 DEF AloneInv, Releases, Unlocks
<1>23. ASSUME NEW j \in Job, NEW stage \in Stage, StageStarts(j, stage) PROVE AloneInv'
  <2>1. holder = j /\ phase = "up"
    BY <1>23 DEF StageStarts, ExemptInv
  <2>2. \A i \in Job \ {j} : live'[i] = live[i]
    BY <1>23 DEF StageStarts
  <2>. QED
    BY <1>23, <2>1, <2>2 DEF StageStarts, unlessDocker, AloneInv
<1>24. ASSUME NEW j \in Job, NEW stage \in Stage, StageExits(j, stage) PROVE AloneInv'
  BY <1>24, <1>0 DEF AloneInv, StageExits, unlessDocker
<1>25. ASSUME NEW o \in Op, DiagnosticsStart(o) PROVE AloneInv'
  <2>1. phase = "diagnose" /\ current = o
    BY <1>25 DEF DiagnosticsStart, ExemptInv
  <2>. QED
    BY <1>25, <2>1 DEF DiagnosticsStart, unlessDocker, AloneInv
<1>26. ASSUME NEW o \in Op, DiagnosticsExit(o) PROVE AloneInv'
  BY <1>26, <1>0 DEF AloneInv, DiagnosticsExit, unlessDocker
<1>27. ASSUME Restart PROVE AloneInv'
  BY <1>27, <1>0 DEF AloneInv, Restart, Unlocks, ReconcileEnds
<1>. QED
  <2>1. ASSUME NEW c \in Client, ClientStep(c) PROVE AloneInv'
    BY <2>1, <1>1
       DEF ClientStep, ClientReconciled, CreateReconciles, ReconcileBegins,
           CreateBlocked, CreateAnswered, ReconcileEnds, CreateUnverified,
           CreateCleared, AdmissionRefused, Concludes, AdmissionRecalled,
           AdmissionQueued, AdmissionStranded
  <2>2. ASSUME NEW j \in Job, JobStep(j) PROVE AloneInv'
    BY <2>2, <1>3, <1>4, <1>5, <1>6, <1>7, <1>8, <1>9, <1>10, <1>11, <1>12
       DEF JobStep
  <2>3. CASE RequestStep
    BY <2>3, <1>16, <1>17, <1>18, <1>19, <1>20
       DEF RequestStep
  <2>4. CASE DockerStep
    BY <2>4, <1>1, <1>23, <1>24, <1>25, <1>26
       DEF DockerStep, DiagnosticsRegister, unlessDocker
  <2>. QED
    BY <2>1, <2>2, <2>3, <2>4, <1>1, <1>2, <1>13, <1>14, <1>15, <1>21, <1>22,
       <1>27
       DEF Next, vars, Poll

\* The containers that are left belong to one execution.
LEMMA LiveInductive ==
  TypeOK /\ OwnerInv /\ RecordedInv /\ ExemptInv /\ AloneInv /\ LiveInv /\ [Next]_vars => LiveInv'
<1> SUFFICES ASSUME TypeOK, OwnerInv, RecordedInv, ExemptInv, AloneInv, LiveInv, [Next]_vars
             PROVE  LiveInv'
  OBVIOUS
<1> USE DEF memory, jobFiles, opFiles, docker, position, TypeOK, Working
<1>0. /\ Nobody \notin Job /\ Retrier \notin Job /\ Stopper \notin Job
      /\ Nobody # Retrier /\ Nobody # Stopper /\ Retrier # Stopper
      /\ NoOp \notin Op
  BY ExecutionAssumption
<1>1. CASE UNCHANGED <<live, liveOp, jobOp>>
  BY <1>1 DEF LiveInv
<1>2. ASSUME NEW j \in Job, StageReturns(j) PROVE LiveInv'
  BY <1>2, <1>0 DEF LiveInv, StageReturns, At, OwnStep
<1>3. ASSUME NEW j \in Job, NEW o \in Op, JobDiagnoses(j, o) PROVE LiveInv'
  <2>1. liveOp = {}
    BY <1>3 DEF JobDiagnoses, At, AloneInv
  <2>. QED
    BY <1>3, <2>1 DEF JobDiagnoses, LiveInv
<1>4. ASSUME NEW j \in Job, JobUnprepared(j) PROVE LiveInv'
  <2>1. liveOp = {}
    BY <1>4 DEF JobUnprepared, At, AloneInv
  <2>. QED
    BY <1>4, <2>1 DEF JobUnprepared, OwnStep, LiveInv
<1>5. ASSUME DiagnosticsReturn PROVE LiveInv'
  BY <1>5, <1>0 DEF LiveInv, DiagnosticsReturn, OwnStep
<1>6. ASSUME NEW j \in Job, NEW stage \in Stage, StageStarts(j, stage) PROVE LiveInv'
  <2>1. holder = j /\ phase = "up"
    BY <1>6 DEF StageStarts, ExemptInv
  <2>2. liveOp = {} /\ \A i \in Job : live[i] # {} => i = j
    BY <2>1 DEF AloneInv
  <2>3. \A i \in Job \ {j} : live'[i] = live[i]
    BY <1>6 DEF StageStarts
  <2>. QED
    BY <1>6, <2>2, <2>3 DEF StageStarts, LiveInv
<1>7. ASSUME NEW j \in Job, NEW stage \in Stage, StageExits(j, stage) PROVE LiveInv'
  BY <1>7, <1>0 DEF LiveInv, StageExits, unlessDocker
<1>8. ASSUME NEW o \in Op, DiagnosticsStart(o) PROVE LiveInv'
  <2>1. phase = "diagnose" /\ current = o
    BY <1>8 DEF DiagnosticsStart, ExemptInv
  <2>2. \A p \in liveOp' : p = o
    BY <1>8, <2>1 DEF DiagnosticsStart, AloneInv
  <2>3. \A j \in Job : live[j] # {} => jobOp[j] = o
    BY <2>1 DEF AloneInv, ExemptInv
  <2>. QED
    BY <1>8, <2>2, <2>3 DEF DiagnosticsStart, unlessDocker, LiveInv
<1>9. ASSUME NEW o \in Op, DiagnosticsExit(o) PROVE LiveInv'
  BY <1>9, <1>0 DEF LiveInv, DiagnosticsExit, unlessDocker
<1>. QED
  <2>1. ASSUME NEW c \in Client, ClientStep(c) PROVE LiveInv'
    BY <2>1, <1>1
       DEF ClientStep, ClientReconciled, CreateReconciles, ReconcileBegins,
           CreateBlocked, CreateAnswered, ReconcileEnds, CreateUnverified,
           CreateCleared, AdmissionRefused, Concludes, AdmissionRecalled,
           AdmissionQueued, AdmissionStranded
  <2>2. ASSUME NEW j \in Job, JobStep(j) PROVE LiveInv'
    BY <2>2, <1>1, <1>2, <1>3, <1>4
       DEF JobStep, JobRefused, ReconcileEnds, JobCleared, StageAnnounced,
           At, OwnStep, StageLaunched, StageUnlaunched, JobReports,
           JobConcludes
  <2>3. CASE RequestStep
    BY <2>3, <1>1
       DEF RequestStep, RequestRefused, ReconcileEnds, RequestCleared,
           RetryDeclined, At, OwnStep, OperationSaved, RetryDiagnoses,
           OperationStarts, StopDecides
  <2>4. CASE DockerStep
    BY <2>4, <1>1, <1>6, <1>7, <1>8, <1>9
       DEF DockerStep, DiagnosticsRegister, unlessDocker
  <2>. QED
    BY <2>1, <2>2, <2>3, <2>4, <1>1, <1>5
       DEF Next, vars, Poll, JobLocks, Locks, RetryLocks, TriesLock,
           StopLocks, HolderReconciles, ReconcileBegins, Releases, Unlocks,
           Restart, ReconcileEnds

\* An accepted stop found nothing active, and admits nothing afterwards.
LEMMA StopInductive ==
  TypeOK /\ OwnerInv /\ RecordedInv /\ ExemptInv /\ AloneInv /\ StopInv /\ [Next]_vars => StopInv'
<1> SUFFICES ASSUME TypeOK, OwnerInv, RecordedInv, ExemptInv, AloneInv, StopInv, [Next]_vars
             PROVE  StopInv'
  OBVIOUS
<1> USE DEF memory, jobFiles, opFiles, docker, position, TypeOK, Working, Active
<1>0. /\ Nobody \notin Job /\ Retrier \notin Job /\ Stopper \notin Job
      /\ Nobody # Retrier /\ Nobody # Stopper /\ Retrier # Stopper
      /\ NoOp \notin Op
  BY ExecutionAssumption
<1>1. CASE UNCHANGED <<stopping, mem, live, liveOp, holder, phase>>
  BY <1>1 DEF StopInv
<1>2. ASSUME NEW c \in Client, NEW j \in Job, AdmissionRecalled(c, j) PROVE StopInv'
  BY <1>2, <1>0 DEF StopInv, AdmissionRecalled, Concludes
<1>3. ASSUME NEW c \in Client, NEW j \in Job, AdmissionQueued(c, j) PROVE StopInv'
  BY <1>3, <1>0 DEF StopInv, AdmissionQueued, Admissible, Concludes
<1>4. ASSUME NEW j \in Job, JobLocks(j) PROVE StopInv'
  BY <1>4, <1>0 DEF StopInv, JobLocks, Locks
<1>5. ASSUME NEW j \in Job, JobRefused(j) PROVE StopInv'
  BY <1>5, <1>0 DEF StopInv, JobRefused, Checked, ReconcileEnds, updateJob
<1>6. ASSUME NEW j \in Job, JobCleared(j) PROVE StopInv'
  BY <1>6, <1>0 DEF StopInv, JobCleared, Checked, ReconcileEnds
<1>7. ASSUME NEW j \in Job, StageAnnounced(j) PROVE StopInv'
  BY <1>7, <1>0 DEF StopInv, StageAnnounced, At, OwnStep, updateJob
<1>8. ASSUME NEW j \in Job, StageLaunched(j) PROVE StopInv'
  BY <1>8, <1>0 DEF StopInv, StageLaunched, At, OwnStep
<1>9. ASSUME NEW j \in Job, StageUnlaunched(j) PROVE StopInv'
  BY <1>9, <1>0 DEF StopInv, StageUnlaunched, At, OwnStep
<1>10. ASSUME NEW j \in Job, StageReturns(j) PROVE StopInv'
  BY <1>10, <1>0 DEF StopInv, StageReturns, At, OwnStep
<1>11. ASSUME NEW j \in Job, JobReports(j) PROVE StopInv'
  BY <1>11, <1>0 DEF StopInv, JobReports, At, OwnStep, updateJob
<1>12. ASSUME NEW j \in Job, NEW o \in Op, JobDiagnoses(j, o) PROVE StopInv'
  BY <1>12, <1>0 DEF StopInv, JobDiagnoses, At, OwnStep, OperationSaved,
     OperationStarts
<1>13. ASSUME NEW j \in Job, JobUnprepared(j) PROVE StopInv'
  BY <1>13, <1>0 DEF StopInv, JobUnprepared, At, OwnStep, OperationSaved,
     updateJob
<1>14. ASSUME NEW j \in Job, JobConcludes(j) PROVE StopInv'
  BY <1>14, <1>0 DEF StopInv, JobConcludes, At, OwnStep, updateJob
<1>15. ASSUME RetryLocks PROVE StopInv'
  BY <1>15, <1>0 DEF StopInv, RetryLocks, TriesLock, Locks
<1>16. ASSUME StopLocks PROVE StopInv'
  BY <1>16, <1>0 DEF StopInv, StopLocks, TriesLock, Locks
<1>17. ASSUME HolderReconciles PROVE StopInv'
  BY <1>17, <1>0 DEF StopInv, HolderReconciles, ReconcileBegins
<1>18. ASSUME NEW a \in {Retrier, Stopper}, RequestRefused(a) PROVE StopInv'
  BY <1>18, <1>0 DEF StopInv, RequestRefused, Checked, ReconcileEnds
<1>19. ASSUME NEW a \in {Retrier, Stopper}, RequestCleared(a) PROVE StopInv'
  BY <1>19, <1>0 DEF StopInv, RequestCleared, Checked, ReconcileEnds
<1>20. ASSUME RetryDeclined PROVE StopInv'
  BY <1>20, <1>0 DEF StopInv, RetryDeclined, At, OwnStep, OperationSaved
<1>21. ASSUME NEW o \in Op, NEW run \in Job, RetryDiagnoses(o, run) PROVE StopInv'
  BY <1>21, <1>0 DEF StopInv, RetryDiagnoses, At, OwnStep, OperationSaved,
     OperationStarts
<1>22. ASSUME StopDecides PROVE StopInv'
  <2>1. liveOp = {} /\ \A j \in Job : live[j] = {}
    BY <1>22 DEF StopDecides, At, AloneInv
  <2>. QED
    BY <1>0, <1>22, <2>1 DEF StopDecides, At, NoActiveJob, StopInv
<1>23. ASSUME DiagnosticsReturn PROVE StopInv'
  BY <1>23, <1>0 DEF StopInv, DiagnosticsReturn, OwnStep
<1>24. ASSUME Releases PROVE StopInv'
  BY <1>24, <1>0 DEF StopInv, Releases, Unlocks
<1>25. ASSUME NEW j \in Job, NEW stage \in Stage, StageStarts(j, stage) PROVE StopInv'
  <2>1. holder = j
    BY <1>25 DEF StageStarts, ExemptInv
  <2>. QED
    BY <1>25, <2>1 DEF StageStarts, unlessDocker, StopInv
<1>26. ASSUME NEW j \in Job, NEW stage \in Stage, StageExits(j, stage) PROVE StopInv'
  BY <1>26, <1>0 DEF StopInv, StageExits, unlessDocker
<1>27. ASSUME NEW o \in Op, DiagnosticsStart(o) PROVE StopInv'
  <2>1. phase = "diagnose"
    BY <1>27 DEF DiagnosticsStart, ExemptInv
  <2>. QED
    BY <1>27, <2>1 DEF DiagnosticsStart, unlessDocker, StopInv
<1>28. ASSUME NEW o \in Op, DiagnosticsExit(o) PROVE StopInv'
  BY <1>28, <1>0 DEF StopInv, DiagnosticsExit, unlessDocker
<1>29. ASSUME Restart PROVE StopInv'
  BY <1>29, <1>0 DEF StopInv, Restart, Unlocks, ReconcileEnds
<1>. QED
  <2>1. ASSUME NEW c \in Client, ClientStep(c) PROVE StopInv'
    BY <2>1, <1>1, <1>2, <1>3
       DEF ClientStep, ClientReconciled, CreateReconciles, ReconcileBegins,
           CreateBlocked, CreateAnswered, ReconcileEnds, CreateUnverified,
           CreateCleared, AdmissionRefused, Concludes, AdmissionStranded
  <2>2. ASSUME NEW j \in Job, JobStep(j) PROVE StopInv'
    BY <2>2, <1>5, <1>6, <1>7, <1>8, <1>9, <1>10, <1>11, <1>12, <1>13, <1>14
       DEF JobStep
  <2>3. CASE RequestStep
    BY <2>3, <1>18, <1>19, <1>20, <1>21, <1>22
       DEF RequestStep
  <2>4. CASE DockerStep
    BY <2>4, <1>1, <1>25, <1>26, <1>27, <1>28
       DEF DockerStep, DiagnosticsRegister, unlessDocker
  <2>. QED
    BY <2>1, <2>2, <2>3, <2>4, <1>1, <1>4, <1>15, <1>16, <1>17, <1>23, <1>24,
       <1>29
       DEF Next, vars, Poll

\* All of it holds initially.
LEMMA ExecutionInitially == Init => ExecutionInv
<1> SUFFICES ASSUME Init PROVE ExecutionInv
  OBVIOUS
<1>1. TypeOK /\ PositionInv
  BY TypeInitially
<1>2. /\ Nobody \notin Job /\ Nobody # Retrier /\ Nobody # Stopper
      /\ \A o \in Op : opInstance[o] <= instance
  BY ExecutionAssumption DEF Init
<1>3. OwnerInv
  BY <1>2 DEF Init, OwnerInv, Working
<1>4. RecordedInv
  BY <1>2 DEF Init, RecordedInv
<1>5. ExemptInv /\ AloneInv /\ LiveInv /\ StopInv
  BY DEF Init, ExemptInv, AloneInv, LiveInv, StopInv, Working
<1>. QED
  BY <1>1, <1>3, <1>4, <1>5 DEF ExecutionInv

\* Every step of a dependable Handler preserves the inductive invariant.
LEMMA ExecutionInductive == Dependable /\ ExecutionInv /\ [Next]_vars => ExecutionInv'
BY TypeInductive, PositionInductive, OwnerInductive, RecordedInductive,
   ExemptInductive, AloneInductive, LiveInductive, StopInductive
   DEF ExecutionInv

\* The inductive invariant holds in every reachable state.
THEOREM InvariantHolds ==
  ASSUME Dependable
  PROVE  Spec => []ExecutionInv
<1>1. ExecutionInv /\ [Next]_vars => ExecutionInv'
  BY Dependable, ExecutionInductive
<1>. QED
  BY <1>1, ExecutionInitially, PTL DEF Spec

\* Which execution a running state belongs to.
LEMMA JobIsRunning ==
  ASSUME NEW j \in Job, executionState[j] = "running"
  PROVE  JobRunning(j)
BY DEF executionState, JobState

\* An operation the abstract state calls running has work under way.
LEMMA OpIsRunning ==
  ASSUME NEW o \in Op, executionState[o] = "running"
  PROVE  OpRunning(o)
<1>1. o \notin Job /\ o \in Job \cup Op
  BY ExecutionAssumption
<1>. QED
  BY <1>1 DEF executionState, OpState

\* A job that is running owns executionMu past its reconciliation, or its
\* containers are the ones that are left.
LEMMA RunningJob ==
  ASSUME ExecutionInv, NEW j \in Job, JobRunning(j)
  PROVE  \/ holder = j /\ phase \in Working
         \/ live[j] # {}
         \/ jobOp[j] \in liveOp
<1>1. CASE holder = j /\ phase \notin {"recover", "check", "over"}
  BY <1>1, ExecutionAssumption DEF ExecutionInv, TypeOK, OwnerInv, Phases, Working
<1>2. CASE cli[j] # {}
  BY <1>2 DEF ExecutionInv, ExemptInv, Working
<1>3. CASE jobOp[j] \in cliOp
  <2>1. phase = "diagnose" /\ current = jobOp[j] /\ current \in Op
    BY <1>3 DEF ExecutionInv, TypeOK, ExemptInv
  <2>2. current # NoOp
    BY <2>1, ExecutionAssumption
  <2>3. holder = j
    BY <2>1, <2>2, ExecutionAssumption
       DEF ExecutionInv, TypeOK, OwnerInv, RecordedInv, ExemptInv
  <2>. QED
    BY <2>1, <2>3 DEF Working
<1>. QED
  BY <1>1, <1>2, <1>3 DEF JobRunning

\* So does a retried operation.
LEMMA RunningOp ==
  ASSUME ExecutionInv, NEW o \in Op, OpRunning(o)
  PROVE  /\ \A j \in Job : jobOp[j] # o
         /\ \/ holder = Retrier /\ phase = "diagnose" /\ current = o
            \/ o \in liveOp
<1>1. CASE o \in cliOp
  <2>1. phase = "diagnose" /\ current = o
    BY <1>1 DEF ExecutionInv, ExemptInv
  <2>2. holder = Retrier
    BY <2>1 DEF OpRunning, ExecutionInv, TypeOK, OwnerInv, ExemptInv
  <2>. QED
    BY <2>1, <2>2 DEF OpRunning
<1>. QED
  BY <1>1 DEF OpRunning

\* No two jobs, no job and retry, and no two retries are running together.
LEMMA OneJob ==
  ASSUME ExecutionInv, NEW i \in Job, NEW j \in Job, JobRunning(i), JobRunning(j)
  PROVE  i = j
<1>1. ASSUME NEW k \in Job, NEW l \in Job, holder = k, phase \in Working, JobRunning(l)
      PROVE  k = l
  <2>1. CASE live[l] # {}
    BY <1>1, <2>1 DEF ExecutionInv, AloneInv
  <2>2. CASE jobOp[l] \in liveOp
    <3>1. phase \in {"diagnose", "conclude"} /\ current = jobOp[l]
      BY <1>1, <2>2 DEF ExecutionInv, AloneInv
    <3>2. jobOp[k] = current
      BY <1>1, <3>1 DEF ExecutionInv, ExemptInv
    <3>3. jobOp[l] # NoOp
      BY <2>2, ExecutionAssumption DEF ExecutionInv, TypeOK
    <3>. QED
      BY <3>1, <3>2, <3>3 DEF ExecutionInv, RecordedInv
  <2>. QED
    BY <1>1, <2>1, <2>2, RunningJob
<1>2. CASE live[i] # {} /\ live[j] # {}
  BY <1>2 DEF ExecutionInv, LiveInv
<1>3. ASSUME NEW k \in Job, NEW l \in Job, jobOp[k] \in liveOp, jobOp[l] \in liveOp
      PROVE  k = l
  <2>1. jobOp[k] = jobOp[l] /\ jobOp[k] # NoOp
    BY <1>3, ExecutionAssumption DEF ExecutionInv, TypeOK, LiveInv
  <2>. QED
    BY <2>1 DEF ExecutionInv, RecordedInv
<1>4. ASSUME NEW k \in Job, NEW l \in Job, live[k] # {}, jobOp[l] \in liveOp
      PROVE  k = l
  <2>1. jobOp[k] \in liveOp
    BY <1>4 DEF ExecutionInv, LiveInv
  <2>. QED
    BY <1>3, <1>4, <2>1
<1>. QED
  BY <1>1, <1>2, <1>3, <1>4, RunningJob

\* A job and an operation never have work at once,
LEMMA NoJobBesideOp ==
  ASSUME ExecutionInv, NEW j \in Job, NEW o \in Op, JobRunning(j), OpRunning(o)
  PROVE  FALSE
<1>1. /\ jobOp[j] # o
      /\ \/ holder = Retrier /\ phase = "diagnose" /\ current = o
         \/ o \in liveOp
  BY RunningOp
<1>2. Retrier \notin Job
  BY ExecutionAssumption
<1>3. CASE o \in liveOp
  <2>1. jobOp[j] \notin liveOp /\ live[j] = {}
    BY <1>1, <1>3 DEF ExecutionInv, LiveInv
  <2>2. holder = j /\ phase \in Working
    BY <2>1, RunningJob
  <2>3. phase \in {"diagnose", "conclude"} /\ current = o
    BY <1>3, <2>2 DEF ExecutionInv, AloneInv
  <2>. QED
    BY <1>1, <2>2, <2>3 DEF ExecutionInv, ExemptInv
<1>4. CASE holder = Retrier /\ phase = "diagnose" /\ current = o
  <2>1. live[j] = {} /\ jobOp[j] \notin liveOp
    BY <1>1, <1>2, <1>4 DEF ExecutionInv, AloneInv, Working
  <2>. QED
    BY <1>2, <1>4, <2>1, RunningJob
<1>. QED
  BY <1>1, <1>3, <1>4

\* nor do two operations.
LEMMA OneOp ==
  ASSUME ExecutionInv, NEW o \in Op, NEW p \in Op, OpRunning(o), OpRunning(p)
  PROVE  o = p
<1>1. ASSUME NEW q \in liveOp, phase = "diagnose"
      PROVE  q = current
  BY <1>1 DEF ExecutionInv, AloneInv, Working
<1>. QED
  BY <1>1, RunningOp DEF ExecutionInv, LiveInv

\* "Execution is serialized" (docs/runtime-integration.md): never do two
\* executions have container work, whatever the interleaving of requests, jobs,
\* retries, stops, Docker and restarts.
THEOREM OneExecutionHolds ==
  ASSUME Dependable
  PROVE  Spec => []OneExecution
<1>1. ExecutionInv => OneExecution
  <2> SUFFICES ASSUME ExecutionInv, NEW d \in Job \cup Op, NEW e \in Job \cup Op,
                      executionState[d] = "running", executionState[e] = "running"
               PROVE  d = e
    BY DEF OneExecution
  <2>1. CASE d \in Job /\ e \in Job
    BY <2>1, JobIsRunning, OneJob
  <2>2. CASE d \in Job /\ e \in Op
    BY <2>2, JobIsRunning, OpIsRunning, NoJobBesideOp
  <2>3. CASE d \in Op /\ e \in Job
    BY <2>3, JobIsRunning, OpIsRunning, NoJobBesideOp
  <2>4. CASE d \in Op /\ e \in Op
    BY <2>4, OpIsRunning, OneOp
  <2>. QED
    BY <2>1, <2>2, <2>3, <2>4
<1>. QED
  BY <1>1, InvariantHolds, PTL

\* An accepted stop (requestShutdown) leaves no queued or running job and no
\* container of any execution, for as long as the process lives on.
THEOREM StopIsQuietHolds ==
  ASSUME Dependable
  PROVE  Spec => []StopIsQuiet
<1>1. ExecutionInv => StopIsQuiet
  <2> SUFFICES ASSUME ExecutionInv, stopping PROVE StopIsQuiet
    BY DEF StopIsQuiet
  <2>1. /\ \A j \in Job : mem[j] \notin Active /\ live[j] = {}
        /\ liveOp = {} /\ holder \notin Job /\ phase # "diagnose"
    BY DEF ExecutionInv, StopInv
  <2>2. \A j \in Job : executionState[j] # "running"
    BY <2>1, JobIsRunning, RunningJob
  <2>3. \A o \in Op : executionState[o] # "running"
    BY <2>1, OpIsRunning, RunningOp
  <2>. QED
    BY <2>1, <2>2, <2>3 DEF StopIsQuiet, NoActiveJob
<1>. QED
  BY <1>1, InvariantHolds, PTL
=============================================================================

------------------------ MODULE ExecutionRecords_proofs ------------------------
(***************************************************************************)
(* What the run directories come to say, for every value of the constants: *)
(* idempotency keys, one active run of a package, the agreement of memory  *)
(* and job.json, finality of outcomes, what a success means, whose report  *)
(* an operation adopts. And, step by step, that the Handler implements     *)
(* SerialExecution.                                                        *)
(***************************************************************************)
EXTENDS Execution_proofs

Reported == {"report", "prepare", "diagnose", "conclude"}

StagesOf(j) == (1..Shape[package[j]].samples) \X (0..Shape[package[j]].models)

\* The stages a job that owns executionMu has launched if nothing failed.
Behind(j) ==
  {stage \in StagesOf(j) :
     \/ phase \in Reported
     \/ stage[1] < sample
     \/ stage[1] = sample /\ (stage[2] < step \/ (stage[2] = step /\ phase = "up"))}

\* What memory or a run directory says of a job, job.json has said before.
KnownInv ==
  \A j \in Job :
    mem[j] # "absent" \/ composed[j] # {} \/ jobOp[j] # NoOp => disk[j] # "absent"

\* Until it is over, the owner's job.json calls it queued or running.
HeldInv ==
  \A j \in Job : holder = j =>
    /\ mem[j] # "absent"
    /\ phase # "over" => disk[j] \in Active
    /\ phase \in {"recover", "check"} => mem[j] = "queued"

\* A queued job has done nothing.
QueuedInv ==
  \A j \in Job : mem[j] = "queued" =>
    /\ disk[j] = "queued" /\ composed[j] = {} /\ jobOp[j] = NoOp
    /\ holder = j => /\ phase \in {"recover", "check", "announce"}
                     /\ sample = 1 /\ step = 0

\* The operation under way, and the one a job concludes from.
DiagnosedInv ==
  /\ phase = "diagnose" => /\ current \in Op /\ opStatus[current] = "running"
                           /\ holder \in Job => jobOp[holder] = current
  /\ phase = "conclude" => /\ current \in Op /\ jobOp[holder] = current
                           /\ ~lapsed => opStatus[current] = "succeeded"

\* A job that nothing failed has launched every stage before its position.
ProgressInv == \A j \in Job : holder = j /\ ~lapsed => Behind(j) \subseteq composed[j]

OwnedInv == TypeOK /\ PositionInv /\ OwnerInv
HistoryInv == OwnedInv /\ KnownInv /\ HeldInv /\ QueuedInv
-----------------------------------------------------------------------------
\* The three ways on from a stage that end nothing, and the one way that does.
LEMMA OutcomeLeads ==
  ASSUME NEW j \in Job, NEW ok \in BOOLEAN, StageOutcome(j, ok)
  PROVE  /\ phase' \in {"announce", "report", "over"}
         /\ phase' # "over" => UNCHANGED <<mem, disk>>
         /\ phase' = "over" => updateJob(j, "failed")
         /\ lapsed' = FALSE =>
              /\ ok /\ ~lapsed
              /\ \/ phase' = "announce" /\ sample' = sample /\ step' = step + 1
                 \/ phase' = "announce" /\ sample' = sample + 1 /\ step' = 0 /\ LastModel(j)
                 \/ phase' = "report" /\ LastModel(j) /\ LastSample(j)
                 \/ phase' = "over"
BY DEF StageOutcome, SampleEnds, NextStage

\* updateJob changes one job, and job.json only to what memory says then.
LEMMA UpdateRecords ==
  ASSUME TypeOK, NEW j \in Job, NEW status, updateJob(j, status)
  PROVE  /\ \A i \in Job : i # j => mem'[i] = mem[i] /\ disk'[i] = disk[i]
         /\ \/ mem'[j] = status /\ disk'[j] = status
            \/ JobWriteFaults /\ mem'[j] = "failed" /\ disk'[j] = disk[j]
BY DEF TypeOK, updateJob

\* What a run directory and memory say of a job, and where its owner is, go
\* together.
LEMMA HistoryInductive == HistoryInv /\ [Next]_vars => KnownInv' /\ HeldInv' /\ QueuedInv'
<1> SUFFICES ASSUME HistoryInv, [Next]_vars PROVE KnownInv' /\ HeldInv' /\ QueuedInv'
  OBVIOUS
<1> DEFINE Goal == KnownInv' /\ HeldInv' /\ QueuedInv'
<1> USE DEF memory, jobFiles, opFiles, docker, position
<1>0. /\ Nobody \notin Job /\ Retrier \notin Job /\ Stopper \notin Job
      /\ Nobody # Retrier /\ Nobody # Stopper /\ Retrier # Stopper
      /\ TypeOK /\ PositionInv /\ OwnerInv /\ KnownInv /\ HeldInv /\ QueuedInv
  BY ExecutionAssumption DEF HistoryInv, OwnedInv
<1>1. /\ mem \in [Job -> Status] /\ disk \in [Job -> Status]
      /\ jobOp \in [Job -> Op \cup {NoOp}] /\ composed \in [Job -> SUBSET Stage]
      /\ holder \in Job \cup {Nobody, Retrier, Stopper}
  BY <1>0 DEF TypeOK
<1>2. CASE UNCHANGED <<mem, disk, holder, phase, sample, step, composed, jobOp>>
  BY <1>0, <1>2 DEF KnownInv, HeldInv, QueuedInv
<1>3. ASSUME NEW c \in Client, NEW j \in Job, AdmissionRecalled(c, j) PROVE Goal
  BY <1>0, <1>1, <1>3
     DEF KnownInv, HeldInv, QueuedInv, AdmissionRecalled, KnownKey, Concludes, Active
<1>4. ASSUME NEW c \in Client, NEW j \in Job, AdmissionQueued(c, j) PROVE Goal
  BY <1>0, <1>1, <1>4
     DEF KnownInv, HeldInv, QueuedInv, AdmissionQueued, Admissible, Concludes, Active
<1>5. ASSUME NEW c \in Client, NEW j \in Job, AdmissionStranded(c, j) PROVE Goal
  BY <1>0, <1>1, <1>5
     DEF KnownInv, HeldInv, QueuedInv, AdmissionStranded, Admissible, Concludes, Active
<1>6. ASSUME NEW j \in Job, Poll(j) PROVE Goal
  BY <1>0, <1>1, <1>6 DEF KnownInv, HeldInv, QueuedInv, Poll, Active
<1>7. ASSUME NEW j \in Job, JobLocks(j) PROVE Goal
  BY <1>0, <1>1, <1>7 DEF KnownInv, HeldInv, QueuedInv, JobLocks, Locks, Active, PositionInv
<1>8. ASSUME NEW j \in Job, holder = j, holder' = j, phase # "over", phase' = "over",
             \E status \in Terminal : updateJob(j, status),
             UNCHANGED composed,
             \A i \in Job : jobOp'[i] # NoOp => jobOp[i] # NoOp \/ i = j
      PROVE  Goal
  <2>1. /\ \A i \in Job : i # j => mem'[i] = mem[i] /\ disk'[i] = disk[i]
        /\ mem'[j] # "queued" /\ mem'[j] # "absent" /\ disk'[j] # "absent"
    BY <1>0, <1>8, UpdateRecords DEF HeldInv, Active, Terminal
  <2>2. \A i \in Job : i # j => (jobOp[i] = NoOp => jobOp'[i] = NoOp)
    BY <1>8
  <2>. QED
    BY <1>0, <1>8, <2>1, <2>2 DEF KnownInv, HeldInv, QueuedInv
<1>9. ASSUME NEW j \in Job, JobRefused(j) PROVE Goal
  BY <1>8, <1>9 DEF JobRefused, Checked, Terminal
<1>10. ASSUME NEW j \in Job, JobCleared(j) PROVE Goal
  BY <1>0, <1>1, <1>10 DEF KnownInv, HeldInv, QueuedInv, JobCleared, Checked
<1>11. ASSUME NEW j \in Job, StageAnnounced(j) PROVE Goal
  <2>1. mem[j] = "queued" => updateJob(j, "running")
    BY <1>0, <1>11 DEF StageAnnounced, At, QueuedInv
  <2>2. /\ \A i \in Job : i # j => mem'[i] = mem[i] /\ disk'[i] = disk[i]
        /\ mem'[j] # "queued" /\ mem'[j] # "absent" /\ disk'[j] \in Active
    BY <1>0, <1>11, <2>1, UpdateRecords DEF StageAnnounced, At, HeldInv, Active
  <2>. QED
    BY <1>0, <1>11, <2>2 DEF KnownInv, HeldInv, QueuedInv, StageAnnounced, At, OwnStep, Active
<1>12. ASSUME NEW j \in Job, StageLaunched(j) PROVE Goal
  BY <1>0, <1>1, <1>12 DEF KnownInv, HeldInv, QueuedInv, StageLaunched, At, OwnStep, Active
<1>13. ASSUME NEW j \in Job, NEW ok \in BOOLEAN, holder = j, phase \in {"launch", "up"},
              StageOutcome(j, ok), UNCHANGED <<holder, composed, jobOp>>
       PROVE  Goal
  <2>1. CASE phase' = "over"
    BY <1>8, <1>13, <2>1, OutcomeLeads DEF Terminal
  <2>2. CASE phase' # "over"
    BY <1>0, <1>13, <2>2, OutcomeLeads DEF KnownInv, HeldInv, QueuedInv
  <2>. QED
    BY <2>1, <2>2
<1>14. ASSUME NEW j \in Job, StageUnlaunched(j) PROVE Goal
  BY <1>13, <1>14 DEF StageUnlaunched, At, OwnStep
<1>15. ASSUME NEW j \in Job, StageReturns(j) PROVE Goal
  BY <1>13, <1>15 DEF StageReturns, At, OwnStep
<1>16. ASSUME NEW j \in Job, JobReports(j) PROVE Goal
  <2>1. CASE phase' = "over"
    BY <1>8, <1>16, <2>1 DEF JobReports, At, OwnStep, Terminal
  <2>2. CASE phase' # "over"
    <3>1. updateJob(j, "running") /\ phase' = "prepare"
      BY <1>16, <2>2 DEF JobReports
    <3>2. /\ \A i \in Job : i # j => mem'[i] = mem[i] /\ disk'[i] = disk[i]
          /\ mem'[j] # "queued" /\ mem'[j] # "absent" /\ disk'[j] \in Active
      BY <1>0, <1>16, <3>1, UpdateRecords DEF JobReports, At, HeldInv, Active
    <3>. QED
      BY <1>0, <1>16, <3>1, <3>2 DEF KnownInv, HeldInv, QueuedInv, JobReports, At, OwnStep, Active
  <2>. QED
    BY <2>1, <2>2
<1>17. ASSUME NEW j \in Job, NEW o \in Op, JobDiagnoses(j, o) PROVE Goal
  BY <1>0, <1>1, <1>17
     DEF KnownInv, HeldInv, QueuedInv, JobDiagnoses, At, OwnStep, OperationSaved, OperationStarts, Active
<1>18. ASSUME NEW j \in Job, JobUnprepared(j) PROVE Goal
  <2>1. \A i \in Job : jobOp'[i] # NoOp => jobOp[i] # NoOp \/ i = j
    BY <1>1, <1>18 DEF JobUnprepared
  <2>. QED
    BY <1>8, <1>18, <2>1 DEF JobUnprepared, At, OwnStep, Terminal
<1>19. ASSUME NEW j \in Job, JobConcludes(j) PROVE Goal
  BY <1>8, <1>19 DEF JobConcludes, At, OwnStep, Terminal
<1>20. CASE DiagnosticsReturn
  <2>1. phase = "diagnose" /\ phase' \in {"conclude", "over"}
        /\ UNCHANGED <<holder, mem, disk, sample, step, composed, jobOp>>
    BY <1>20 DEF DiagnosticsReturn, OwnStep
  <2>. QED
    BY <1>0, <2>1 DEF KnownInv, HeldInv, QueuedInv
<1>21. CASE HolderReconciles
  BY <1>0, <1>21 DEF KnownInv, HeldInv, QueuedInv, HolderReconciles
<1>22. CASE holder' \notin Job /\ UNCHANGED <<mem, disk, composed, jobOp>>
  BY <1>0, <1>22 DEF KnownInv, HeldInv, QueuedInv
<1>23. CASE Restart
  BY <1>0, <1>23 DEF KnownInv, HeldInv, QueuedInv, Restart, Unlocks
<1>. QED
  <2>1. ASSUME NEW c \in Client, ClientStep(c) PROVE Goal
    BY <2>1, <1>2, <1>3, <1>4, <1>5
       DEF ClientStep, ClientReconciled, CreateReconciles, CreateBlocked, CreateAnswered,
           CreateUnverified, CreateCleared, AdmissionRefused, Concludes
  <2>2. ASSUME NEW j \in Job, JobStep(j) PROVE Goal
    BY <2>2, <1>9, <1>10, <1>11, <1>12, <1>14, <1>15, <1>16, <1>17, <1>18, <1>19 DEF JobStep
  <2>3. CASE RequestStep
    BY <2>3, <1>0, <1>22
       DEF RequestStep, RequestRefused, RequestCleared, Checked, RetryDeclined, RetryDiagnoses,
           StopDecides, At, OwnStep
  <2>4. CASE DockerStep
    BY <2>4, <1>2
       DEF DockerStep, StageStarts, unlessDocker, StageExits,
           DiagnosticsStart, DiagnosticsRegister, DiagnosticsExit
  <2>5. CASE RetryLocks \/ StopLocks \/ Releases
    BY <2>5, <1>0, <1>22 DEF RetryLocks, StopLocks, TriesLock, Locks, Releases, Unlocks
  <2>. QED
    BY <2>1, <2>2, <2>3, <2>4, <2>5, <1>2, <1>6, <1>7, <1>20, <1>21, <1>23 DEF Next, vars

\* HistoryInv holds initially.
LEMMA HistoryInitially == Init => HistoryInv
<1> SUFFICES ASSUME Init PROVE HistoryInv
  OBVIOUS
<1>1. OwnerInv
  BY ExecutionAssumption DEF Init, OwnerInv
<1>. QED
  BY <1>1, TypeInitially, ExecutionAssumption
     DEF Init, HistoryInv, OwnedInv, KnownInv, HeldInv, QueuedInv

\* HistoryInv is inductive, whatever writes fail.
LEMMA HistoryKept == HistoryInv /\ [Next]_vars => HistoryInv'
BY TypeInductive, PositionInductive, OwnerInductive, HistoryInductive DEF HistoryInv, OwnedInv
-----------------------------------------------------------------------------
(***************************************************************************)
(* The five ways in which a status changes, in memory or on disk.          *)
(***************************************************************************)
\* A repeated key finds the run of an earlier process.
Recalled(j) ==
  LET known == IF disk[j] \in Active THEN "interrupted" ELSE disk[j] IN
  /\ mem[j] = "absent" /\ disk[j] # "absent"
  /\ mem' = [mem EXCEPT ![j] = known]
  /\ \/ disk' = [disk EXCEPT ![j] = known]
     \/ JobWriteFaults /\ UNCHANGED disk

\* A new run, with or without a goroutine.
Admitted(j) == \E c \in Client : AdmissionQueued(c, j) \/ AdmissionStranded(c, j)

\* A poll of a run that this process does not know.
GivenUp(j) ==
  /\ mem[j] = "absent" /\ disk[j] \in Active
  /\ mem' = mem
  /\ disk' = [disk EXCEPT ![j] = "interrupted"]

\* The owner of executionMu, while its job.json still calls it active.
Updated(j) ==
  /\ holder = j /\ mem[j] # "absent" /\ disk[j] \in Active
  /\ \E status \in {"running"} \cup Terminal : updateJob(j, status)

Forgotten == mem' = [j \in Job |-> "absent"] /\ disk' = disk

\* No step changes the statuses in another way.
LEMMA StatusStep ==
  HistoryInv /\ [Next]_vars =>
    /\ UNCHANGED <<key, package>>
    /\ \/ UNCHANGED <<mem, disk>>
       \/ \E j \in Job : Recalled(j) \/ Admitted(j) \/ GivenUp(j) \/ Updated(j)
       \/ Forgotten
<1> SUFFICES ASSUME HistoryInv, [Next]_vars
             PROVE  /\ UNCHANGED <<key, package>>
                    /\ \/ UNCHANGED <<mem, disk>>
                       \/ \E j \in Job : Recalled(j) \/ Admitted(j) \/ GivenUp(j) \/ Updated(j)
                       \/ Forgotten
  OBVIOUS
<1> USE DEF memory, jobFiles, opFiles, docker, position
<1>1. UNCHANGED <<key, package>>
  BY DEF Next, vars, ClientStep, ClientReconciled, CreateReconciles, CreateBlocked, CreateAnswered,
         CreateUnverified, CreateCleared, AdmissionRefused, AdmissionRecalled, AdmissionQueued,
         AdmissionStranded, Concludes, Poll, JobLocks, JobStep, JobRefused, JobCleared,
         StageAnnounced, StageLaunched, StageUnlaunched, StageReturns, JobReports, JobDiagnoses,
         JobUnprepared, JobConcludes, OwnStep, RetryLocks, StopLocks, TriesLock,
         HolderReconciles, RequestStep, RequestRefused, RequestCleared, RetryDeclined,
         RetryDiagnoses, StopDecides, DiagnosticsReturn, Releases, DockerStep, StageStarts,
         StageExits, DiagnosticsStart, DiagnosticsRegister, DiagnosticsExit, unlessDocker, Restart
<1>2. ASSUME NEW c \in Client, ClientStep(c)
      PROVE  UNCHANGED <<mem, disk>> \/ \E j \in Job : Recalled(j) \/ Admitted(j)
  <2>1. ASSUME NEW j \in Job, AdmissionRecalled(c, j) PROVE Recalled(j)
    BY <2>1 DEF AdmissionRecalled, KnownKey, Recalled
  <2>2. ASSUME NEW j \in Job, AdmissionQueued(c, j) PROVE Admitted(j)
    BY <2>2 DEF AdmissionQueued, Admitted
  <2>3. ASSUME NEW j \in Job, AdmissionStranded(c, j) PROVE Admitted(j)
    BY <2>3 DEF AdmissionStranded, Admitted
  <2>. QED
    BY <1>2, <2>1, <2>2, <2>3
       DEF ClientStep, ClientReconciled, CreateReconciles, CreateBlocked, CreateAnswered,
           CreateUnverified, CreateCleared, AdmissionRefused
<1>3. ASSUME NEW j \in Job, Poll(j) PROVE GivenUp(j)
  BY <1>3 DEF Poll, GivenUp
<1>4. ASSUME NEW j \in Job, JobStep(j) PROVE UNCHANGED <<mem, disk>> \/ Updated(j)
  <2>1. CASE UNCHANGED <<mem, disk>>
    BY <2>1
  <2>2. CASE \E status \in {"running"} \cup Terminal : updateJob(j, status)
    <3>1. holder = j /\ phase # "over"
      BY <1>4 DEF JobStep, JobRefused, Checked, JobCleared, StageAnnounced, StageLaunched,
                  StageUnlaunched, StageReturns, JobReports, JobDiagnoses, JobUnprepared,
                  JobConcludes, At
    <3>. QED
      BY <2>2, <3>1 DEF Updated, HistoryInv, HeldInv
  <2>3. CASE \E ok \in BOOLEAN : StageOutcome(j, ok)
    BY <2>1, <2>2, <2>3, OutcomeLeads DEF Terminal
  <2>. QED
    BY <1>4, <2>1, <2>2, <2>3
       DEF JobStep, JobRefused, JobCleared, StageAnnounced, StageLaunched, StageUnlaunched,
           StageReturns, JobReports, JobDiagnoses, JobUnprepared, JobConcludes, Terminal
<1>5. ASSUME RequestStep PROVE UNCHANGED <<mem, disk>>
  BY <1>5 DEF RequestStep, RequestRefused, RequestCleared, RetryDeclined, RetryDiagnoses, StopDecides
<1>6. CASE DockerStep
  BY <1>6 DEF DockerStep, StageStarts, StageExits, DiagnosticsStart, DiagnosticsRegister,
              DiagnosticsExit, unlessDocker
<1>7. CASE Restart
  BY <1>7 DEF Restart, Forgotten
<1>. QED
  BY <1>1, <1>2, <1>3, <1>4, <1>5, <1>6, <1>7
     DEF Next, vars, JobLocks, RetryLocks, StopLocks, TriesLock, HolderReconciles,
         DiagnosticsReturn, Releases

\* A repeated idempotency key returns the same run (handleCreateJob), also
\* after a restart and whatever job.json could not be written: no two recorded
\* runs carry one key.
THEOREM KeyNamesOneRunHolds == Spec => []KeyNamesOneRun
<1> DEFINE Inv == HistoryInv /\ KeyNamesOneRun
<1>1. Init => Inv
  BY HistoryInitially DEF Init, KeyNamesOneRun
<1>2. Inv /\ [Next]_vars => Inv'
  <2> SUFFICES ASSUME Inv, [Next]_vars PROVE KeyNamesOneRun'
    BY HistoryKept
  <2>1. disk \in [Job -> Status] /\ key' = key
    BY StatusStep DEF HistoryInv, OwnedInv, TypeOK
  <2>2. CASE \A j \in Job : disk'[j] # "absent" => disk[j] # "absent"
    BY <2>1, <2>2 DEF KeyNamesOneRun
  <2>3. ASSUME NEW j \in Job, Admitted(j) PROVE KeyNamesOneRun'
    BY <2>1, <2>3 DEF KeyNamesOneRun, Admitted, AdmissionQueued, AdmissionStranded, Admissible, RecordedKey
  <2>. QED
    BY <2>1, <2>2, <2>3, StatusStep DEF Recalled, GivenUp, Updated, updateJob, Forgotten, Active
<1>. QED
  BY <1>1, <1>2, PTL DEF Spec

\* Memory and job.json agree, and a package has one queued or running run.
AgreedInv == HistoryInv /\ RecordAgrees /\ PackageActiveOnce

\* While job.json can be written, AgreedInv is inductive,
LEMMA AgreedInductive == ~JobWriteFaults /\ AgreedInv /\ [Next]_vars => AgreedInv'
<1> SUFFICES ASSUME ~JobWriteFaults, AgreedInv, [Next]_vars
             PROVE  RecordAgrees' /\ PackageActiveOnce'
  BY HistoryKept DEF AgreedInv
<1>1. /\ mem \in [Job -> Status] /\ disk \in [Job -> Status] /\ package' = package
      /\ RecordAgrees /\ PackageActiveOnce
  BY StatusStep DEF AgreedInv, HistoryInv, OwnedInv, TypeOK
<1>2. CASE UNCHANGED <<mem, disk>>
  BY <1>1, <1>2 DEF RecordAgrees, PackageActiveOnce
<1>3. ASSUME NEW j \in Job, Recalled(j) PROVE RecordAgrees' /\ PackageActiveOnce'
  BY <1>1, <1>3 DEF RecordAgrees, PackageActiveOnce, Recalled, Active
<1>4. ASSUME NEW j \in Job, Admitted(j) PROVE RecordAgrees' /\ PackageActiveOnce'
  BY <1>1, <1>4 DEF RecordAgrees, PackageActiveOnce, Admitted, AdmissionQueued, AdmissionStranded, Admissible, ActivePackage, Active
<1>5. ASSUME NEW j \in Job, GivenUp(j) PROVE RecordAgrees' /\ PackageActiveOnce'
  BY <1>1, <1>5 DEF RecordAgrees, PackageActiveOnce, GivenUp
<1>6. ASSUME NEW j \in Job, Updated(j) PROVE RecordAgrees' /\ PackageActiveOnce'
  BY <1>1, <1>6 DEF RecordAgrees, PackageActiveOnce, Updated, updateJob
<1>7. CASE Forgotten
  BY <1>7 DEF RecordAgrees, PackageActiveOnce, Forgotten, Active
<1>. QED
  BY <1>2, <1>3, <1>4, <1>5, <1>6, <1>7, StatusStep DEF AgreedInv

\* and an invariant.
LEMMA AgreedHolds == ASSUME ~JobWriteFaults PROVE Spec => []AgreedInv
<1>1. Init => AgreedInv
  BY HistoryInitially DEF Init, AgreedInv, RecordAgrees, PackageActiveOnce, Active
<1>2. AgreedInv /\ [Next]_vars => AgreedInv'
  BY AgreedInductive
<1>. QED
  BY <1>1, <1>2, PTL DEF Spec

\* What a poll answers (handleJob) and what the runs directory says agree as
\* long as job.json can be written: no live job is ever recorded as interrupted.
THEOREM RecordAgreesHolds == ASSUME ~JobWriteFaults PROVE Spec => []RecordAgrees
BY AgreedHolds, PTL DEF AgreedInv

\* A queued or running package rejects a second request until it finishes
\* (handleCreateJob), as long as job.json can be written.
THEOREM PackageActiveOnceHolds == ASSUME ~JobWriteFaults PROVE Spec => []PackageActiveOnce
BY AgreedHolds, PTL DEF AgreedInv

\* No later process, poll or repeated request rewrites a recorded outcome, also
\* if some write of job.json fails.
THEOREM OutcomeIsFinalHolds == Spec => OutcomeIsFinal
<1> DEFINE Step == \A j \in Job : disk[j] \in Terminal => disk'[j] = disk[j]
<1>1. HistoryInv /\ [Next]_vars => Step
  <2> SUFFICES ASSUME HistoryInv, [Next]_vars, NEW j \in Job, disk[j] \in Terminal
               PROVE  disk'[j] = disk[j]
    OBVIOUS
  <2>1. disk \in [Job -> Status]
    BY DEF HistoryInv, OwnedInv, TypeOK
  <2>. QED
    BY <2>1, StatusStep
       DEF Recalled, Admitted, AdmissionQueued, AdmissionStranded, Admissible, GivenUp, Updated, updateJob, Forgotten, Active, Terminal
<1>2. Spec => []HistoryInv
  BY HistoryInitially, HistoryKept, PTL DEF Spec
<1>. QED
  BY <1>1, <1>2, PTL DEF Spec, OutcomeIsFinal
-----------------------------------------------------------------------------
(***************************************************************************)
(* Operations: how their status.json and the reports in manifest.json      *)
(* change.                                                                 *)
(***************************************************************************)
Saved(o) == /\ opStatus[o] = "none" /\ report' = report
            /\ opStatus' = [opStatus EXCEPT ![o] = "running"]

Finished(clean) ==
  /\ phase = "diagnose" /\ report' = report
  /\ opStatus' = [opStatus EXCEPT ![current] = OperationResult(current, clean)]

Reports(o) ==
  /\ opStatus' = opStatus /\ report[o] = "none"
  /\ \E status \in {"succeeded", "partial"} : report' = [report EXCEPT ![o] = status]

\* No step changes them in another way.
LEMMA OperationStep ==
  [Next]_vars =>
    \/ UNCHANGED <<opStatus, report>>
    \/ \E o \in Op : Saved(o) \/ Reports(o)
    \/ \E clean \in BOOLEAN : Finished(clean)
<1> SUFFICES ASSUME [Next]_vars
             PROVE  \/ UNCHANGED <<opStatus, report>>
                    \/ \E o \in Op : Saved(o) \/ Reports(o)
                    \/ \E clean \in BOOLEAN : Finished(clean)
  OBVIOUS
<1> USE DEF memory, jobFiles, opFiles, docker, position
<1>1. ASSUME NEW c \in Client, ClientStep(c) PROVE UNCHANGED <<opStatus, report>>
  BY <1>1 DEF ClientStep, ClientReconciled, CreateReconciles, CreateBlocked, CreateAnswered,
     CreateUnverified, CreateCleared, AdmissionRefused, AdmissionRecalled, AdmissionQueued,
     AdmissionStranded, Concludes
<1>2. ASSUME NEW j \in Job, JobStep(j)
      PROVE  UNCHANGED <<opStatus, report>> \/ \E o \in Op : Saved(o)
  BY <1>2 DEF JobStep, JobRefused, JobCleared, StageAnnounced, StageLaunched, StageUnlaunched,
     StageReturns, JobReports, JobDiagnoses, JobUnprepared, JobConcludes, OwnStep,
     OperationSaved, Saved
<1>3. ASSUME RequestStep PROVE UNCHANGED <<opStatus, report>> \/ \E o \in Op : Saved(o)
  BY <1>3 DEF RequestStep, RequestRefused, RequestCleared, RetryDeclined, RetryDiagnoses,
     StopDecides, OwnStep, OperationSaved, Saved
<1>4. ASSUME DiagnosticsReturn
      PROVE  UNCHANGED <<opStatus, report>> \/ \E clean \in BOOLEAN : Finished(clean)
  BY <1>4 DEF DiagnosticsReturn, OwnStep, Finished
<1>5. ASSUME DockerStep PROVE UNCHANGED <<opStatus, report>> \/ \E o \in Op : Reports(o)
  BY <1>5 DEF DockerStep, StageStarts, StageExits, DiagnosticsStart, DiagnosticsRegister,
     DiagnosticsExit, unlessDocker, Reports
<1>. QED
  BY <1>1, <1>2, <1>3, <1>4, <1>5
     DEF Next, vars, Poll, JobLocks, RetryLocks, StopLocks, TriesLock, HolderReconciles,
         Releases, Restart

\* An operation succeeds, wholly or partly, only by its own report.
LEMMA ResultIsOwn ==
  ASSUME NEW o, NEW clean \in BOOLEAN, OperationResult(o, clean) # "failed"
  PROVE  /\ report[o] # "none"
         /\ OperationResult(o, clean) = "succeeded" => report[o] = "succeeded"
<1>1. Adopted(o) # {}
  BY DEF OperationResult
<1>2. o \in Registered(opRun[o]) /\ Adopted(o) = {o}
  BY <1>1 DEF Adopted
<1>3. (CHOOSE r \in Adopted(o) : TRUE) = o
  BY <1>2
<1>. QED
  BY <1>1, <1>2, <1>3 DEF OperationResult, Registered

\* An operation adopts only a report that it registered itself
\* (executeDiagnostics), however retries, restarts and late containers come.
THEOREM ReportIsOwnHolds == Spec => []ReportIsOwn
<1> DEFINE Inv == TypeOK /\ PositionInv /\ ReportIsOwn
<1>1. Init => Inv
  BY TypeInitially DEF Init, ReportIsOwn
<1>2. Inv /\ [Next]_vars => Inv'
  <2> SUFFICES ASSUME Inv, [Next]_vars PROVE ReportIsOwn'
    BY TypeInductive, PositionInductive
  <2>1. /\ opStatus \in [Op -> {"none", "running", "succeeded", "partial", "failed"}]
        /\ report \in [Op -> {"none", "succeeded", "partial"}]
    BY DEF TypeOK
  <2>2. ASSUME NEW clean \in BOOLEAN, Finished(clean) PROVE ReportIsOwn'
    <3>1. \A o \in Op : opStatus'[o] = IF o = current THEN OperationResult(current, clean)
                                                      ELSE opStatus[o]
      BY <2>1, <2>2 DEF Finished
    <3>. QED
      BY <2>2, <3>1, ResultIsOwn DEF ReportIsOwn, Finished
  <2>. QED
    BY <2>1, <2>2, OperationStep DEF ReportIsOwn, Saved, Reports
<1>. QED
  BY <1>1, <1>2, PTL DEF Spec
-----------------------------------------------------------------------------
CompleteInv == HistoryInv /\ DiagnosedInv /\ ProgressInv /\ SucceededIsComplete

\* The operation under way is known, and a job concludes from its own.
LEMMA DiagnosedInductive == OwnedInv /\ DiagnosedInv /\ [Next]_vars => DiagnosedInv'
<1> SUFFICES ASSUME OwnedInv, DiagnosedInv, [Next]_vars PROVE DiagnosedInv'
  OBVIOUS
<1> USE DEF memory, jobFiles, opFiles, docker, position
<1>1. /\ opStatus \in [Op -> {"none", "running", "succeeded", "partial", "failed"}]
      /\ jobOp \in [Job -> Op \cup {NoOp}]
      /\ Retrier \notin Job /\ lapsed \in BOOLEAN
  BY ExecutionAssumption DEF OwnedInv, TypeOK
<1>2. CASE UNCHANGED <<holder, phase, lapsed, current, jobOp, opStatus>>
  BY <1>2 DEF DiagnosedInv
<1>3. CASE phase' \notin {"diagnose", "conclude"}
  BY <1>3 DEF DiagnosedInv
<1>4. ASSUME NEW c \in Client, ClientStep(c) PROVE DiagnosedInv'
  BY <1>2, <1>4 DEF ClientStep, ClientReconciled, CreateReconciles, CreateBlocked, CreateAnswered,
     CreateUnverified, CreateCleared, AdmissionRefused, AdmissionRecalled, AdmissionQueued,
     AdmissionStranded, Concludes
<1>5. ASSUME NEW j \in Job, NEW o \in Op, JobDiagnoses(j, o) PROVE DiagnosedInv'
  BY <1>1, <1>5 DEF DiagnosedInv, JobDiagnoses, At, OperationSaved, OperationStarts, OwnStep
<1>6. ASSUME NEW j \in Job, JobStep(j) PROVE DiagnosedInv'
  <2>1. ASSUME NEW ok \in BOOLEAN, StageOutcome(j, ok) PROVE DiagnosedInv'
    BY <1>3, <2>1, OutcomeLeads
  <2>. QED
    BY <1>3, <1>5, <1>6, <2>1
       DEF JobStep, JobRefused, JobCleared, StageAnnounced, StageLaunched, StageUnlaunched,
           StageReturns, JobReports, JobUnprepared, JobConcludes
<1>7. CASE RequestStep
  BY <1>1, <1>3, <1>7
     DEF DiagnosedInv, RequestStep, RequestRefused, RequestCleared, RetryDeclined, RetryDiagnoses,
         StopDecides, At, OperationSaved, OperationStarts, OwnStep
<1>8. CASE DiagnosticsReturn
  <2>1. CASE phase' # "conclude"
    BY <1>3, <1>8, <2>1 DEF DiagnosticsReturn
  <2>2. CASE phase' = "conclude"
    <3>1. /\ holder \in Job /\ phase = "diagnose" /\ current \in Op /\ jobOp[holder] = current
          /\ UNCHANGED <<holder, current, jobOp>>
      BY <1>8, <2>2 DEF DiagnosticsReturn, DiagnosedInv, OwnStep
    <3>2. lapsed' = FALSE => opStatus'[current] = "succeeded"
      BY <1>1, <1>8, <3>1 DEF DiagnosticsReturn
    <3>. QED
      BY <2>2, <3>1, <3>2 DEF DiagnosedInv
  <2>. QED
    BY <2>1, <2>2
<1>9. CASE DockerStep
  BY <1>2, <1>9 DEF DockerStep, StageStarts, StageExits, DiagnosticsStart, DiagnosticsRegister,
     DiagnosticsExit, unlessDocker
<1>. QED
  BY <1>2, <1>3, <1>4, <1>6, <1>7, <1>8, <1>9
     DEF Next, vars, Poll, JobLocks, RetryLocks, StopLocks, TriesLock, Locks, HolderReconciles,
         Releases, Unlocks, Restart

\* Each stage that is passed without a failure was launched.
LEMMA ProgressInductive == HistoryInv /\ ProgressInv /\ [Next]_vars => ProgressInv'
<1> SUFFICES ASSUME HistoryInv, ProgressInv, [Next]_vars,
                    NEW j \in Job, holder' = j, ~lapsed'
             PROVE  Behind(j)' \subseteq composed'[j]
  BY DEF ProgressInv
<1> USE DEF memory, jobFiles, opFiles, docker, position
<1>1. /\ composed \in [Job -> SUBSET Stage] /\ lapsed \in BOOLEAN
      /\ sample \in Nat /\ step \in Nat
      /\ Shape[package[j]].samples \in Nat /\ Shape[package[j]].models \in Nat
      /\ Nobody # j /\ Retrier # j /\ Stopper # j
      /\ package' = package /\ lapsed' = FALSE
  <2>1. lapsed' \in BOOLEAN
    BY TypeInductive DEF HistoryInv, OwnedInv, TypeOK
  <2>. QED
    BY <2>1, StatusStep, Bounds, ExecutionAssumption DEF HistoryInv, OwnedInv, TypeOK
<1> DEFINE Keeps == Behind(j)' \subseteq Behind(j) /\ holder = j /\ ~lapsed /\ composed[j] \subseteq composed'[j]
<1>2. ASSUME Keeps PROVE Behind(j)' \subseteq composed'[j]
  BY <1>2 DEF ProgressInv
<1>3. ASSUME holder = j, ~lapsed, composed[j] \subseteq composed'[j], UNCHANGED <<sample, step>>,
             phase' = "up" => phase = "up",
             phase' \in Reported => phase \in Reported
      PROVE  Keeps
  <2>1. StagesOf(j)' = StagesOf(j)
    BY <1>1 DEF StagesOf
  <2>. QED
    BY <1>3, <2>1 DEF Behind
<1>4. CASE StageLaunched(j)
  <2>1. /\ holder = j /\ ~lapsed /\ UNCHANGED <<sample, step>>
        /\ phase = "launch" /\ phase' = "up"
        /\ composed'[j] = composed[j] \cup {<<sample, step>>}
    BY <1>1, <1>4 DEF StageLaunched, At
  <2>2. StagesOf(j)' = StagesOf(j)
    BY <1>1 DEF StagesOf
  <2>3. Behind(j)' \subseteq Behind(j) \cup {<<sample, step>>}
    BY <2>1, <2>2 DEF Behind, Reported, StagesOf
  <2>. QED
    BY <2>1, <2>3 DEF ProgressInv
<1>5. ASSUME NEW ok \in BOOLEAN, StageOutcome(j, ok), holder = j, phase = "up", composed' = composed
      PROVE  Keeps
  <2>1. StagesOf(j)' = StagesOf(j)
    BY <1>1 DEF StagesOf
  <2>2. /\ ok /\ ~lapsed
        /\ \/ phase' = "announce" /\ sample' = sample /\ step' = step + 1
           \/ phase' = "announce" /\ sample' = sample + 1 /\ step' = 0 /\ LastModel(j)
           \/ phase' = "report" /\ LastModel(j) /\ LastSample(j)
           \/ phase' = "over"
    BY <1>1, <1>5, OutcomeLeads
  <2>3. CASE phase' = "over"
    <3>1. UNCHANGED <<sample, step>>
      BY <1>5, <2>3 DEF StageOutcome, SampleEnds, NextStage
    <3>. QED
      BY <1>3, <1>5, <2>2, <2>3, <3>1 DEF Reported
  <2>4. CASE phase' # "over"
    <3>1. ASSUME NEW stage \in StagesOf(j), stage \in Behind(j)' PROVE stage \in Behind(j)
      <4>1. /\ stage[1] \in 1..Shape[package[j]].samples
            /\ stage[2] \in 0..Shape[package[j]].models
        BY <3>1 DEF StagesOf
      <4>. QED
        BY <1>1, <1>5, <2>2, <2>4, <3>1, <4>1 DEF Behind, Reported, LastModel, LastSample
    <3>2. Behind(j)' \subseteq StagesOf(j)
      BY <2>1 DEF Behind
    <3>. QED
      BY <1>5, <2>2, <3>1, <3>2
  <2>. QED
    BY <2>3, <2>4
<1>6. ASSUME NEW i \in Job, JobStep(i) PROVE Behind(j)' \subseteq composed'[j]
  <2>1. i = j /\ holder = j
    BY <1>6 DEF JobStep, JobRefused, Checked, JobCleared, StageAnnounced, StageLaunched,
       StageUnlaunched, StageReturns, JobReports, JobDiagnoses, JobUnprepared, JobConcludes, At,
       OwnStep
  <2>2. CASE StageUnlaunched(j)
    BY <1>1, <2>2, OutcomeLeads DEF StageUnlaunched
  <2>3. CASE StageReturns(j)
    BY <1>2, <1>5, <2>3 DEF StageReturns, At
  <2>4. CASE JobRefused(j) \/ JobCleared(j) \/ StageAnnounced(j) \/ JobReports(j)
             \/ (\E o \in Op : JobDiagnoses(j, o)) \/ JobUnprepared(j) \/ JobConcludes(j)
    <3>1. /\ ~lapsed /\ composed' = composed /\ UNCHANGED <<sample, step>>
          /\ phase' # "up"
          /\ phase' \in Reported => phase \in Reported
      BY <1>1, <2>4 DEF JobRefused, JobCleared, StageAnnounced, JobReports, JobDiagnoses,
         OperationStarts, JobUnprepared, JobConcludes, At, Reported
    <3>. QED
      BY <1>2, <1>3, <2>1, <3>1
  <2>. QED
    BY <1>4, <1>6, <2>1, <2>2, <2>3, <2>4 DEF JobStep
<1>7. ASSUME NEW i \in Job, JobLocks(i) PROVE Behind(j)' \subseteq composed'[j]
  <2>1. i = j /\ holder \notin Job /\ phase' = "recover" /\ UNCHANGED <<sample, step>>
    BY <1>7, ExecutionAssumption DEF JobLocks, Locks
  <2>2. sample' = 1 /\ step' = 0
    BY <2>1 DEF HistoryInv, OwnedInv, PositionInv
  <2>3. Behind(j)' = {}
    BY <2>1, <2>2 DEF Behind, Reported, StagesOf
  <2>. QED
    BY <2>3
<1>8. CASE UNCHANGED <<holder, phase, sample, step, lapsed, composed>>
  BY <1>2, <1>3, <1>8
<1>9. ASSUME NEW c \in Client, ClientStep(c) PROVE UNCHANGED <<holder, phase, sample, step, lapsed, composed>>
  BY <1>9 DEF ClientStep, ClientReconciled, CreateReconciles, CreateBlocked, CreateAnswered,
     CreateUnverified, CreateCleared, AdmissionRefused, AdmissionRecalled, AdmissionQueued,
     AdmissionStranded, Concludes
<1>10. ASSUME RequestStep PROVE FALSE
  BY <1>1, <1>10
     DEF RequestStep, RequestRefused, RequestCleared, RetryDeclined, RetryDiagnoses, StopDecides,
         Checked, At, OwnStep
<1>11. CASE DiagnosticsReturn \/ HolderReconciles
  <2>1. /\ holder = j /\ ~lapsed /\ composed' = composed /\ UNCHANGED <<sample, step>>
        /\ phase' # "up"
        /\ phase' \in Reported => phase \in Reported
    BY <1>1, <1>11 DEF DiagnosticsReturn, HolderReconciles, OwnStep, Reported
  <2>. QED
    BY <1>2, <1>3, <2>1
<1>12. ASSUME DockerStep PROVE UNCHANGED <<holder, phase, sample, step, lapsed, composed>>
  BY <1>12 DEF DockerStep, StageStarts, StageExits, DiagnosticsStart, DiagnosticsRegister,
     DiagnosticsExit, unlessDocker
<1>. QED
  BY <1>1, <1>6, <1>7, <1>8, <1>9, <1>10, <1>11, <1>12
     DEF Next, vars, Poll, RetryLocks, StopLocks, TriesLock, Locks, Releases, Unlocks, Restart

\* Compose files stay, and a job that is over keeps its operation.
LEMMA RunKept ==
  ASSUME HistoryInv, [Next]_vars, NEW j \in Job
  PROVE  /\ composed[j] \subseteq composed'[j]
         /\ disk[j] \notin Active => jobOp'[j] = jobOp[j]
<1> USE DEF memory, jobFiles, opFiles, docker, position
<1>1. /\ composed \in [Job -> SUBSET Stage] /\ jobOp \in [Job -> Op \cup {NoOp}]
  BY DEF HistoryInv, OwnedInv, TypeOK
<1>2. ASSUME NEW i \in Job, JobStep(i)
      PROVE  /\ composed[j] \subseteq composed'[j]
             /\ disk[j] \notin Active => jobOp'[j] = jobOp[j]
  <2>1. CASE UNCHANGED <<composed, jobOp>>
    BY <2>1
  <2>2. CASE StageLaunched(i)
    BY <1>1, <2>2 DEF StageLaunched
  <2>3. CASE (\E o \in Op : JobDiagnoses(i, o)) \/ JobUnprepared(i)
    <3>1. /\ disk[i] \in Active /\ composed' = composed
          /\ jobOp' = jobOp \/ \E o \in Op : jobOp' = [jobOp EXCEPT ![i] = o]
      BY <2>3 DEF JobDiagnoses, JobUnprepared, At, HistoryInv, HeldInv
    <3>. QED
      BY <1>1, <3>1
  <2>. QED
    BY <1>2, <2>1, <2>2, <2>3
       DEF JobStep, JobRefused, JobCleared, StageAnnounced, StageUnlaunched, StageReturns,
           JobReports, JobConcludes
<1>3. UNCHANGED <<composed, jobOp>> \/ \E i \in Job : JobStep(i)
  BY DEF Next, vars, ClientStep, ClientReconciled, CreateReconciles, CreateBlocked, CreateAnswered,
         CreateUnverified, CreateCleared, AdmissionRefused, AdmissionRecalled, AdmissionQueued,
         AdmissionStranded, Concludes, Poll, JobLocks, RetryLocks, StopLocks, TriesLock,
         HolderReconciles, RequestStep, RequestRefused, RequestCleared, RetryDeclined,
         RetryDiagnoses, StopDecides, DiagnosticsReturn, Releases, DockerStep, StageStarts,
         StageExits, DiagnosticsStart, DiagnosticsRegister, DiagnosticsExit, unlessDocker, Restart
<1>. QED
  BY <1>2, <1>3

\* The two moments at which a job is recorded as succeeded.
LEMMA SuccessStep ==
  ASSUME HistoryInv, [Next]_vars, NEW j \in Job,
         disk[j] # "succeeded", disk'[j] = "succeeded"
  PROVE  /\ holder = j /\ ~lapsed /\ UNCHANGED <<composed, jobOp, opStatus>>
         /\ \/ phase = "report" /\ ~Shape[package[j]].diagnostics
            \/ phase = "conclude"
<1> USE DEF memory, jobFiles, opFiles, docker, position
<1>1. disk \in [Job -> Status] /\ mem \in [Job -> Status]
  BY DEF HistoryInv, OwnedInv, TypeOK
<1>2. ASSUME NEW c \in Client, ClientStep(c) PROVE FALSE
  BY <1>1, <1>2 DEF ClientStep, ClientReconciled, CreateReconciles, CreateBlocked, CreateAnswered,
     CreateUnverified, CreateCleared, AdmissionRefused, AdmissionRecalled, AdmissionQueued,
     AdmissionStranded, Concludes, Admissible
<1>3. ASSUME NEW i \in Job, JobStep(i)
      PROVE  /\ holder = j /\ ~lapsed /\ UNCHANGED <<composed, jobOp, opStatus>>
             /\ \/ phase = "report" /\ ~Shape[package[j]].diagnostics
                \/ phase = "conclude"
  <2>1. ASSUME NEW status, status # "succeeded", updateJob(i, status) PROVE FALSE
    BY <1>1, <2>1 DEF updateJob
  <2>2. ASSUME NEW ok \in BOOLEAN, StageOutcome(i, ok) PROVE FALSE
    BY <2>1, <2>2, OutcomeLeads
  <2>3. CASE JobReports(i) \/ JobConcludes(i)
    <3>1. ~lapsed /\ updateJob(i, "succeeded")
      BY <2>1, <2>3 DEF JobReports, JobConcludes
    <3>2. i = j
      BY <1>1, <3>1 DEF updateJob
    <3>. QED
      BY <2>1, <2>3, <3>1, <3>2 DEF JobReports, JobConcludes, At
  <2>. QED
    BY <1>3, <2>1, <2>2, <2>3
       DEF JobStep, JobRefused, JobCleared, StageAnnounced, StageLaunched, StageUnlaunched,
           StageReturns, JobDiagnoses, JobUnprepared
<1>4. ASSUME NEW i \in Job, Poll(i) PROVE FALSE
  BY <1>1, <1>4 DEF Poll
<1>5. UNCHANGED disk \/ (\E c \in Client : ClientStep(c)) \/ (\E i \in Job : Poll(i) \/ JobStep(i))
  BY DEF Next, vars, JobLocks, RetryLocks, StopLocks, TriesLock, HolderReconciles, RequestStep,
         RequestRefused, RequestCleared, RetryDeclined, RetryDiagnoses, StopDecides,
         DiagnosticsReturn, Releases, DockerStep, StageStarts, StageExits, DiagnosticsStart,
         DiagnosticsRegister, DiagnosticsExit, unlessDocker, Restart
<1>. QED
  BY <1>2, <1>3, <1>4, <1>5

\* A success that is recorded is complete, and stays so.
LEMMA CompleteInductive == CompleteInv /\ [Next]_vars => CompleteInv'
<1> SUFFICES ASSUME CompleteInv, [Next]_vars,
                    NEW j \in Job, disk'[j] = "succeeded"
             PROVE  LET shape == Shape[package'[j]] IN
                    /\ (1..shape.samples) \X (0..shape.models) \subseteq composed'[j]
                    /\ shape.diagnostics => /\ jobOp'[j] # NoOp
                                            /\ opStatus'[jobOp'[j]] = "succeeded"
  BY HistoryKept, DiagnosedInductive, ProgressInductive
     DEF CompleteInv, HistoryInv, SucceededIsComplete
<1>1. /\ HistoryInv /\ package' = package /\ composed[j] \subseteq composed'[j]
      /\ opStatus \in [Op -> {"none", "running", "succeeded", "partial", "failed"}]
      /\ jobOp[j] \in Op \cup {NoOp} /\ NoOp \notin Op
  BY StatusStep, RunKept, ExecutionAssumption DEF CompleteInv, HistoryInv, OwnedInv, TypeOK
<1>2. ASSUME NEW o \in Op, opStatus[o] = "succeeded" PROVE opStatus'[o] = "succeeded"
  BY <1>1, <1>2, OperationStep DEF Saved, Reports, Finished, CompleteInv, DiagnosedInv
<1>3. CASE disk[j] = "succeeded"
  <2>1. jobOp'[j] = jobOp[j]
    BY <1>1, <1>3, RunKept DEF Active
  <2>. QED
    BY <1>1, <1>2, <1>3, <2>1 DEF CompleteInv, SucceededIsComplete
<1>4. CASE disk[j] # "succeeded"
  <2>1. /\ holder = j /\ ~lapsed /\ UNCHANGED <<composed, jobOp, opStatus>>
        /\ \/ phase = "report" /\ ~Shape[package[j]].diagnostics
           \/ phase = "conclude"
    BY <1>1, <1>4, SuccessStep
  <2>2. StagesOf(j) \subseteq composed[j]
    BY <2>1 DEF CompleteInv, ProgressInv, Behind, Reported
  <2>3. phase = "conclude" => jobOp[j] \in Op /\ opStatus[jobOp[j]] = "succeeded"
    BY <2>1 DEF CompleteInv, DiagnosedInv
  <2>. QED
    BY <1>1, <2>1, <2>2, <2>3 DEF StagesOf
<1>. QED
  BY <1>3, <1>4

\* A run is recorded as succeeded only if every stage of every sample window
\* was launched and its own diagnostic operation succeeded (executeJob,
\* executeBatchJob), and neither is ever taken back, whichever writes failed.
THEOREM SucceededIsCompleteHolds == Spec => []SucceededIsComplete
<1>1. Init => CompleteInv
  BY HistoryInitially, ExecutionAssumption
     DEF Init, CompleteInv, DiagnosedInv, ProgressInv, SucceededIsComplete
<1>2. CompleteInv /\ [Next]_vars => CompleteInv'
  BY CompleteInductive
<1>. QED
  BY <1>1, <1>2, PTL DEF Spec, CompleteInv
-----------------------------------------------------------------------------
(***************************************************************************)
(* The Handler implements SerialExecution: an admission submits, the step  *)
(* of the owner that follows its reconciliation begins, and every other    *)
(* step leaves each execution where it is or ends it.                      *)
(***************************************************************************)
Execs == Job \cup Op

RefineInv == ExecutionInv /\ HistoryInv /\ DiagnosedInv

\* What the steps of the refinement rest on is an invariant.
LEMMA RefineHolds == ASSUME Dependable PROVE Spec => []RefineInv
<1>1. Init => RefineInv
  BY HistoryInitially, ExecutionInitially DEF Init, RefineInv, DiagnosedInv
<1>2. RefineInv /\ [Next]_vars => RefineInv'
  BY Dependable, ExecutionInductive, HistoryKept, DiagnosedInductive DEF RefineInv, HistoryInv
<1>. QED
  BY <1>1, <1>2, PTL DEF Spec

\* The abstract state of a job and of an operation, from its own variables.
LEMMA StateOf ==
  /\ \A j \in Job : executionState[j] = JobState(j)
  /\ \A o \in Op : executionState[o] = OpState(o)
BY ExecutionAssumption DEF executionState

\* A step that leaves each execution where it is or ends it.
LEMMA EndsAre ==
  ASSUME \A e \in Execs : executionState'[e] \in {executionState[e], "over"}
  PROVE  Serial!Next
<1> DEFINE S == {e \in Execs : executionState'[e] = "over"}
<1>1. executionState' = [e \in Execs |-> IF e \in S THEN "over" ELSE executionState[e]]
  <2>1. executionState' = [e \in Execs |-> executionState'[e]]
    BY DEF executionState, Execs
  <2>. QED
    BY <2>1
<1>2. S \in SUBSET Execs
  OBVIOUS
<1>. QED
  BY <1>1, <1>2 DEF Serial!Next, Serial!End, Execs

\* A step that moves one execution.
LEMMA MovesOne ==
  ASSUME NEW e \in Execs, NEW next, executionState'[e] = next,
         \A d \in Execs : d # e => executionState'[d] = executionState[d]
  PROVE  executionState' = [executionState EXCEPT ![e] = next]
<1>1. /\ executionState' = [d \in Execs |-> executionState'[d]]
      /\ executionState = [d \in Execs |-> executionState[d]]
  BY DEF executionState, Execs
<1>. QED
  BY <1>1

\* Only a recorded execution runs, and a queued job only from its clearance on.
LEMMA RunningIsRecorded ==
  ASSUME RefineInv
  PROVE  /\ \A j \in Job : JobRunning(j) => disk[j] # "absent"
         /\ \A j \in Job : JobRunning(j) /\ mem[j] = "queued" =>
                             holder = j /\ phase = "announce"
         /\ \A o \in Op : OpRunning(o) => opStatus[o] # "none"
<1>1. /\ TypeOK /\ OwnerInv /\ RecordedInv /\ KnownInv /\ HeldInv /\ QueuedInv /\ DiagnosedInv
      /\ NoOp \notin Op
  BY ExecutionAssumption DEF RefineInv, ExecutionInv, HistoryInv
<1>2. \A j \in Job : jobOp[j] \in liveOp \cup cliOp => jobOp[j] # NoOp
  BY <1>1 DEF TypeOK
<1>3. \A j \in Job : live[j] \cup cli[j] # {} => composed[j] # {}
  BY <1>1 DEF RecordedInv
<1>4. \A j \in Job : JobRunning(j) => disk[j] # "absent"
  BY <1>1, <1>2, <1>3 DEF JobRunning, KnownInv, HeldInv
<1>5. \A j \in Job : JobRunning(j) /\ mem[j] = "queued" => holder = j /\ phase = "announce"
  BY <1>1, <1>2, <1>3 DEF JobRunning, QueuedInv
<1>6. \A o \in Op : OpRunning(o) => opStatus[o] # "none"
  BY <1>1 DEF OpRunning, DiagnosedInv, RecordedInv
<1>. QED
  BY <1>4, <1>5, <1>6

\* Where nothing starts to run and nobody is admitted, nothing else begins.
LEMMA Settles ==
  ASSUME RefineInv, [Next]_vars, RefineInv',
         ~ \E j \in Job : Admitted(j),
         \A j \in Job : JobRunning(j)' => JobRunning(j),
         \A o \in Op : OpRunning(o)' => OpRunning(o),
         \A j \in Job : mem'[j] = "queued" /\ JobRunning(j) => JobRunning(j)'
  PROVE  Serial!Next
<1>1. /\ mem \in [Job -> Status] /\ disk \in [Job -> Status]
      /\ opStatus \in [Op -> {"none", "running", "succeeded", "partial", "failed"}]
      /\ HistoryInv /\ TypeOK /\ TypeOK'
  BY DEF RefineInv, ExecutionInv, TypeOK
<1>2. \A j \in Job : /\ disk'[j] = "absent" => disk[j] = "absent"
                     /\ mem'[j] = "queued" => mem[j] = "queued"
  BY <1>1, StatusStep DEF Recalled, GivenUp, Updated, updateJob, Forgotten, Active, Terminal
<1>3. ASSUME NEW o \in Op, opStatus'[o] = "none" PROVE opStatus[o] = "none"
  <2>1. ASSUME NEW clean \in BOOLEAN, Finished(clean) PROVE opStatus[o] = "none"
    BY <1>1, <1>3, <2>1, ResultTyped DEF Finished
  <2>. QED
    BY <1>1, <1>3, <2>1, OperationStep DEF Saved, Reports
<1>4. ASSUME NEW j \in Job PROVE JobState(j)' \in {JobState(j), "over"}
  <2>1. mem[j] = "queued" => disk[j] # "absent"
    BY DEF RefineInv, HistoryInv, QueuedInv
  <2>2. mem'[j] = "queued" => disk'[j] # "absent"
    BY DEF RefineInv, HistoryInv, QueuedInv
  <2>3. JobRunning(j) => disk[j] # "absent"
    BY RunningIsRecorded
  <2>. QED
    BY <1>2, <2>1, <2>2, <2>3 DEF JobState
<1>5. ASSUME NEW o \in Op PROVE OpState(o)' \in {OpState(o), "over"}
  BY <1>3, RunningIsRecorded DEF OpState
<1>6. \A e \in Execs : executionState'[e] \in {executionState[e], "over"}
  <2>1. /\ \A j \in Job : executionState'[j] = JobState(j)'
        /\ \A o \in Op : executionState'[o] = OpState(o)'
    BY ExecutionAssumption DEF executionState
  <2>. QED
    BY <1>4, <1>5, <2>1, StateOf DEF Execs
<1>. QED
  BY <1>6, EndsAre

\* An admission with its goroutine submits a job, one without it ends it.
LEMMA AdmissionMaps ==
  ASSUME RefineInv, [Next]_vars, NEW c \in Client, NEW j \in Job,
         AdmissionQueued(c, j) \/ AdmissionStranded(c, j)
  PROVE  Serial!Next
<1> USE DEF memory, jobFiles, opFiles, docker, position
<1>1. mem \in [Job -> Status] /\ disk \in [Job -> Status] /\ j \in Execs
  BY DEF RefineInv, ExecutionInv, TypeOK, Execs
<1>2. /\ UNCHANGED <<holder, phase, current, jobOp, opStatus, live, cli, liveOp, cliOp>>
      /\ disk[j] = "absent" /\ disk' = [disk EXCEPT ![j] = "queued"]
      /\ mem[j] = "absent" /\ (mem' = mem \/ mem' = [mem EXCEPT ![j] = "queued"])
  BY DEF AdmissionQueued, AdmissionStranded, Admissible, Concludes
<1>3. /\ \A i \in Job : JobRunning(i)' = JobRunning(i)
      /\ \A o \in Op : OpRunning(o)' = OpRunning(o)
  BY <1>2 DEF JobRunning, OpRunning
<1>4. ~JobRunning(j)
  BY <1>2, RunningIsRecorded
<1>5. /\ executionState[j] = "new"
      /\ executionState'[j] = IF mem'[j] = "queued" THEN "waiting" ELSE "over"
  <2>1. executionState'[j] = JobState(j)'
    BY ExecutionAssumption DEF executionState
  <2>. QED
    BY <1>1, <1>2, <1>3, <1>4, <2>1, StateOf DEF JobState
<1>6. ASSUME NEW d \in Execs, d # j PROVE executionState'[d] = executionState[d]
  <2>1. \A i \in Job : i # j => mem'[i] = mem[i] /\ disk'[i] = disk[i]
    BY <1>1, <1>2
  <2>. QED
    BY <1>2, <1>3, <1>6, <2>1 DEF Execs, executionState, JobState, OpState
<1>7. CASE mem'[j] = "queued"
  <2>1. executionState' = [executionState EXCEPT ![j] = "waiting"]
    BY <1>1, <1>5, <1>6, <1>7, MovesOne
  <2>. QED
    BY <1>5, <2>1 DEF Serial!Next, Serial!Submit
<1>8. CASE mem'[j] # "queued"
  BY <1>5, <1>6, <1>8, EndsAre
<1>. QED
  BY <1>7, <1>8

\* Whoever cleared its reconciliation finds nothing running.
LEMMA ClearIsIdle ==
  ASSUME RefineInv, liveOp = {}, \A j \in Job : live[j] = {},
         phase \notin Working
  PROVE  \A d \in Execs : executionState[d] # "running"
<1>1. \A j \in Job : ~JobRunning(j)
  BY RunningJob DEF RefineInv, Working
<1>2. \A o \in Op : ~OpRunning(o)
  BY RunningOp DEF RefineInv, Working
<1>. QED
  BY <1>1, <1>2, JobIsRunning, OpIsRunning DEF Execs

\* A job begins when its reconciliation passed.
LEMMA ClearanceMaps ==
  ASSUME RefineInv, [Next]_vars, NEW j \in Job, JobCleared(j)
  PROVE  Serial!Next
<1> USE DEF memory, jobFiles, opFiles, docker, position
<1>1. /\ holder = j /\ phase = "check" /\ phase' = "announce" /\ Quiet
      /\ UNCHANGED <<mem, disk, holder, current, jobOp, opStatus, live, cli, liveOp, cliOp>>
      /\ j \in Execs
  BY DEF JobCleared, Checked, Execs
<1>2. liveOp = {} /\ \A i \in Job : live[i] = {}
  BY <1>1, QuietIsEmpty DEF RefineInv, ExecutionInv
<1>3. \A d \in Execs : executionState[d] # "running"
  BY <1>1, <1>2, ClearIsIdle DEF Working
<1>4. executionState[j] = "waiting"
  BY <1>1, <1>3, StateOf DEF RefineInv, HistoryInv, HeldInv, QueuedInv, JobState, Execs
<1>5. executionState'[j] = "running"
  BY <1>1 DEF executionState, JobState, JobRunning
<1>6. ASSUME NEW d \in Execs, d # j PROVE executionState'[d] = executionState[d]
  <2>1. \A i \in Job : i # j => JobRunning(i)' = JobRunning(i)
    BY <1>1 DEF JobRunning
  <2>2. \A o \in Op : OpRunning(o)' = OpRunning(o)
    BY <1>1 DEF OpRunning
  <2>. QED
    BY <1>1, <1>6, <2>1, <2>2 DEF Execs, executionState, JobState, OpState
<1>7. executionState' = [executionState EXCEPT ![j] = "running"]
  BY <1>1, <1>5, <1>6, MovesOne
<1>. QED
  BY <1>1, <1>3, <1>4, <1>7 DEF Serial!Next, Serial!Begin, Execs

\* A retry begins with its operation.
LEMMA RetryMaps ==
  ASSUME RefineInv, [Next]_vars, NEW o \in Op, NEW run \in Job, RetryDiagnoses(o, run)
  PROVE  Serial!Next
<1> USE DEF memory, jobFiles, opFiles, docker, position
<1>1. /\ holder = Retrier /\ phase = "decide" /\ phase' = "diagnose" /\ current' = o
      /\ opStatus[o] = "none" /\ opStatus' = [opStatus EXCEPT ![o] = "running"]
      /\ cliOp' = cliOp \cup {o}
      /\ UNCHANGED <<mem, disk, holder, jobOp, live, cli, liveOp>>
      /\ o \in Execs /\ o \notin Job /\ Retrier \notin Job /\ NoOp \notin Op
  BY ExecutionAssumption
     DEF RetryDiagnoses, At, OwnStep, OperationSaved, OperationStarts, Execs
<1>2. liveOp = {} /\ cliOp = {} /\ \A i \in Job : live[i] = {} /\ cli[i] = {}
  BY <1>1 DEF RefineInv, ExecutionInv, AloneInv, ExemptInv
<1>3. \A d \in Execs : executionState[d] # "running"
  BY <1>1, <1>2, ClearIsIdle DEF Working
<1>4. executionState[o] = "new"
  BY <1>1, <1>3, StateOf DEF OpState, Execs
<1>5. \A i \in Job : jobOp[i] # o
  BY <1>1 DEF RefineInv, ExecutionInv, RecordedInv
<1>6. executionState'[o] = "running"
  BY <1>1, <1>5 DEF executionState, OpState, OpRunning, Execs
<1>7. ASSUME NEW d \in Execs, d # o PROVE executionState'[d] = executionState[d]
  <2>1. \A i \in Job : jobOp[i] \notin liveOp \cup cliOp \cup {o}
    BY <1>2, <1>5
  <2>2. \A i \in Job : ~JobRunning(i)' /\ ~JobRunning(i)
    BY <1>1, <1>2, <2>1 DEF JobRunning
  <2>3. \A p \in Op : p # o => ~OpRunning(p)' /\ ~OpRunning(p)
    BY <1>1, <1>2 DEF OpRunning
  <2>4. \A p \in Op : p # o => opStatus'[p] = opStatus[p]
    BY <1>1 DEF RefineInv, ExecutionInv, TypeOK
  <2>. QED
    BY <1>1, <1>7, <2>2, <2>3, <2>4 DEF Execs, executionState, JobState, OpState
<1>8. executionState' = [executionState EXCEPT ![o] = "running"]
  BY <1>1, <1>6, <1>7, MovesOne
<1>. QED
  BY <1>1, <1>3, <1>4, <1>8 DEF Serial!Next, Serial!Begin, Execs

\* Every other step lets nothing begin.
LEMMA OthersSettle ==
  ASSUME RefineInv, [Next]_vars, RefineInv',
         ~ \E j \in Job : Admitted(j) \/ JobCleared(j),
         ~ \E o \in Op, run \in Job : RetryDiagnoses(o, run)
  PROVE  Serial!Next
<1> USE DEF memory, jobFiles, opFiles, docker, position
<1> DEFINE Goal == /\ \A j \in Job : JobRunning(j)' => JobRunning(j)
                   /\ \A o \in Op : OpRunning(o)' => OpRunning(o)
                   /\ \A j \in Job : mem'[j] = "queued" /\ JobRunning(j) => JobRunning(j)'
<1>1. /\ TypeOK /\ OwnerInv /\ RecordedInv /\ ExemptInv /\ AloneInv
      /\ Nobody \notin Job /\ Retrier \notin Job /\ Stopper \notin Job /\ NoOp \notin Op
  BY ExecutionAssumption DEF RefineInv, ExecutionInv
<1>2. /\ live \in [Job -> SUBSET Stage] /\ cli \in [Job -> SUBSET Stage]
      /\ jobOp \in [Job -> Op \cup {NoOp}] /\ mem \in [Job -> Status]
      /\ holder \in Job \cup {Nobody, Retrier, Stopper}
  BY <1>1 DEF TypeOK
<1>3. \A j \in Job : JobRunning(j) /\ mem[j] = "queued" => holder = j /\ phase = "announce"
  BY RunningIsRecorded
<1>4. \A j \in Job : mem'[j] = "queued" => mem[j] = "queued"
  BY <1>2, StatusStep
     DEF RefineInv, HistoryInv, Recalled, GivenUp, Updated, updateJob, Forgotten, Active, Terminal
<1>5. ASSUME UNCHANGED jobOp,
             \A j \in Job : holder' = j /\ phase' \notin {"recover", "check", "over"}
                              => holder = j /\ phase \notin {"recover", "check", "over"},
             holder' = Retrier /\ phase' = "diagnose"
               => holder = Retrier /\ phase = "diagnose" /\ current' = current,
             \A j \in Job : live'[j] \cup cli'[j] \subseteq live[j] \cup cli[j],
             liveOp' \cup cliOp' \subseteq liveOp \cup cliOp,
             \A j \in Job : mem'[j] = "queued" /\ holder = j /\ phase = "announce"
                              => holder' = j /\ phase' = "announce"
      PROVE  Goal
  <2>1. ASSUME NEW j \in Job, JobRunning(j)' PROVE JobRunning(j)
    BY <1>5, <2>1 DEF JobRunning
  <2>2. ASSUME NEW o \in Op, OpRunning(o)' PROVE OpRunning(o)
    BY <1>5, <2>2 DEF OpRunning
  <2>3. ASSUME NEW j \in Job, mem'[j] = "queued", JobRunning(j) PROVE JobRunning(j)'
    BY <1>3, <1>4, <1>5, <2>3 DEF JobRunning
  <2>. QED
    BY <2>1, <2>2, <2>3
<1> HIDE DEF Goal
<1>6. ASSUME UNCHANGED <<holder, phase, current, jobOp, live, cli, liveOp, cliOp>>
      PROVE  Goal
  BY <1>5, <1>6
<1>7. ASSUME NEW c \in Client, ClientStep(c)
      PROVE UNCHANGED <<holder, phase, current, jobOp, live, cli, liveOp, cliOp>>
  BY <1>7 DEF ClientStep, ClientReconciled, CreateReconciles, CreateBlocked, CreateAnswered,
     CreateUnverified, CreateCleared, AdmissionRefused, AdmissionRecalled, AdmissionQueued,
     AdmissionStranded, Concludes
<1>8. ASSUME UNCHANGED <<jobOp, live, cli, liveOp, cliOp>>, holder \notin Job,
             phase' \in {"free", "recover", "check", "decide", "over"},
             holder' \in Job => phase' = "recover"
      PROVE  Goal
  BY <1>5, <1>8
<1>9. ASSUME NEW j \in Job, JobLocks(j) PROVE Goal
  BY <1>1, <1>8, <1>9 DEF JobLocks, Locks
<1>10. ASSUME RetryLocks \/ StopLocks PROVE Goal
  BY <1>1, <1>5, <1>10 DEF RetryLocks, StopLocks, TriesLock, Locks
<1>11. ASSUME HolderReconciles PROVE Goal
  BY <1>5, <1>11 DEF HolderReconciles
<1>12. ASSUME RequestStep PROVE Goal
  <2>1. ~ \E o \in Op, run \in Job : RetryDiagnoses(o, run)
    OBVIOUS
  <2>. QED
    BY <1>1, <1>8, <1>12, <2>1
       DEF RequestStep, RequestRefused, RequestCleared, Checked, RetryDeclined, StopDecides, At,
           OwnStep
<1>13. ASSUME DiagnosticsReturn PROVE Goal
  BY <1>5, <1>13 DEF DiagnosticsReturn, OwnStep
<1>14. ASSUME Releases PROVE Goal
  BY <1>1, <1>5, <1>14 DEF Releases, Unlocks
<1>15. ASSUME DockerStep PROVE Goal
  <2>1. UNCHANGED <<holder, phase, current, jobOp>>
    BY <1>15 DEF DockerStep, StageStarts, StageExits, DiagnosticsStart, DiagnosticsRegister,
       DiagnosticsExit, unlessDocker
  <2>2. \A j \in Job : live'[j] \cup cli'[j] \subseteq live[j] \cup cli[j]
    BY <1>2, <1>15 DEF DockerStep, StageStarts, StageExits, DiagnosticsStart,
       DiagnosticsRegister, DiagnosticsExit
  <2>3. liveOp' \cup cliOp' \subseteq liveOp \cup cliOp
    BY <1>15 DEF DockerStep, StageStarts, StageExits, DiagnosticsStart,
       DiagnosticsRegister, DiagnosticsExit
  <2>. QED
    BY <1>5, <2>1, <2>2, <2>3
<1>16. ASSUME Restart PROVE Goal
  <2>1. /\ UNCHANGED <<jobOp, live, liveOp>> /\ holder' = Nobody /\ mem' = [j \in Job |-> "absent"]
        /\ \A j \in Job : cli'[j] \subseteq cli[j]
        /\ cliOp' \subseteq cliOp
    BY <1>16 DEF Restart, Unlocks
  <2>2. Nobody # Retrier
    BY ExecutionAssumption
  <2>. QED
    BY <1>1, <1>5, <2>1, <2>2
<1>17. ASSUME NEW j \in Job, JobStep(j) PROVE Goal
  <2>1. CASE JobRefused(j)
    BY <1>5, <2>1 DEF JobRefused, Checked
  <2>2. holder = j /\ holder' = j
    BY <1>17 DEF JobStep, JobRefused, Checked, JobCleared, StageAnnounced, StageLaunched,
       StageUnlaunched, StageReturns, JobReports, JobDiagnoses, JobUnprepared, JobConcludes, At,
       OwnStep
  <2>3. CASE StageAnnounced(j)
    <3>1. mem[j] = "queued" => updateJob(j, "running")
      BY <2>3 DEF StageAnnounced, At, RefineInv, HistoryInv, QueuedInv
    <3>2. mem'[j] # "queued"
      BY <1>1, <1>4, <3>1, UpdateRecords
    <3>. QED
      BY <1>1, <1>5, <2>2, <2>3, <3>2 DEF StageAnnounced, At, OwnStep
  <2>4. CASE StageLaunched(j)
    <3>1. \A i \in Job : i # j => live'[i] = live[i] /\ cli'[i] = cli[i]
      BY <1>2, <2>4 DEF StageLaunched
    <3>2. /\ phase = "launch" /\ phase' = "up" /\ UNCHANGED <<jobOp, liveOp, cliOp>>
      BY <2>4 DEF StageLaunched, At
    <3>. QED
      BY <1>1, <1>3, <1>4, <2>2, <3>1, <3>2 DEF JobRunning, OpRunning, Goal
  <2>5. ASSUME NEW ok \in BOOLEAN, StageOutcome(j, ok), phase \in {"launch", "up"},
               UNCHANGED <<jobOp, liveOp, cliOp>>,
               \A i \in Job : live'[i] \cup cli'[i] \subseteq live[i] \cup cli[i]
        PROVE  Goal
    BY <1>1, <1>5, <2>2, <2>5
  <2>6. CASE StageUnlaunched(j)
    BY <2>5, <2>6 DEF StageUnlaunched, At
  <2>7. CASE StageReturns(j)
    <3>1. \A i \in Job : live'[i] \subseteq live[i] /\ cli'[i] \subseteq cli[i]
      BY <1>2, <2>7 DEF StageReturns
    <3>. QED
      BY <2>5, <2>7, <3>1 DEF StageReturns, At
  <2>8. CASE JobReports(j) \/ JobConcludes(j)
    BY <1>1, <1>5, <2>2, <2>8 DEF JobReports, JobConcludes, At
  <2>9. ASSUME NEW o \in Op, JobDiagnoses(j, o) PROVE Goal
    <3>1. /\ phase = "prepare" /\ phase' = "diagnose" /\ opStatus[o] = "none"
          /\ jobOp' = [jobOp EXCEPT ![j] = o] /\ cliOp' = cliOp \cup {o}
          /\ UNCHANGED <<live, cli, liveOp>>
      BY <2>9 DEF JobDiagnoses, At, OperationSaved, OperationStarts
    <3>2. liveOp = {} /\ cliOp = {}
      BY <1>1, <3>1 DEF ExemptInv, AloneInv, Working
    <3>3. \A i \in Job : jobOp[i] # o
      BY <1>1, <3>1 DEF RecordedInv
    <3>4. \A i \in Job : i # j => (JobRunning(i)' => JobRunning(i))
      BY <1>2, <2>2, <3>1, <3>2, <3>3 DEF JobRunning
    <3>5. JobRunning(j) /\ JobRunning(j)'
      BY <2>2, <3>1 DEF JobRunning
    <3>6. \A p \in Op : ~OpRunning(p)'
      BY <1>1, <1>2, <2>2, <3>1, <3>2 DEF OpRunning
    <3>. QED
      BY <1>3, <1>4, <2>2, <3>1, <3>4, <3>5, <3>6 DEF Goal
  <2>10. CASE JobUnprepared(j)
    <3>1. /\ phase = "prepare" /\ phase' = "over" /\ UNCHANGED <<live, cli, liveOp, cliOp>>
      BY <2>10 DEF JobUnprepared, At
    <3>2. liveOp = {} /\ cliOp = {}
      BY <1>1, <3>1 DEF ExemptInv, AloneInv, Working
    <3>. QED
      BY <1>1, <1>3, <1>4, <2>2, <3>1, <3>2 DEF JobRunning, OpRunning, Goal
  <2>. QED
    BY <1>17, <2>1, <2>3, <2>4, <2>6, <2>7, <2>8, <2>9, <2>10 DEF JobStep
<1>18. Goal
  BY <1>6, <1>7, <1>9, <1>10, <1>11, <1>12, <1>13, <1>14, <1>15, <1>16, <1>17 DEF Next, vars, Poll
<1>. QED
  BY <1>18, Settles DEF Goal

\* Every step of the Handler, of Docker and of a restart maps to a step of
\* SerialExecution.
LEMMA StepMaps == RefineInv /\ RefineInv' /\ [Next]_vars => Serial!Next
<1> SUFFICES ASSUME RefineInv, RefineInv', [Next]_vars PROVE Serial!Next
  OBVIOUS
<1>1. ASSUME NEW j \in Job, Admitted(j) PROVE Serial!Next
  BY <1>1, AdmissionMaps DEF Admitted
<1>. QED
  BY <1>1, ClearanceMaps, RetryMaps, OthersSettle

\* The Handler implements the abstract executions (docs/runtime-integration.md,
\* "Execution is serialized"): jobs and retries begin one at a time, each once,
\* and one that was lost with its process is not resumed.
THEOREM ExecutionsAreSerialHolds ==
  ASSUME Dependable
  PROVE  Spec => ExecutionsAreSerial
<1>1. Init => Serial!Init
  <2> SUFFICES ASSUME Init PROVE Serial!Init
    OBVIOUS
  <2>1. \A j \in Job : executionState[j] = "new"
    BY StateOf, ExecutionAssumption DEF Init, JobState, JobRunning
  <2>2. \A o \in Op : executionState[o] = "new"
    BY StateOf, ExecutionAssumption DEF Init, OpState, OpRunning
  <2>3. executionState = [e \in Execs |-> executionState[e]]
    BY DEF executionState, Execs
  <2>. QED
    BY <2>1, <2>2, <2>3 DEF Serial!Init, Execs
<1>2. RefineInv /\ RefineInv' /\ [Next]_vars => [Serial!Next]_executionState
  BY StepMaps
<1>3. Spec => []RefineInv
  BY RefineHolds
<1>. QED
  BY <1>1, <1>2, <1>3, PTL DEF Spec, ExecutionsAreSerial, Serial!Spec
=============================================================================

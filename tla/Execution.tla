------------------------------ MODULE Execution ------------------------------
(***************************************************************************)
(* The Handler's execution resource: job admission (POST /v1/jobs), the    *)
(* goroutine that runs a job's containers, explicit diagnostics retries,   *)
(* ordinary stop, the reconciliation of earlier Docker projects that each  *)
(* of them performs first, and the Handler's restart.                      *)
(*                                                                         *)
(* Three kinds of state survive differently: the Handler's memory is lost  *)
(* by a restart, the run directories and the Docker daemon are not.        *)
(* Only the goroutine that owns executionMu has a position in a job, so    *)
(* the position is one set of variables and not one per job.               *)
(*                                                                         *)
(* A definition named ...Slip takes no part in the specification: it is    *)
(* the next one as a plausible programming slip would leave it, and a      *)
(* model-checking run shows which property notices.                        *)
(***************************************************************************)
EXTENDS Naturals, FiniteSets

CONSTANTS
  Job,            \* run identifiers newRunID may hand out
  Op,             \* diagnostic operation identifiers newRunID may hand out
  Package,        \* frozen runtime packages (their SHA-256)
  Shape,          \* what executing a package takes: see ExecutionAssumption
  Key, NoKey,     \* Idempotency-Key headers, and the absent header
  Client,         \* concurrent POST /v1/jobs requests
  Retrier,        \* POST /v1/runs/{id}/diagnostics, as owner of executionMu
  Stopper,        \* POST /v1/control/stop, as owner of executionMu
  Nobody, NoOp,
  MaxSamples, MaxModels,  \* bounds of Shape
  MaxInstance,            \* bound: number of Handler restarts
  JobWriteFaults,         \* may updateJob fail to write job.json
  OpWriteFaults,          \* may executeDiagnostics fail to write status.json
  OrphanedCLI             \* may a docker command outlive a killed Handler

ASSUME ExecutionAssumption ==
  /\ MaxSamples \in Nat \ {0}
  /\ MaxModels \in Nat
  /\ MaxInstance \in Nat
  /\ Shape \in [Package -> [samples : 1..MaxSamples, models : 0..MaxModels,
                            diagnostics : BOOLEAN]]
  /\ Job \cap (Client \cup Op) = {}
  /\ Nobody \notin Job \cup Client \cup {Retrier, Stopper}
  /\ Retrier \notin Job \cup Client \cup {Stopper}
  /\ Stopper \notin Job \cup Client
  /\ NoOp \notin Op
  /\ NoKey \notin Key
  /\ {JobWriteFaults, OpWriteFaults, OrphanedCLI} \subseteq BOOLEAN

VARIABLES
  \* Handler memory
  mem,        \* s.jobs: the status of each job this instance knows
  stopping,   \* s.stopping
  holder,     \* who owns executionMu
  phase,      \* where the owner is
  sample, step,  \* the stage a job is at: step 0 ingests, step m runs model m
  lapsed,     \* some stage, sample or report of this job failed
  completed,  \* some sample window of this job completed
  current,    \* the diagnostic operation being executed
  recoverer,  \* who owns recoveryMu
  active,     \* the running jobs that owner exempts
  client,     \* where each POST /v1/jobs request is
  \* the runs directory
  instance,   \* counts Handler processes: stands for the random instanceID
  disk,       \* status in runs/<job>/job.json
  package, key,  \* request in job.json: fixed for a run, so chosen in Init
  jobOp,      \* diagnostic_operation_id in job.json
  composed,   \* stages whose compose-<stage>.yaml exists
  opStatus, opInstance, opRun,  \* logs/diagnostics-<op>/status.json
  report,     \* the report entry an operation registered in manifest.json
  \* Docker
  live, liveOp,  \* projects with a container that is not exited or dead
  cli, cliOp     \* "compose up" commands that have not created theirs yet

memory == <<mem, stopping, holder, phase, sample, step, lapsed, completed,
            current, recoverer, active, client>>
jobFiles == <<disk, package, key, jobOp, composed>>
opFiles  == <<opStatus, opInstance, opRun>>
docker   == <<live, liveOp, cli, cliOp>>
vars == <<memory, instance, jobFiles, opFiles, report, docker>>

Active   == {"queued", "running"}
Terminal == {"succeeded", "partial", "failed", "interrupted"}
Status   == Active \cup Terminal \cup {"absent"}
Stage    == (1..MaxSamples) \X (0..MaxModels)
Phases   == {"free", "recover", "check", "decide", "announce", "launch", "up",
             "report", "prepare", "diagnose", "conclude", "over"}

\* Types: what Handler memory, the runs directory and Docker hold.
TypeOK ==
  /\ mem \in [Job -> Status] /\ disk \in [Job -> Status]
  /\ stopping \in BOOLEAN
  /\ holder \in Job \cup {Nobody, Retrier, Stopper}
  /\ phase \in Phases
  /\ sample \in 1..MaxSamples /\ step \in 0..MaxModels
  /\ lapsed \in BOOLEAN /\ completed \in BOOLEAN
  /\ current \in Op \cup {NoOp}
  /\ recoverer \in Job \cup Client \cup {Nobody, Retrier, Stopper}
  /\ active \in SUBSET Job
  /\ client \in [Client -> {"idle", "recovering", "cleared"}]
  /\ instance \in 0..MaxInstance
  /\ package \in [Job -> Package]
  /\ key \in [Job -> Key \cup {NoKey}]
  /\ jobOp \in [Job -> Op \cup {NoOp}]
  /\ composed \in [Job -> SUBSET Stage]
  /\ opStatus \in [Op -> {"none", "running", "succeeded", "partial", "failed"}]
  /\ opInstance \in [Op -> 0..MaxInstance]
  /\ opRun \in [Op -> Job \cup {Nobody}]
  /\ report \in [Op -> {"none", "succeeded", "partial"}]
  /\ live \in [Job -> SUBSET Stage] /\ cli \in [Job -> SUBSET Stage]
  /\ liveOp \in SUBSET Op /\ cliOp \in SUBSET Op

Init ==
  /\ mem = [j \in Job |-> "absent"]
  /\ stopping = FALSE
  /\ holder = Nobody /\ phase = "free"
  /\ sample = 1 /\ step = 0 /\ lapsed = FALSE /\ completed = FALSE
  /\ current = NoOp
  /\ recoverer = Nobody /\ active = {}
  /\ client = [c \in Client |-> "idle"]
  /\ instance = 0
  /\ disk = [j \in Job |-> "absent"]
  /\ package \in [Job -> Package] /\ key \in [Job -> Key \cup {NoKey}]
  /\ jobOp = [j \in Job |-> NoOp]
  /\ composed = [j \in Job |-> {}]
  /\ opStatus = [o \in Op |-> "none"]
  /\ opInstance = [o \in Op |-> 0]
  /\ opRun = [o \in Op |-> Nobody]
  /\ report = [o \in Op |-> "none"]
  /\ live = [j \in Job |-> {}] /\ cli = [j \in Job |-> {}]
  /\ liveOp = {} /\ cliOp = {}
-----------------------------------------------------------------------------
(***************************************************************************)
(* reconcileExecutions: under recoveryMu, snapshot which jobs are running  *)
(* (releasing jobsMu again), then list the owned projects and ask Docker.  *)
(***************************************************************************)
ReconcileBeginsSlip(a) ==  \* every job this instance knows is exempt
  /\ recoverer = Nobody
  /\ recoverer' = a
  /\ active' = {j \in Job : mem[j] # "absent"}

ReconcileBegins(a) ==
  /\ recoverer = Nobody
  /\ recoverer' = a
  /\ active' = {j \in Job : mem[j] = "running"}

ReconcileEnds ==
  /\ recoverer' = Nobody
  /\ active' = {}

OwnRunningSlip(o) == opStatus[o] = "running"  \* whichever process began it

\* Only a running operation of this very process is exempt.
OwnRunning(o) == opStatus[o] = "running" /\ opInstance[o] = instance

ListedOps == {o \in Op : opStatus[o] # "none" /\ ~OwnRunning(o)}

\* No listed project has a container that is not exited or dead.
Quiet ==
  /\ \A j \in Job \ active : composed[j] \cap live[j] = {}
  /\ ListedOps \cap liveOp = {}

\* Docker is only asked when some project is listed.
SomethingListed ==
  \/ \E j \in Job \ active : composed[j] # {}
  \/ ListedOps # {}

\* updateJob: memory and job.json change together, unless the write fails;
\* then memory says failed and the file keeps the old status.
updateJob(j, status) ==
  \/ /\ mem' = [mem EXCEPT ![j] = status]
     /\ disk' = [disk EXCEPT ![j] = status]
  \/ /\ JobWriteFaults
     /\ mem' = [mem EXCEPT ![j] = "failed"]
     /\ UNCHANGED disk

Locks(a) ==
  /\ holder = Nobody
  /\ holder' = a
  /\ phase' = "recover"

Unlocks ==
  /\ holder' = Nobody
  /\ phase' = "free"
  /\ sample' = 1 /\ step' = 0 /\ lapsed' = FALSE /\ completed' = FALSE
  /\ current' = NoOp

position == <<sample, step, lapsed, completed, current>>

\* Whoever owns executionMu reconciles before doing anything else with it.
HolderReconciles ==
  /\ phase = "recover"
  /\ ReconcileBegins(holder)
  /\ phase' = "check"
  /\ UNCHANGED <<mem, stopping, holder, position, client, instance, jobFiles,
                 opFiles, report, docker>>
-----------------------------------------------------------------------------
(***************************************************************************)
(* POST /v1/jobs (handleCreateJob): reconcile without any other lock, then *)
(* decide under jobsMu.                                                    *)
(***************************************************************************)
CreateReconciles(c) ==
  /\ client[c] = "idle"
  /\ ReconcileBegins(c)
  /\ client' = [client EXCEPT ![c] = "recovering"]
  /\ UNCHANGED <<mem, stopping, holder, phase, position, instance, jobFiles,
                 opFiles, report, docker>>

CreateAnswered(c, next) ==
  /\ recoverer = c
  /\ ReconcileEnds
  /\ client' = [client EXCEPT ![c] = next]
  /\ UNCHANGED <<mem, stopping, holder, phase, position, instance, jobFiles,
                 opFiles, report, docker>>

\* 409: prior Docker project is still ...
CreateBlocked(c) == ~Quiet /\ CreateAnswered(c, "idle")

\* 409: cannot verify prior Docker projects are stopped.
CreateUnverified(c) == SomethingListed /\ CreateAnswered(c, "idle")

CreateCleared(c) == Quiet /\ CreateAnswered(c, "cleared")

KnownKey(k)    == k # NoKey /\ \E j \in Job : mem[j] # "absent" /\ key[j] = k
RecordedKey(k) == k # NoKey /\ \E j \in Job : disk[j] # "absent" /\ key[j] = k

ActivePackageSlip(p) ==  \* a queued job does not count
  \E j \in Job : package[j] = p /\ mem[j] = "running"
ActivePackage(p) == \E j \in Job : package[j] = p /\ mem[j] \in Active

Concludes(c) ==
  /\ client[c] = "cleared"
  /\ client' = [client EXCEPT ![c] = "idle"]
  /\ UNCHANGED <<stopping, holder, phase, position, recoverer, active,
                 instance, package, key, jobOp, composed, opFiles, report,
                 docker>>

\* The answers that change nothing: stopping, a key in memory, a key or an
\* active run of another request, a directory that cannot be made.
AdmissionRefused(c) == Concludes(c) /\ UNCHANGED <<mem, disk>>

\* A key recorded by an earlier process: the same run is returned, and if it
\* never finished it is recorded as interrupted.
AdmissionRecalled(c, j) ==
  /\ ~stopping
  /\ key[j] # NoKey /\ disk[j] # "absent" /\ ~KnownKey(key[j])
  /\ LET known == IF disk[j] \in Active THEN "interrupted" ELSE disk[j] IN
     /\ mem' = [mem EXCEPT ![j] = known]
     /\ \/ disk' = [disk EXCEPT ![j] = known]
        \/ JobWriteFaults /\ UNCHANGED disk
  /\ Concludes(c)

AdmissibleSlip(j) ==  \* earlier processes' records are not searched for the key
  /\ ~stopping
  /\ disk[j] = "absent" /\ mem[j] = "absent"
  /\ ~KnownKey(key[j])
  /\ ~ActivePackage(package[j])

Admissible(j) ==
  /\ ~stopping
  /\ disk[j] = "absent" /\ mem[j] = "absent"
  /\ ~KnownKey(key[j]) /\ ~RecordedKey(key[j])
  /\ ~ActivePackage(package[j])

\* 202: a new run, and a goroutine for it.
AdmissionQueued(c, j) ==
  /\ Admissible(j)
  /\ mem' = [mem EXCEPT ![j] = "queued"]
  /\ disk' = [disk EXCEPT ![j] = "queued"]
  /\ Concludes(c)

\* 500: job.json was written but package.zip was not, so no goroutine runs it.
AdmissionStranded(c, j) ==
  /\ Admissible(j)
  /\ disk' = [disk EXCEPT ![j] = "queued"]
  /\ UNCHANGED mem
  /\ Concludes(c)

PollSlip(j) ==  \* without looking the run up in memory under the same lock
  /\ disk[j] \in Active
  /\ disk' = [disk EXCEPT ![j] = "interrupted"]
  /\ UNCHANGED <<memory, instance, package, key, jobOp, composed, opFiles,
                 report, docker>>

PollSlipRewrites(j) ==  \* whatever was recorded
  /\ mem[j] = "absent" /\ disk[j] # "absent"
  /\ disk' = [disk EXCEPT ![j] = "interrupted"]
  /\ UNCHANGED <<memory, instance, package, key, jobOp, composed, opFiles,
                 report, docker>>

\* GET /v1/jobs/{id} (handleJob) of a run this process does not know.
Poll(j) ==
  /\ mem[j] = "absent" /\ disk[j] \in Active
  /\ disk' = [disk EXCEPT ![j] = "interrupted"]
  /\ UNCHANGED <<memory, instance, package, key, jobOp, composed, opFiles,
                 report, docker>>
-----------------------------------------------------------------------------
(***************************************************************************)
(* executeJob and executeBatchJob: the goroutine of one admitted job.      *)
(***************************************************************************)
LastModelSlip(j)  == step = Shape[package[j]].models - 1    \* counted from zero
Batch(j)     == Shape[package[j]].samples > 1
LastModel(j) == step = Shape[package[j]].models
LastSample(j) == sample = Shape[package[j]].samples

JobLocks(j) ==
  /\ mem[j] = "queued"
  /\ Locks(j)
  /\ UNCHANGED <<mem, stopping, position, recoverer, active, client, instance,
                 jobFiles, opFiles, report, docker>>

Checked(a) ==
  /\ holder = a /\ phase = "check" /\ recoverer = a
  /\ ReconcileEnds

JobRefusedSlip(j) ==  \* an early return that records no outcome
  /\ Checked(j)
  /\ phase' = "over"
  /\ UNCHANGED <<mem, disk, stopping, holder, position, client, instance,
                 package, key, jobOp, composed, opFiles, report, docker>>

\* Reconciliation refused, or the data directory is not configured.
JobRefused(j) ==
  /\ Checked(j)
  /\ updateJob(j, "failed")
  /\ phase' = "over"
  /\ UNCHANGED <<stopping, holder, position, client, instance, package, key,
                 jobOp, composed, opFiles, report, docker>>

JobCleared(j) ==
  /\ Checked(j)
  /\ Quiet
  /\ phase' = "announce"
  /\ UNCHANGED <<mem, stopping, holder, position, client, instance, jobFiles,
                 opFiles, report, docker>>

At(j, p) == holder = j /\ phase = p

\* What a job's own step leaves alone.
OwnStep == UNCHANGED <<stopping, holder, recoverer, active, client, instance,
                       package, key, report>>

\* A single run reports each stage, a batch reports each sample window.
StageAnnounced(j) ==
  /\ At(j, "announce")
  /\ IF Batch(j) /\ step > 0 THEN UNCHANGED <<mem, disk>>
                             ELSE updateJob(j, "running")
  /\ phase' = "launch"
  /\ OwnStep
  /\ UNCHANGED <<position, jobOp, composed, opFiles, docker>>

\* compose-<stage>.yaml is on disk before docker is asked to start it.
StageLaunched(j) ==
  /\ At(j, "launch")
  /\ composed' = [composed EXCEPT ![j] = @ \cup {<<sample, step>>}]
  /\ cli' = [cli EXCEPT ![j] = @ \cup {<<sample, step>>}]
  /\ phase' = "up"
  /\ OwnStep
  /\ UNCHANGED <<mem, disk, position, jobOp, opFiles, live, liveOp, cliOp>>

NextStage ==
  /\ step' = step + 1
  /\ phase' = "announce"
  /\ UNCHANGED <<sample, completed, mem, disk>>

\* A sample window is over; usable: its manifest could be read.
SampleEnds(j, usable) ==
  /\ completed' = (completed \/ usable)
  /\ \/ /\ ~LastSample(j)
        /\ sample' = sample + 1 /\ step' = 0
        /\ phase' = "announce"
        /\ UNCHANGED <<mem, disk>>
     \/ /\ LastSample(j)
        /\ UNCHANGED <<sample, step>>
        /\ IF completed' THEN phase' = "report" /\ UNCHANGED <<mem, disk>>
                         ELSE phase' = "over" /\ updateJob(j, "failed")

\* A failed stage ends a single run. In a batch it is recorded and the batch
\* goes on: to the next sample after ingestion, to the next model otherwise.
StageOutcome(j, ok) ==
  LET goesOn == ok \/ (Batch(j) /\ step > 0) IN
  \/ /\ ~ok /\ ~Batch(j)
     /\ lapsed' = TRUE
     /\ phase' = "over" /\ updateJob(j, "failed")
     /\ UNCHANGED <<sample, step, completed>>
  \/ /\ goesOn /\ ~LastModel(j)
     /\ lapsed' = (lapsed \/ ~ok)
     /\ NextStage
  \/ /\ goesOn /\ LastModel(j)
     /\ \E usable \in IF Batch(j) THEN BOOLEAN ELSE {TRUE} :
          /\ lapsed' = (lapsed \/ ~ok \/ ~usable)
          /\ SampleEnds(j, usable)
  \/ /\ ~ok /\ Batch(j) /\ step = 0
     /\ lapsed' = TRUE
     /\ SampleEnds(j, FALSE)

\* The command or the compose file could not be made.
StageUnlaunched(j) ==
  /\ At(j, "launch")
  /\ StageOutcome(j, FALSE)
  /\ OwnStep
  /\ UNCHANGED <<current, jobOp, composed, opFiles, docker>>

\* "compose up" returned or timed out, and "compose down" removed the project
\* or did not. A stage is good only if its container ran and was removed.
StageReturns(j) ==
  LET stage == <<sample, step>> IN
  /\ At(j, "up")
  /\ \E ok, removed \in BOOLEAN :
       /\ ok => removed /\ stage \notin live[j] \cup cli[j]
       /\ live' = IF removed THEN [live EXCEPT ![j] = @ \ {stage}] ELSE live
       /\ StageOutcome(j, ok)
  /\ cli' = [cli EXCEPT ![j] = @ \ {stage}]
  /\ OwnStep
  /\ UNCHANGED <<current, jobOp, composed, opFiles, liveOp, cliOp>>

\* All stages are done: finish, or go on to the diagnostics. A batch first
\* writes its own manifest, and fails if it cannot.
JobReports(j) ==
  /\ At(j, "report")
  /\ \/ /\ Batch(j)
        /\ updateJob(j, "failed") /\ phase' = "over"
     \/ /\ ~Shape[package[j]].diagnostics
        /\ updateJob(j, IF lapsed THEN "partial" ELSE "succeeded")
        /\ phase' = "over"
     \/ /\ Shape[package[j]].diagnostics
        /\ updateJob(j, "running") /\ phase' = "prepare"
  /\ OwnStep
  /\ UNCHANGED <<position, jobOp, composed, opFiles, docker>>
-----------------------------------------------------------------------------
(***************************************************************************)
(* prepareDiagnostics and executeDiagnostics; the owner of executionMu is  *)
(* a job after its models, or an explicit retry.                           *)
(***************************************************************************)
\* status.json of a new operation is on disk.
OperationSaved(o, run) ==
  /\ opStatus[o] = "none"
  /\ opStatus' = [opStatus EXCEPT ![o] = "running"]
  /\ opInstance' = [opInstance EXCEPT ![o] = instance]
  /\ opRun' = [opRun EXCEPT ![o] = run]

OperationStarts(o) ==
  /\ current' = o
  /\ cliOp' = cliOp \cup {o}
  /\ phase' = "diagnose"

JobDiagnoses(j, o) ==
  /\ At(j, "prepare")
  /\ OperationSaved(o, j)
  /\ jobOp' = [jobOp EXCEPT ![j] = o]
  /\ OperationStarts(o)
  /\ OwnStep
  /\ UNCHANGED <<mem, disk, sample, step, lapsed, completed, composed, live,
                 liveOp, cli>>

\* Some file of the operation, its latest pointer or job.json could not be
\* written: whether status.json was, and whether the job's last update still
\* names the operation, is left open.
JobUnprepared(j) ==
  /\ At(j, "prepare")
  /\ \/ UNCHANGED <<opFiles, jobOp>>
     \/ \E o \in Op : /\ OperationSaved(o, j)
                      /\ jobOp' \in {jobOp, [jobOp EXCEPT ![j] = o]}
  /\ updateJob(j, "partial")
  /\ phase' = "over"
  /\ OwnStep
  /\ UNCHANGED <<position, composed, docker>>

\* The report entries of a run's manifest.json, and those naming operation o.
Registered(run) == {r \in Op : opRun[r] = run /\ report[r] # "none"}
AdoptedSlip(o) == Registered(opRun[o])  \* any report of the run
Adopted(o) == Registered(opRun[o]) \cap {o}

\* What executeDiagnostics makes of the container's result and the manifest.
OperationResult(o, clean) ==
  IF Adopted(o) = {} THEN "failed"
  ELSE IF clean THEN report[CHOOSE r \in Adopted(o) : TRUE] ELSE "partial"

DiagnosticsReturn ==
  /\ phase = "diagnose"
  /\ \E clean, removed \in BOOLEAN :
       LET result == OperationResult(current, clean) IN
       /\ clean => removed /\ current \notin liveOp \cup cliOp
       /\ liveOp' = IF removed THEN liveOp \ {current} ELSE liveOp
       /\ \/ /\ opStatus' = [opStatus EXCEPT ![current] = result]
             /\ lapsed' = (lapsed \/ result # "succeeded")
          \/ /\ OpWriteFaults
             /\ UNCHANGED opStatus
             /\ lapsed' = TRUE
  /\ cliOp' = cliOp \ {current}
  /\ phase' = IF holder \in Job THEN "conclude" ELSE "over"
  /\ OwnStep
  /\ UNCHANGED <<mem, disk, sample, step, completed, current, jobOp, composed,
                 opInstance, opRun, live, cli>>

\* Forecasts remain available: a failed operation leaves the job partial.
JobConcludes(j) ==
  /\ At(j, "conclude")
  /\ updateJob(j, IF lapsed THEN "partial" ELSE "succeeded")
  /\ phase' = "over"
  /\ OwnStep
  /\ UNCHANGED <<position, jobOp, composed, opFiles, docker>>

\* The deferred executionMu.Unlock of executeJob and of a retry's goroutine.
Releases ==
  /\ phase = "over"
  /\ Unlocks
  /\ UNCHANGED <<mem, stopping, recoverer, active, client, instance, jobFiles,
                 opFiles, report, docker>>
-----------------------------------------------------------------------------
(***************************************************************************)
(* POST /v1/runs/{id}/diagnostics (handleRetryDiagnostics) and             *)
(* POST /v1/control/stop (requestShutdown). Both only try executionMu; a   *)
(* request that finds it taken is answered 409 and changes nothing.        *)
(***************************************************************************)
TriesLock(a) ==
  /\ Locks(a)
  /\ UNCHANGED <<mem, stopping, position, recoverer, active, client, instance,
                 jobFiles, opFiles, report, docker>>

RetryLocks == TriesLock(Retrier)
StopLocks  == TriesLock(Stopper)

\* 409: reconciliation refused.
RequestRefused(a) ==
  /\ Checked(a)
  /\ phase' = "over"
  /\ UNCHANGED <<mem, stopping, holder, position, client, instance, jobFiles,
                 opFiles, report, docker>>

RequestCleared(a) ==
  /\ Checked(a)
  /\ Quiet
  /\ phase' = "decide"
  /\ UNCHANGED <<mem, stopping, holder, position, client, instance, jobFiles,
                 opFiles, report, docker>>

NoActiveJobSlip == \A j \in Job : mem[j] # "running"  \* forgets queued jobs
NoActiveJob == \A j \in Job : mem[j] \notin Active

\* 503 or 409: stopping, or a job is queued; also any file that cannot be
\* written, which may leave a status.json behind.
RetryDeclined ==
  /\ At(Retrier, "decide")
  /\ phase' = "over"
  /\ \/ UNCHANGED opFiles
     \/ /\ ~stopping /\ NoActiveJob
        /\ \E o \in Op, run \in Job : disk[run] # "absent" /\ OperationSaved(o, run)
  /\ OwnStep
  /\ UNCHANGED <<mem, disk, position, jobOp, composed, docker>>

\* A run that has launched a model may have registered a Forecast.
MayHoldForecast(run) == \E stage \in composed[run] : stage[2] > 0

RetryDiagnoses(o, run) ==
  /\ At(Retrier, "decide")
  /\ ~stopping /\ NoActiveJob
  /\ MayHoldForecast(run)
  /\ OperationSaved(o, run)
  /\ OperationStarts(o)
  /\ OwnStep
  /\ UNCHANGED <<mem, disk, sample, step, lapsed, completed, jobOp, composed,
                 live, liveOp, cli>>

\* Draining is decided under jobsMu; a second stop finds stopping already set.
StopDecides ==
  /\ At(Stopper, "decide")
  /\ stopping' = (stopping \/ NoActiveJob)
  /\ phase' = "over"
  /\ UNCHANGED <<mem, holder, position, recoverer, active, client, instance,
                 jobFiles, opFiles, report, docker>>
-----------------------------------------------------------------------------
(***************************************************************************)
(* The Handler process ends, by a stop or a crash, and another starts: its *)
(* memory is new. A killed process may leave its docker command behind.    *)
(***************************************************************************)
Restart ==
  /\ instance < MaxInstance
  /\ instance' = instance + 1
  /\ mem' = [j \in Job |-> "absent"]
  /\ stopping' = FALSE
  /\ Unlocks
  /\ ReconcileEnds
  /\ client' = [c \in Client |-> "idle"]
  /\ IF OrphanedCLI
       THEN UNCHANGED <<cli, cliOp>>
       ELSE cli' = [j \in Job |-> {}] /\ cliOp' = {}
  /\ UNCHANGED <<jobFiles, opFiles, report, live, liveOp>>
-----------------------------------------------------------------------------
(***************************************************************************)
(* Docker: a "compose up" creates its container, which later exits. The    *)
(* diagnostics container may register its report in the run's manifest.    *)
(***************************************************************************)
unlessDocker == <<memory, instance, jobFiles, opFiles>>

StageStarts(j, stage) ==
  /\ stage \in cli[j]
  /\ cli' = [cli EXCEPT ![j] = @ \ {stage}]
  /\ live' = [live EXCEPT ![j] = @ \cup {stage}]
  /\ UNCHANGED <<unlessDocker, report, liveOp, cliOp>>

StageExits(j, stage) ==
  /\ stage \in live[j]
  /\ live' = [live EXCEPT ![j] = @ \ {stage}]
  /\ UNCHANGED <<unlessDocker, report, liveOp, cli, cliOp>>

DiagnosticsStart(o) ==
  /\ o \in cliOp
  /\ cliOp' = cliOp \ {o}
  /\ liveOp' = liveOp \cup {o}
  /\ UNCHANGED <<unlessDocker, report, live, cli>>

DiagnosticsRegister(o) ==
  /\ o \in liveOp /\ report[o] = "none"
  /\ \E status \in {"succeeded", "partial"} :
       report' = [report EXCEPT ![o] = status]
  /\ UNCHANGED <<unlessDocker, docker>>

DiagnosticsExit(o) ==
  /\ o \in liveOp
  /\ liveOp' = liveOp \ {o}
  /\ UNCHANGED <<unlessDocker, report, live, cli, cliOp>>
-----------------------------------------------------------------------------
ClientReconciled(c) == CreateBlocked(c) \/ CreateUnverified(c) \/ CreateCleared(c)

ClientStep(c) ==
  \/ CreateReconciles(c)
  \/ ClientReconciled(c)
  \/ AdmissionRefused(c)
  \/ \E j \in Job : AdmissionRecalled(c, j) \/ AdmissionQueued(c, j)
                    \/ AdmissionStranded(c, j)

\* What the owner of executionMu does once it has reconciled.
JobStep(j) ==
  \/ JobRefused(j) \/ JobCleared(j)
  \/ StageAnnounced(j) \/ StageLaunched(j) \/ StageUnlaunched(j)
  \/ StageReturns(j)
  \/ JobReports(j)
  \/ (\E o \in Op : JobDiagnoses(j, o)) \/ JobUnprepared(j)
  \/ JobConcludes(j)

RequestStep ==
  \/ \E a \in {Retrier, Stopper} : RequestRefused(a) \/ RequestCleared(a)
  \/ RetryDeclined
  \/ \E o \in Op, run \in Job : RetryDiagnoses(o, run)
  \/ StopDecides

DockerStep ==
  \/ \E j \in Job, stage \in Stage : StageStarts(j, stage) \/ StageExits(j, stage)
  \/ \E o \in Op : DiagnosticsStart(o) \/ DiagnosticsRegister(o) \/ DiagnosticsExit(o)

Next ==
  \/ \E c \in Client : ClientStep(c)
  \/ \E j \in Job : Poll(j) \/ JobLocks(j) \/ JobStep(j)
  \/ RetryLocks \/ StopLocks
  \/ HolderReconciles
  \/ RequestStep
  \/ DiagnosticsReturn
  \/ Releases
  \/ DockerStep
  \/ Restart

Spec == Init /\ [][Next]_vars
-----------------------------------------------------------------------------
(***************************************************************************)
(* Fairness. Go runs every goroutine; docker commands carry a timeout (30  *)
(* minutes, 15 seconds), so the owner of executionMu and a request that    *)
(* reconciles always take a next step. sync.Mutex hands itself to waiters  *)
(* in turn once one has starved, and TryLock fails meanwhile, hence the    *)
(* strong fairness of the two acquisitions.                                *)
(***************************************************************************)
HolderStep == (\E j \in Job : JobStep(j)) \/ RequestStep \/ DiagnosticsReturn \/ Releases

Fairness ==
  /\ WF_vars(HolderStep)
  /\ WF_vars(\E c \in Client : ClientReconciled(c))
  /\ SF_vars(HolderReconciles)
  /\ \A j \in Job : SF_vars(JobLocks(j))

FairSpec == Spec /\ Fairness
-----------------------------------------------------------------------------
\* A job is executing from the moment its reconciliation passed until the
\* goroutine is done and none of its containers is left.
JobRunning(j) ==
  \/ holder = j /\ phase \notin {"recover", "check", "over"}
  \/ live[j] \cup cli[j] # {}
  \/ jobOp[j] \in liveOp \cup cliOp

\* So is a retried operation; a job's own operation is part of the job.
OpRunning(o) ==
  /\ \A j \in Job : jobOp[j] # o
  /\ \/ holder = Retrier /\ phase = "diagnose" /\ current = o
     \/ o \in liveOp \cup cliOp

JobState(j) == IF JobRunning(j) THEN "running"
               ELSE IF disk[j] = "absent" THEN "new"
               ELSE IF mem[j] = "queued" THEN "waiting" ELSE "over"

OpState(o) == IF OpRunning(o) THEN "running"
              ELSE IF opStatus[o] = "none" THEN "new" ELSE "over"

executionState == [e \in Job \cup Op |-> IF e \in Job THEN JobState(e) ELSE OpState(e)]

Serial == INSTANCE SerialExecution WITH Execution <- Job \cup Op, state <- executionState

\* The Handler implements the abstract executions: a job or retry starts its
\* container work only when no earlier one, of this process or of one before
\* it, has any left, and an execution that was lost is never resumed.
ExecutionsAreSerial == Serial!Spec

\* "Execution is serialized": never two executions with container work, not
\* even across a crash that left containers behind.
OneExecution ==
  \A d, e \in Job \cup Op :
    executionState[d] = "running" /\ executionState[e] = "running" => d = e

\* A stop that was accepted leaves nothing behind: no queued or running job,
\* no container of an execution, and nobody who could start one.
StopIsQuiet ==
  stopping => /\ NoActiveJob
              /\ \A e \in Job \cup Op : executionState[e] # "running"

\* A repeated idempotency key returns the same run, also after a restart: no
\* two recorded runs carry one key.
KeyNamesOneRun ==
  \A i, j \in Job :
    /\ disk[i] # "absent" /\ disk[j] # "absent"
    /\ key[i] = key[j] /\ key[i] # NoKey
    => i = j

\* A queued or running package rejects a second request until it finishes.
PackageActiveOnce ==
  \A i, j \in Job :
    mem[i] \in Active /\ mem[j] \in Active /\ package[i] = package[j] => i = j

\* What a poll answers and what Runs shows agree: the status in memory is the
\* one in job.json, so no live job is ever recorded as interrupted.
RecordAgrees == \A j \in Job : mem[j] # "absent" => disk[j] = mem[j]

\* A recorded outcome is final: no later process, poll or repeated request
\* rewrites it.
OutcomeIsFinal == [][\A j \in Job : disk[j] \in Terminal => disk'[j] = disk[j]]_vars

\* A job is recorded as succeeded only if every stage of every sample window
\* was launched and its own diagnostic operation succeeded.
SucceededIsComplete ==
  \A j \in Job : disk[j] = "succeeded" =>
    LET shape == Shape[package[j]] IN
    /\ (1..shape.samples) \X (0..shape.models) \subseteq composed[j]
    /\ shape.diagnostics => /\ jobOp[j] # NoOp
                            /\ opStatus[jobOp[j]] = "succeeded"

\* An operation adopts only a report that it registered itself; a report of an
\* earlier attempt of the same run never makes a later one succeed.
ReportIsOwn ==
  \A o \in Op :
    /\ opStatus[o] \in {"succeeded", "partial"} => report[o] # "none"
    /\ opStatus[o] = "succeeded" => report[o] = "succeeded"

\* Every admitted job reaches an outcome or is lost with its process.
QueuedJobEnds == \A j \in Job : mem[j] = "queued" ~> mem[j] \notin Active
-----------------------------------------------------------------------------
(***************************************************************************)
(* The inductive invariant behind OneExecution and StopIsQuiet.            *)
(***************************************************************************)
Working == {"announce", "launch", "up", "report", "prepare", "diagnose", "conclude"}

\* A job is at a stage its package has; nobody else is at any.
PositionInv ==
  /\ \A j \in Job : holder = j => /\ sample <= Shape[package[j]].samples
                                  /\ step <= Shape[package[j]].models
  /\ holder \notin Job => sample = 1 /\ step = 0

\* The owner of executionMu is where its kind can be, and the statuses it
\* leaves behind are not "running".
OwnerInv ==
  /\ holder = Nobody <=> phase = "free"
  /\ holder = Retrier => phase \in {"recover", "check", "decide", "diagnose", "over"}
  /\ holder = Stopper => phase \in {"recover", "check", "decide", "over"}
  /\ holder \in Job => phase # "decide"
  /\ \A j \in Job : mem[j] = "running" => holder = j /\ phase \in Working
  /\ phase = "check" => recoverer = holder /\ active = {}

\* What Docker runs is on record: compose files and status files come first.
RecordedInv ==
  /\ \A j \in Job : live[j] \cup cli[j] \subseteq composed[j]
  /\ \A o \in Op : o \in liveOp \cup cliOp => opStatus[o] # "none"
  /\ \A o \in Op : opInstance[o] <= instance
  /\ \A j \in Job : jobOp[j] # NoOp => opStatus[jobOp[j]] # "none"
  /\ \A i, j \in Job : jobOp[i] = jobOp[j] /\ jobOp[i] # NoOp => i = j

\* An exempt operation with a container is the one being executed, and only
\* the owner has a docker command under way.
ExemptInv ==
  /\ phase = "diagnose" => /\ current \in Op
                           /\ holder \in Job => jobOp[holder] = current
                           /\ holder = Retrier => \A j \in Job : jobOp[j] # current
  /\ phase = "conclude" => jobOp[holder] = current
  /\ \A o \in liveOp : OwnRunning(o) => phase = "diagnose" /\ current = o
  /\ \A o \in cliOp : phase = "diagnose" /\ current = o
  /\ \A j \in Job : cli[j] # {} =>
       holder = j /\ phase = "up" /\ cli[j] = {<<sample, step>>}

\* Past its reconciliation the owner is alone with its own containers.
AloneInv ==
  /\ phase = "decide" => liveOp = {} /\ \A j \in Job : live[j] = {}
  /\ phase \in Working =>
       /\ \A j \in Job : live[j] # {} => holder = j
       /\ \A o \in liveOp : phase \in {"diagnose", "conclude"} /\ current = o

\* Whether or not somebody owns executionMu, the live containers belong to one
\* execution.
LiveInv ==
  /\ \A i, j \in Job : live[i] # {} /\ live[j] # {} => i = j
  /\ \A o, p \in liveOp : o = p
  /\ \A j \in Job, o \in liveOp : live[j] # {} => jobOp[j] = o

StopInv ==
  stopping => /\ \A j \in Job : mem[j] \notin Active /\ live[j] = {}
              /\ liveOp = {}
              /\ holder \notin Job
              /\ phase # "diagnose"

\* What it takes: an operation's outcome reaches its status.json, and a killed
\* Handler takes its docker commands with it.
Dependable == ~OpWriteFaults /\ ~OrphanedCLI

\* One owner, one execution, all of it on record: what every Handler action
\* keeps true while it admits, runs, recovers, retries and stops.
ExecutionInv ==
  /\ TypeOK /\ PositionInv /\ OwnerInv /\ RecordedInv
  /\ ExemptInv /\ AloneInv /\ LiveInv /\ StopInv
=============================================================================

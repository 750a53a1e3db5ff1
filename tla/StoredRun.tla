------------------------------ MODULE StoredRun ------------------------------
(***************************************************************************)
(* The directory of a run, as the containers that work on it one after the *)
(* other write it: ingestion and models (utils/stored_fields.py,           *)
(* containers/models/run.py), the diagnostics requests with their attempts *)
(* (diagnostics/__main__.py, verification_run.py, map_visualization.py),   *)
(* and the result page that reads it (diagnostics_server.py).              *)
(*                                                                         *)
(* A run has one window of data in its own directory, or is a batch: a     *)
(* directory for each window, and a parent whose manifest lists them. Any  *)
(* container may be killed between two operations on files. What is in the *)
(* arrays does not matter here, only whether a file is whole. A manifest   *)
(* is written beside itself and renamed, so it has no torn state.          *)
(***************************************************************************)
EXTENDS Naturals, Sequences, SequencesExt, FiniteSets, FiniteSetsExt

CONSTANTS
  Model,
  MaxWindows,     \* bound: windows of a batch
  MaxOps          \* bound: diagnostics requests on the run

Input == {"context", "target"}

\* Inputs and forecasts are kept apart in a run.
ASSUME StoredRunAssumption ==
  /\ IsFiniteSet(Model) /\ Model \cap Input = {}
  /\ MaxWindows \in Nat /\ MaxOps \in Nat

VARIABLES
  batch,          \* is the run a batch? never changes
  files,          \* the arrays in each directory: none, torn or whole
  manifest,       \* manifest.json of each directory, or nothing
  made,           \* the output of each attempt: none, torn or whole
  stages,         \* the containers the Handler still has to run, in order
  fit,            \* the windows whose ingestion succeeded, in order
  ops,            \* the diagnostics requests made so far
  box             \* the container that is running, or nothing

runFiles == <<files, manifest, made>>
handlerVars == <<stages, fit, ops>>
runVars == <<batch, runFiles, handlerVars, box>>

Root == 0
Dir == 0..MaxWindows
Windows == IF batch THEN 1..MaxWindows ELSE {Root}
Attempt == (1..MaxOps) \X (1..Cardinality(Model) * (MaxWindows + 1) + 1)
Good == {"succeeded", "partial"}

ManifestOf(d) == CHOOSE m \in manifest[d] : TRUE
Ids(records) == {records[i].id : i \in DOMAIN records}

Record == [kind : {"verification", "visualization", "report"}, id : Nat \X Nat,
           model : SUBSET Model, window : Dir, status : Good \cup {"failed"},
           op : SUBSET Nat, ids : SUBSET (Nat \X Nat)]
Manifest == [status : {"ingested", "failed", "partial", "succeeded"}, inputs : SUBSET Input,
             forecasts : SUBSET Model, diagnostics : Seq(Record)]

\* Types of the run's files and the Handler's plan.
StoredRunTypeOK ==
  /\ batch \in BOOLEAN
  /\ files \in [Dir \X (Input \cup Model) -> {"none", "torn", "whole"}]
  /\ made \in [Attempt -> {"none", "torn", "whole"}]
  /\ manifest \in [Dir -> SUBSET Manifest] /\ \A d \in Dir : \A m, n \in manifest[d] : m = n
  /\ stages \in Seq([dir : Dir, name : {"context"} \cup Model]) /\ fit \in Seq(Dir)
  /\ ops \in Seq([metrics : BOOLEAN, maps : SUBSET Model])

\* Of each window the ingestion, then the models.
Stages ==
  LET names == <<"context">> \o SetToSeq(Model)
      windows == IF batch THEN [w \in 1..MaxWindows |-> w] ELSE <<Root>>
  IN [k \in 1..(Len(windows) * Len(names)) |->
        [dir |-> windows[((k - 1) \div Len(names)) + 1], name |-> names[((k - 1) % Len(names)) + 1]]]

RunInit ==
  /\ batch \in BOOLEAN
  /\ files = [f \in Dir \X (Input \cup Model) |-> "none"]
  /\ manifest = [d \in Dir |-> {}]
  /\ made = [a \in Attempt |-> "none"]
  /\ stages = Stages /\ fit = <<>> /\ ops = <<>>
  /\ box = {}
-----------------------------------------------------------------------------
Box == CHOOSE b \in box : TRUE
Runs(what, step) == \E b \in box : b.what = what /\ b.step = step
Becomes(b) == box' = {b} /\ UNCHANGED <<batch, handlerVars>>
ArrayAt(d, name) == files[<<d, name>>]
Saves(d, m) == manifest' = [manifest EXCEPT ![d] = {m}]

(***************************************************************************)
(* The Handler (external): one container after the other. A failed stage   *)
(* ends a single run's job, drops the window of a batch when it is an      *)
(* ingestion, and is passed over when it is a model.                       *)
(***************************************************************************)
StageStarts ==
  /\ box = {} /\ stages # <<>>
  /\ LET s == Head(stages)
         what == IF s.name = "context" THEN "ingest" ELSE "model"
     IN box' = {[what |-> what, step |-> "read", dir |-> s.dir, name |-> s.name,
                 held |-> manifest[s.dir]]}
  /\ UNCHANGED <<batch, runFiles, handlerVars>>

StageEnds(ok) ==
  /\ box' = {}
  /\ fit' = (IF ok /\ Box.what = "ingest" THEN Append(fit, Box.dir) ELSE fit)
  /\ LET next == IF ~ok /\ Box.what = "ingest" THEN Cardinality(Model) + 2 ELSE 2
     IN stages' = (IF ok \/ batch THEN SubSeq(stages, next, Len(stages)) ELSE <<>>)
  /\ UNCHANGED <<batch, ops>>

\* The parent's manifest repeats what the first window has.
BatchPublished ==
  /\ batch /\ box = {} /\ stages = <<>> /\ fit # <<>> /\ manifest[Root] = {}
  /\ Saves(Root, [ManifestOf(Head(fit)) EXCEPT !.status = "ingested", !.diagnostics = <<>>])
  /\ UNCHANGED <<batch, files, made, handlerVars, box>>

\* A request for metrics, maps or both. A retry is of models that are stored; a
\* batch goes on to its first request whatever its models did.
DiagnosticsStart(metrics, maps) ==
  /\ box = {} /\ stages = <<>> /\ Len(ops) < MaxOps
  /\ manifest[Root] # {} /\ (metrics \/ maps # {})
  /\ \/ batch /\ ops = <<>>
     \/ ManifestOf(Root).forecasts # {} /\ maps \subseteq ManifestOf(Root).forecasts
  /\ ops' = Append(ops, [metrics |-> metrics, maps |-> maps])
  /\ box' = {[what |-> "diagnose", step |-> "read", op |-> Len(ops) + 1, held |-> manifest[Root],
              jobs |-> <<>>, results |-> <<>>]}
  /\ UNCHANGED <<batch, runFiles, stages, fit>>

\* A timeout, or docker: the container is gone where it was.
Killed ==
  /\ box # {}
  /\ IF Box.what = "diagnose" THEN box' = {} /\ UNCHANGED <<batch, handlerVars>>
     ELSE StageEnds(FALSE)
  /\ UNCHANGED runFiles

\* The Handler ends, and the container with it: the job is not resumed.
HandlerDies ==
  /\ box # {} \/ stages # <<>>
  /\ box' = {} /\ stages' = <<>>
  /\ fit' = (IF manifest[Root] = {} THEN <<>> ELSE fit)
  /\ UNCHANGED <<batch, runFiles, ops>>
-----------------------------------------------------------------------------
(***************************************************************************)
(* create_run and the model container with add_forecast.                   *)
(***************************************************************************)
\* read_window, read_grid; the weights and the context of a model: an error here
\* leaves nothing behind.
StageDeclines ==
  /\ (Runs("ingest", "read") /\ Box.name = "context") \/ Runs("model", "read")
  /\ StageEnds(FALSE) /\ UNCHANGED runFiles

\* write_cube opens a file that must not be there.
CubeOpened ==
  /\ Runs("ingest", "read") \/ (Runs("model", "read") /\ Box.held # {})
  /\ ArrayAt(Box.dir, Box.name) = "none"
  /\ files' = [files EXCEPT ![<<Box.dir, Box.name>>] = "torn"]
  /\ Becomes([Box EXCEPT !.step = "opened"])
  /\ UNCHANGED <<manifest, made>>

\* The array is written and its digest taken.
CubeFilled ==
  /\ Runs("ingest", "opened") \/ Runs("model", "opened")
  /\ files' = [files EXCEPT ![<<Box.dir, Box.name>>] = "whole"]
  /\ Becomes(IF Box.name = "context" THEN [Box EXCEPT !.step = "read", !.name = "target"]
             ELSE [Box EXCEPT !.step = "filled"])
  /\ UNCHANGED <<manifest, made>>

\* What create_run has in hand when an array cannot be written.
InputsSoFar == {n \in Input : ArrayAt(Box.dir, n) = "whole"}
NewManifest(status, inputs) ==
  [status |-> status, inputs |-> inputs, forecasts |-> {}, diagnostics |-> <<>>]

CubeFails ==
  /\ \/ (Runs("ingest", "read") \/ Runs("ingest", "opened"))
        /\ Saves(Box.dir, NewManifest("failed", InputsSoFar))
     \/ (Runs("model", "read") \/ Runs("model", "opened")) /\ Box.held # {}
        /\ Saves(Box.dir, [(CHOOSE m \in Box.held : TRUE) EXCEPT !.status = "failed"])
  /\ StageEnds(FALSE)
  /\ UNCHANGED <<files, made>>

RunCreated ==
  /\ Runs("ingest", "filled")
  /\ Saves(Box.dir, NewManifest("ingested", Input))
  /\ StageEnds(TRUE) /\ UNCHANGED <<files, made>>

ForecastEarlySlip ==  \* on record before the array is there
  /\ Runs("model", "opened")
  /\ Saves(Box.dir, [ManifestOf(Box.dir) EXCEPT !.forecasts = @ \cup {Box.name}])
  /\ files' = [files EXCEPT ![<<Box.dir, Box.name>>] = "torn"]
  /\ StageEnds(TRUE) /\ UNCHANGED made

ForecastAdded ==
  /\ Runs("model", "filled")
  /\ Saves(Box.dir, [ManifestOf(Box.dir) EXCEPT !.forecasts = @ \cup {Box.name}])
  /\ StageEnds(TRUE) /\ UNCHANGED <<files, made>>
-----------------------------------------------------------------------------
(***************************************************************************)
(* main and _batch_main: the attempts of one request, then its report.     *)
(***************************************************************************)
Held == CHOOSE m \in Box.held : TRUE
Request == ops[Box.op]

\* The windows that maps are drawn for.
Drawn == IF batch THEN fit ELSE <<Root>>

Jobs(request) ==
  LET maps == SetToSeq(request.maps)
      Map(k) == [kind |-> "visualization", model |-> {maps[((k - 1) % Len(maps)) + 1]},
                 window |-> Drawn[((k - 1) \div Len(maps)) + 1]]
  IN (IF request.metrics THEN <<[kind |-> "verification", model |-> {}, window |-> Root]>> ELSE <<>>)
     \o [k \in 1..(Len(Drawn) * Len(maps)) |-> Map(k)]

\* A map of a model that a window has no forecast of refuses the whole request.
Drawable(request) ==
  \A i \in DOMAIN Drawn : request.maps \subseteq ManifestOf(Drawn[i]).forecasts

RequestRead ==
  /\ Runs("diagnose", "read") /\ Drawable(Request)
  /\ Becomes([Box EXCEPT !.step = "job", !.jobs = Jobs(Request)])
  /\ UNCHANGED runFiles

RequestDeclined ==
  /\ Runs("diagnose", "read") /\ ~Drawable(Request)
  /\ box' = {} /\ UNCHANGED <<batch, handlerVars, runFiles>>

Current == <<Box.op, Len(Box.results) + 1>>
ThisJob == Box.jobs[Len(Box.results) + 1]
More == Len(Box.results) < Len(Box.jobs)
Result(status) ==
  [kind |-> ThisJob.kind, id |-> Current, model |-> ThisJob.model, window |-> ThisJob.window,
   status |-> status, op |-> {}, ids |-> {}]
WithRecord(m, r) == [m EXCEPT !.diagnostics = Append(@, r)]

\* Nothing is scored when the run, or the first window, has no forecast.
OutputMade ==
  /\ Runs("diagnose", "job") /\ More
  /\ ThisJob.kind = "verification" => ManifestOf(Root).forecasts # {}
  /\ made' = [made EXCEPT ![Current] = "torn"]
  /\ Becomes([Box EXCEPT !.step = "made"])
  /\ UNCHANGED <<files, manifest>>

\* config, provenance, store and summary; or the cubes of the map and viewer.json.
OutputWritten ==
  /\ Runs("diagnose", "made")
  /\ made' = [made EXCEPT ![Current] = "whole"]
  /\ Becomes([Box EXCEPT !.step = "written"])
  /\ UNCHANGED <<files, manifest>>

\* The attempt goes into the manifest of its window, as it is by then; the
\* verification of a batch is only kept for the end.
AttemptEnds ==
  /\ Runs("diagnose", "written")
  /\ \E status \in (IF ThisJob.kind = "verification" THEN Good \cup {"failed"} ELSE {"succeeded"}) :
       /\ Becomes([Box EXCEPT !.step = "job", !.results = Append(@, Result(status))])
       /\ IF batch /\ ThisJob.kind = "verification" THEN UNCHANGED manifest
          ELSE Saves(ThisJob.window, WithRecord(ManifestOf(ThisJob.window), Result(status)))
  /\ UNCHANGED <<files, made>>

\* One attempt's failure is data: in the manifest at once, or in the batch's.
AttemptFails ==
  /\ (Runs("diagnose", "job") /\ More) \/ Runs("diagnose", "made") \/ Runs("diagnose", "written")
  /\ made' = [made EXCEPT ![Current] = "torn"]
  /\ IF batch
     THEN /\ Becomes([Box EXCEPT !.step = "job", !.results = Append(@, Result("failed")),
                                 !.held = {WithRecord(Held, Result("failed"))}])
          /\ UNCHANGED manifest
     ELSE /\ Becomes([Box EXCEPT !.step = "job", !.results = Append(@, Result("failed"))])
          /\ Saves(Root, WithRecord(ManifestOf(Root), Result("failed")))
  /\ UNCHANGED files

AllWell(results) == \A i \in DOMAIN results : results[i].status = "succeeded"

ReadAgainSlip == Held

\* main reads the manifest again; _batch_main still has its own.
ReadAgain == IF batch THEN Held ELSE ManifestOf(Root)

TwiceSlip(m, results) == m \o results

\* The k-th of a set of places, from the front.
Place(places, k) == CHOOSE i \in places : Cardinality({j \in places : j <= i}) = k

\* The results that are not on record yet are added, in order.
Completed(m, results) ==
  LET new == {i \in DOMAIN results : results[i].id \notin Ids(m)}
  IN m \o (IF batch THEN [k \in 1..Cardinality(new) |-> results[Place(new, k)]] ELSE <<>>)

Named(records, results, op) ==
  [i \in DOMAIN records |->
     IF records[i].id \in Ids(results) THEN [records[i] EXCEPT !.op = {op}] ELSE records[i]]

\* write_report, for what the request attempted.
Report(results, op) ==
  [kind |-> "report", id |-> <<op, 0>>, model |-> {}, window |-> Root, op |-> {op},
   status |-> IF AllWell(results) THEN "succeeded" ELSE "partial", ids |-> Ids(results)]

ReportWritten ==
  /\ Runs("diagnose", "job") /\ ~More /\ Box.results # <<>>
  /\ LET m == ReadAgain
         records == Named(Completed(m.diagnostics, Box.results), Box.results, Box.op)
     IN Saves(Root, [m EXCEPT !.status = IF AllWell(Box.results) THEN "succeeded" ELSE "partial",
                              !.diagnostics = Append(records, Report(Box.results, Box.op))])
  /\ box' = {} /\ UNCHANGED <<batch, handlerVars, files, made>>

RunNext ==
  \/ StageStarts \/ BatchPublished \/ Killed \/ HandlerDies
  \/ \E metrics \in BOOLEAN, maps \in SUBSET Model : DiagnosticsStart(metrics, maps)
  \/ StageDeclines \/ CubeOpened \/ CubeFilled \/ CubeFails \/ RunCreated \/ ForecastAdded
  \/ RequestRead \/ RequestDeclined \/ OutputMade \/ OutputWritten
  \/ AttemptEnds \/ AttemptFails \/ ReportWritten

RunSpec == RunInit /\ [][RunNext]_runVars
-----------------------------------------------------------------------------
(***************************************************************************)
(* The result page: of the attempts on record the newest that succeeded.   *)
(***************************************************************************)
\* _visualization_models, and _verification_root for the metrics: the place of
\* the record that is shown, or 0.
Newest(records, kind, model, window) ==
  SelectLastInSeq(records, LAMBDA r :
    r.kind = kind /\ r.model = model /\ r.window = window /\ r.status \in Good)

Shown(m) ==
  {i \in DOMAIN m.diagnostics :
     LET r == m.diagnostics[i]
     IN r.kind # "report" /\ i = Newest(m.diagnostics, r.kind, r.model, r.window)}
-----------------------------------------------------------------------------
\* What a manifest registers is there and whole, whenever a container was
\* killed: the arrays of a window (a batch's parent only repeats the first
\* window's), and the output of every attempt that the page shows.
RegisteredIsWhole ==
  /\ \A d \in Windows : \A m \in manifest[d] :
       \A n \in m.inputs \cup m.forecasts : ArrayAt(d, n) = "whole"
  /\ \A m \in manifest[Root] : \A i \in Shown(m) : made[m.diagnostics[i].id] = "whole"

\* "Each report contains exactly this request's attempts, including failures":
\* every product the request asked for was attempted, is on record once under
\* the request's name, and a report that says succeeded had no failure.
ReportIsExact ==
  \A m \in manifest[Root] : \A i \in DOMAIN m.diagnostics :
    LET report == m.diagnostics[i]
        mine == {k \in DOMAIN m.diagnostics :
                   m.diagnostics[k].kind # "report" /\ m.diagnostics[k].op = report.op}
    IN report.kind = "report" =>
         /\ report.ids = {m.diagnostics[k].id : k \in mine}
         /\ Cardinality(mine) = Len(Jobs(ops[CHOOSE o \in report.op : TRUE]))
         /\ report.status = "succeeded" <=> \A k \in mine : m.diagnostics[k].status = "succeeded"

\* What is on record stays on record, in its place, through failed and killed
\* attempts and retries: arrays, attempts (which may still get the name of
\* their request) and, of each model and window, something to show.
SameAttempt(r, s) == s = r \/ (r.op = {} /\ [s EXCEPT !.op = {}] = r)
NothingLost(m, n) ==
  /\ m.inputs \subseteq n.inputs /\ m.forecasts \subseteq n.forecasts
  /\ Len(m.diagnostics) <= Len(n.diagnostics)
  /\ \A i \in DOMAIN m.diagnostics : SameAttempt(m.diagnostics[i], n.diagnostics[i])
  /\ \A i \in Shown(m) : \E k \in Shown(n) :
       /\ k >= i /\ n.diagnostics[k].kind = m.diagnostics[i].kind
       /\ n.diagnostics[k].model = m.diagnostics[i].model
       /\ n.diagnostics[k].window = m.diagnostics[i].window
RecordStays ==
  [][\A d \in Dir : \A m \in manifest[d] : \E n \in manifest'[d] : NothingLost(m, n)]_runVars
=============================================================================

------------------------------ MODULE Providers ------------------------------
(***************************************************************************)
(* The field providers behind the access contract (access/base.py): the    *)
(* generator (synthetic.py), files on disk (replay.py), a stored run       *)
(* (stored.py), and any of them behind the HTTP service (mockfeed.py,      *)
(* wire.py, http.py); the checklist a provider is measured with            *)
(* (conformance.py); and what a task makes of their answers (executor.py). *)
(*                                                                         *)
(* Times count seconds and a minute has few of them. A field keeps its     *)
(* name, unit, time, the cells its mask declares missing and those whose   *)
(* data is NaN; a request and an answer are records; an answer's value is  *)
(* a set of at most one.                                                   *)
(***************************************************************************)
EXTENDS Integers, Sequences, SequencesExt, FiniteSets, FiniteSetsExt

Minute == 2
Cells == 1..2

Served(v) == [says |-> "served", value |-> {v}]
Unavailable == [says |-> "unavailable", value |-> {}]    \* FieldUnavailable
NoForecast == [says |-> "no forecast", value |-> {}]     \* PredictionUnavailable
Broken == [says |-> "error", value |-> {}]               \* anything else that is raised

Given(o, default) == IF o = {} THEN default ELSE CHOOSE v \in o : TRUE
Value(answer) == CHOOSE v \in answer.value : TRUE
Ascending(S) == SetToSortSeq(S, <)
Elements(s) == {s[i] : i \in DOMAIN s}

Times(name, from, to) == [op |-> "times", name |-> name, at |-> from, to |-> to, lead |-> 0]
Observation(name, t) == [op |-> "observation", name |-> name, at |-> t, to |-> t, lead |-> 0]
Leads(model, init) == [op |-> "leads", name |-> model, at |-> init, to |-> init, lead |-> 0]
Prediction(model, init, lead) ==
  [op |-> "prediction", name |-> model, at |-> init, to |-> init, lead |-> lead]
-----------------------------------------------------------------------------
(***************************************************************************)
(* SyntheticAccess.                                                        *)
(***************************************************************************)
\* What its constructor lets through.
MockBuilds(s) ==
  /\ s.cadence > 0 /\ s.names # <<>> /\ s.models # <<>> /\ s.every >= 0
  /\ DOMAIN s.sources \subseteq Elements(s.names)
  /\ DOMAIN s.modelSources \subseteq Elements(s.models)
  /\ \A m \in DOMAIN s.modelSources : s.modelSources[m] \in Elements(s.names)

Source(s, name) ==
  IF name \in DOMAIN s.sources
  THEN [unit |-> Given(s.sources[name].unit, s.unit),
        missing |-> Given(s.sources[name].missing, s.missing)]
  ELSE [unit |-> s.unit, missing |-> s.missing]

Step(s) == s.cadence * Minute
Aligned(s, t) == (t - s.start) % Step(s) = 0

DownSlip(s, t) == s.start + ((t - s.start) \div Step(s)) * Step(s)

AlignUp(s, t) ==
  IF t < s.start THEN s.start ELSE s.start + ((t - s.start + Step(s) - 1) \div Step(s)) * Step(s)

RunMissing(s, init) == s.every # 0 /\ ((init - s.start) \div Step(s) + 1) % s.every = 0

MockLeads(s, init) ==
  IF RunMissing(s, init) THEN <<>>
  ELSE Ascending({l \in s.cadence..s.horizon : l % s.cadence = 0} \ s.drop)

MockCaps(s) ==
  [cadence |-> s.cadence, names |-> s.names, models |-> s.models,
   units |-> [n \in Elements(s.names) \cup Elements(s.models) |->
                IF n \in Elements(s.names) THEN {Source(s, n).unit} ELSE {s.unit}]]

MadeField(source, name, t) ==
  [name |-> name, unit |-> source.unit, time |-> t, missing |-> source.missing, nan |-> {}]

MockAsk(s, q) ==
  CASE q.op = "times" /\ q.name \in Elements(s.names) ->
         Served(Ascending({t \in AlignUp(s, q.at)..q.to : Aligned(s, t)} \ s.absent))
    [] q.op = "observation" /\ q.name \in Elements(s.names) /\ Aligned(s, q.at) /\ q.at \notin s.absent ->
         Served(MadeField(Source(s, q.name), q.name, q.at))
    [] q.op = "leads" /\ q.name \in Elements(s.models) /\ Aligned(s, q.at) ->
         Served(MockLeads(s, q.at))
    [] q.op = "prediction" /\ q.name \in Elements(s.models) /\ Aligned(s, q.at)
         /\ q.lead \in Elements(MockLeads(s, q.at)) ->
         Served(MadeField(IF q.name \in DOMAIN s.modelSources THEN Source(s, s.modelSources[q.name])
                          ELSE [unit |-> s.unit, missing |-> s.missing],
                          q.name, q.at + q.lead * Minute))
    [] OTHER -> Unavailable
-----------------------------------------------------------------------------
(***************************************************************************)
(* ReplayAccess: a directory of arrays for each name (none if it is not    *)
(* there), and an archive for each initial time of a model.                *)
(***************************************************************************)
ReplayCaps(r) ==
  [cadence |-> r.cadence, names |-> r.names, models |-> r.models,
   units |-> [n \in Elements(r.names) \cup Elements(r.models) |-> {r.unit}]]

\* Files are named to the minute.
Stamp(t) == (t \div Minute) * Minute

FileField(r, name, t) ==
  [name |-> name, unit |-> r.unit, time |-> t, missing |-> {}, nan |-> r.nan]

ReplayAsk(r, q) ==
  CASE q.op = "times" /\ q.name \in Elements(r.names) /\ r.files[q.name] # {} ->
         Served(Ascending({t \in UNION r.files[q.name] : q.at <= t /\ t <= q.to}))
    [] q.op = "observation" /\ q.name \in Elements(r.names)
         /\ Stamp(q.at) \in UNION r.files[q.name] /\ q.name \in r.gridded ->
         Served(FileField(r, q.name, q.at))
    [] q.op = "leads" /\ q.name \in Elements(r.models) /\ Stamp(q.at) \in DOMAIN r.runs ->
         Served(r.runs[Stamp(q.at)].leads)
    [] q.op = "prediction" /\ q.name \in Elements(r.models) /\ Stamp(q.at) \in DOMAIN r.runs
         /\ q.lead \in r.runs[Stamp(q.at)].arrays ->
         Served(FileField(r, q.name, q.at + q.lead * Minute))
    [] OTHER -> Unavailable
-----------------------------------------------------------------------------
(***************************************************************************)
(* RunAccess: the observations and forecasts a run's manifest registers.   *)
(***************************************************************************)
RunCaps(u) ==
  [cadence |-> u.cadence, names |-> <<u.id>>, models |-> SetToSeq(DOMAIN u.forecasts),
   units |-> [n \in {u.id} \cup DOMAIN u.forecasts |-> {u.unit}]]

RunField(u, name, t) == [name |-> name, unit |-> u.unit, time |-> t, missing |-> u.missing, nan |-> {}]

\* forecast: of this model and of the run's own initial time.
Forecast(u, q) == q.name \in DOMAIN u.forecasts /\ q.at = u.init

RunAsk(u, q) ==
  CASE q.op = "times" /\ q.name = u.id -> Served(Ascending({t \in u.times : q.at <= t /\ t <= q.to}))
    [] q.op = "observation" /\ q.name = u.id /\ q.at \in u.times -> Served(RunField(u, u.id, q.at))
    [] q.op = "leads" /\ Forecast(u, q) -> Served(u.forecasts[q.name])
    [] q.op = "prediction" /\ Forecast(u, q) /\ q.lead \in Elements(u.forecasts[q.name]) ->
         Served(RunField(u, q.name, u.init + q.lead * Minute))
    [] q.op \in {"leads", "prediction"} -> NoForecast
    [] OTHER -> Unavailable
-----------------------------------------------------------------------------
(***************************************************************************)
(* A provider this repository does not have: it serves two times and two   *)
(* leads of day 0, with any of the faults a checklist is for.              *)
(***************************************************************************)
PlatformCaps(f) ==
  [cadence |-> IF "cadence" \in f.faults THEN 0 ELSE 1, names |-> <<"obs">>, models |-> <<"model">>,
   units |-> [n \in {"obs", "model"} |-> IF "no unit" \in f.faults THEN {} ELSE {"dBZ"}]]

PlatformField(f, name, t) ==
  [name |-> name, unit |-> IF "unit" \in f.faults /\ name = "model" THEN "raw" ELSE "dBZ",
   time |-> IF "time" \in f.faults THEN t + Minute ELSE t,
   missing |-> IF "holes" \in f.faults THEN {1} ELSE {},
   nan |-> IF "nan" \in f.faults THEN {2} ELSE {}]

PlatformAsk(f, q) ==
  LET times == <<0, IF "gap" \in f.faults THEN 2 * Minute ELSE Minute>>
      known == Elements(times)
      leads == IF "nothing" \in f.faults THEN <<>> ELSE <<1, 2>>
  IN CASE q.op = "times" -> Served(SelectSeq(times, LAMBDA t : q.at <= t /\ t <= q.to))
       [] q.op = "observation" /\ (q.at \in known \/ "interpolates" \in f.faults) ->
            Served(PlatformField(f, q.name, q.at))
       [] q.op = "leads" /\ q.at = 0 -> Served(leads)
       [] q.op = "prediction" /\ q.at = 0 /\ q.lead = 2 /\ "raises" \in f.faults -> Broken
       [] q.op = "prediction" /\ q.at = 0 /\ (q.lead \in 1..2 \/ "invents" \in f.faults)
            /\ ~(q.lead = 2 /\ "raises" \in f.faults) ->
            Served([PlatformField(f, q.name, q.at + q.lead * Minute) EXCEPT
                      !.unit = IF "late unit" \in f.faults /\ q.lead = 2 THEN "raw" ELSE @])
       [] OTHER -> Unavailable
-----------------------------------------------------------------------------
(***************************************************************************)
(* The service: one request, its status and its body.                      *)
(***************************************************************************)
Local(p, q) ==
  CASE p.kind = "mock" -> MockAsk(p, q)
    [] p.kind = "replay" -> ReplayAsk(p, q)
    [] p.kind = "run" -> RunAsk(p, q)
    [] p.kind = "platform" -> PlatformAsk(p, q)

LocalCaps(p) ==
  CASE p.kind = "mock" -> MockCaps(p)
    [] p.kind = "replay" -> ReplayCaps(p)
    [] p.kind = "run" -> RunCaps(p)
    [] p.kind = "platform" -> PlatformCaps(p)

Response(status, kind, value) == [status |-> status, kind |-> kind, value |-> value]
Payload(v) == Response(200, "payload", {v})
Error(status, code) == Response(status, "error", {code})

\* _classify: why, as far as the provider's own declarations tell.
Classify(p, q) ==
  LET caps == LocalCaps(p)
  IN CASE q.op \in {"times", "observation"} /\ q.name \notin Elements(caps.names) -> "unknown-name"
       [] q.op \in {"leads", "prediction"} /\ q.name \notin Elements(caps.models) -> "unknown-name"
       [] q.op = "prediction" /\ q.name \in Elements(caps.models)
            /\ (\E leads \in Local(p, Leads(q.name, q.at)).value : q.lead \notin Elements(leads)) ->
            "no-such-run"
       [] OTHER -> "unavailable"

\* encode_field has geographic axes only; what else is raised is a plain 500.
Handle(p, q, answer) ==
  CASE answer.says = "served" /\ (q.op \in {"times", "leads"} \/ p.geographic) -> Payload(Value(answer))
    [] answer.says = "served" /\ q.op \notin {"times", "leads"} /\ ~p.geographic -> Error(400, "bad-request")
    [] answer.says \in {"unavailable", "no forecast"} -> Error(404, Classify(p, q))
    [] answer.says = "error" -> Response(500, "text", {})

\* What is at the address: the service, another program that speaks JSON, a
\* page, or nothing that answers either attempt of _get.
Answered(p, q) ==
  CASE p.at = "service" -> Handle(p.service, q, Local(p.service, q))
    [] p.at = "elsewhere" -> Response(404, "json", {})
    [] p.at = "page" -> Response(200, "text", {})
    [] p.at = "nobody" -> Response(0, "text", {})

\* decode_field: NaN that the mask does not declare is missing, with a warning.
DecodeAnswer(q, v) == IF q.op \in {"times", "leads"} THEN v ELSE [v EXCEPT !.missing = @ \cup v.nan]

UNAVAILABLE_CODES == {"unavailable", "unknown-name", "off-cadence", "no-such-run"}

AnyCodeSlip(response) == response.status = 404

\* _interpret: a 404 is a missing field only in this protocol's words.
SaysUnavailable(response) ==
  response.status = 404 /\ response.kind = "error" /\ response.value \subseteq UNAVAILABLE_CODES

Interpret(q, response) ==
  CASE response.kind = "text" -> Broken
    [] response.kind # "text" /\ response.status = 200 -> Served(DecodeAnswer(q, Value(response)))
    [] response.kind # "text" /\ SaysUnavailable(response) -> Unavailable
    [] OTHER -> Broken

Http(p, at) == [kind |-> "http", service |-> p, at |-> at]

Ask(p, q) == IF p.kind = "http" THEN Interpret(q, Answered(p, q)) ELSE Local(p, q)

\* capabilities, or nothing where they cannot be read (decode_capabilities).
Caps(p) ==
  CASE p.kind # "http" -> {LocalCaps(p)}
    [] p.kind = "http" /\ p.at # "service" -> {}
    [] p.kind = "http" /\ p.at = "service" ->
         IF LocalCaps(p.service).cadence > 0 THEN {LocalCaps(p.service)} ELSE {}
-----------------------------------------------------------------------------
(***************************************************************************)
(* check_provider: lines of a checklist, each with the rows it was checked *)
(* on: "ok", "fail", or "none" where nothing could show it.                *)
(***************************************************************************)
Row(line, ok) == <<line, IF ok THEN "ok" ELSE "fail">>

CheckCapabilities(caps) ==
  {Row("cadence", caps.cadence > 0), Row("names", caps.names # <<>> \/ caps.models # <<>>),
   Row("units", \A n \in DOMAIN caps.units : caps.units[n] # {})}

\* _check_field; the time is only known for an observation.
CheckField(f, caps, kind, time) ==
  {Row(kind \o " declares a unit", f.unit # "")}
  \cup {Row(kind \o " unit is the declared one", f.unit = u) : u \in caps.units[f.name]}
  \cup {Row(kind \o " is for the time asked", f.time = t) : t \in time}
  \cup {IF f.missing = {} THEN <<"missing is NaN", "none">>
        ELSE Row("missing is NaN", f.nan \subseteq f.missing)}

Window == 2 * Minute  \* the code's hour
TimesOn(name, day) == Times(name, day, day + Window)

\* The first of the requests, one for each day, that finds something or fails.
Found(p, requests) ==
  LET hit == {i \in DOMAIN requests :
                LET a == Ask(p, requests[i]) IN a.says # "served" \/ Value(a) # <<>>}
  IN IF hit = {} THEN {} ELSE {requests[Min(hit)]}

\* Nothing is asked for where no name is declared.
ListedTimes(p, caps, days) ==
  UNION {Found(p, [i \in DOMAIN days |-> TimesOn(n[1], days[i])]) : n \in {caps.names} \ {<<>>}}
ListedLeads(p, caps, days) ==
  UNION {Found(p, [i \in DOMAIN days |-> Leads(m[1], days[i])]) : m \in {caps.models} \ {<<>>}}

MaxLeads == 3
Sampled(leads) == SubSeq(leads, 1, IF Len(leads) < MaxLeads THEN Len(leads) ELSE MaxLeads)
Refused(answer) == answer.says \in {"unavailable", "no forecast"}

\* _check_observations: the first name at the first time it lists, and a second
\* later.
CheckObservations(p, caps, q, listed) ==
  LET times == Value(listed)
      first == Ask(p, Observation(q.name, times[1]))
      gaps == {times[i + 1] - times[i] : i \in 1..Len(times) - 1}
  IN IF listed.says # "served" THEN {Row("observations", FALSE)}
     ELSE {Row("observations", TRUE)}
          \cup (IF gaps = {} THEN {} ELSE {Row("on the cadence", gaps = {caps.cadence * Minute})})
          \cup (IF first.says # "served" THEN {Row("observation answers", FALSE)}
                ELSE CheckField(Value(first), caps, "observation", {times[1]})
                     \cup {Row("off-cadence raises", Refused(Ask(p, Observation(q.name, times[1] + 1))))})

\* _check_predictions: the first leads of the first model, and one it has not.
CheckPredictions(p, caps, q, listed) ==
  LET leads == Value(listed)
      answers == {<<l, Ask(p, Prediction(q.name, q.at, l))>> : l \in Elements(Sampled(leads))}
  IN IF listed.says # "served" THEN {Row("predictions", FALSE)}
     ELSE {Row("leads are minutes", \A l \in Elements(leads) : l >= 0),
           Row("every lead fetched", \A a \in answers :
             a[2].says = "served" /\ Value(a[2]).time = q.at + a[1] * Minute),
           Row("unlisted lead raises", Refused(Ask(p, Prediction(q.name, q.at, Max(Elements(leads)) + 11))))}
          \cup UNION {CheckField(f, caps, "prediction", {}) : f \in UNION {a[2].value : a \in answers}}

\* The fields the two have asked for, which the client decoded.
Fetched(p, timesOf, leadsOf) ==
  UNION {LET ts == UNION {Elements(v) : v \in Ask(p, q).value}
         IN {Observation(q.name, t) : t \in IF ts = {} THEN {} ELSE {Min(ts), Min(ts) + 1}} : q \in timesOf}
  \cup UNION {LET ls == UNION {Elements(Sampled(v)) : v \in Ask(p, q).value}
              IN {Prediction(q.name, q.at, l) : l \in ls \cup {Max(all) + 11 : all \in {ls} \ {{}}}} : q \in leadsOf}

Undeclared(p, q) == \E f \in Local(p, q).value : f.nan \ f.missing # {}

AnyOkSlip(results) == IF "ok" \in results THEN "ok" ELSE IF "fail" \in results THEN "fail" ELSE "none"

\* _add_merged: one line for all its rows; not exercised is not passed.
Merged(results) ==
  IF "fail" \in results THEN "fail" ELSE IF "ok" \in results THEN "ok" ELSE "none"

Rows(p, caps, times, leads) ==
  LET warned == p.kind = "http" /\ \E q \in Fetched(p, times, leads) : Undeclared(p.service, q)
  IN CheckCapabilities(caps) \cup {Row("declares what is missing", ~warned)}
     \cup (IF times = {} THEN {<<"observations", "none">>}
           ELSE UNION {CheckObservations(p, caps, q, Ask(p, q)) : q \in times})
     \cup (IF leads = {} THEN {<<"predictions", "none">>}
           ELSE UNION {CheckPredictions(p, caps, q, Ask(p, q)) : q \in leads})

Report(p, days) ==
  LET rows == UNION {Rows(p, c, ListedTimes(p, c, days), ListedLeads(p, c, days)) : c \in Caps(p)}
      Lines(all) == [line \in {r[1] : r \in all} |-> Merged({r[2] : r \in {s \in all : s[1] = line}})]
  IN Lines(IF Caps(p) = {} THEN {Row("capabilities", FALSE)} ELSE rows)

Conforms(report) == \A line \in DOMAIN report : report[line] # "fail"
-----------------------------------------------------------------------------
(***************************************************************************)
(* One task of a pass: its state, and whether the pass notes that the      *)
(* observation is missing (run_tasks).                                     *)
(***************************************************************************)
Unscored(state, gap) == [state |-> state, gap |-> gap]

Task(p, truth, unit, model, init, lead) ==
  LET t == Ask(p, Observation(truth, init + lead * Minute))
      f == Ask(p, Prediction(model, init, lead))
      comparable == /\ Value(f).unit = unit
                    /\ Value(f).time = Value(t).time
      bad == t.says # "served" \/ Value(t).unit # unit
      first == IF bad THEN t ELSE f   \* what ends the task, if a fetch does
  IN CASE first.says = "unavailable" -> Unscored("unavailable", TRUE)
       [] first.says = "no forecast" -> Unscored("unavailable", FALSE)
       [] first.says = "error" -> Unscored("failed", FALSE)
       [] first.says = "served" ->
            IF bad \/ ~comparable THEN Unscored("failed", FALSE)
            ELSE IF Value(t).missing \cup Value(f).missing = Cells THEN Unscored("unavailable", TRUE)
            ELSE Unscored("done", FALSE)
-----------------------------------------------------------------------------
\* A provider behind the service answers as it does in the same process: the
\* same lists and fields, with every NaN declared, and the same gaps; what it
\* raises and what cannot be encoded is an error; and an address where there is
\* no service never looks like an archive that has nothing.
RemoteAgrees(p, q) ==
  LET direct == Local(p, q)
      remote == Ask(Http(p, "service"), q)
      list == q.op \in {"times", "leads"}
  IN /\ remote.says = "served" <=> direct.says = "served" /\ (list \/ p.geographic)
     /\ remote.says = "unavailable" <=> direct.says \in {"unavailable", "no forecast"}
     /\ remote.says = "served" /\ list => remote.value = direct.value
     /\ remote.says = "served" /\ ~list => \A f \in direct.value, g \in remote.value :
          /\ f.nan \subseteq g.missing /\ f.missing \subseteq g.missing
          /\ g.missing \subseteq f.missing \cup f.nan
          /\ [g EXCEPT !.missing = f.missing] = f
     /\ \A at \in {"elsewhere", "page", "nobody"} : Ask(Http(p, at), q).says = "error"

\* What a provider lists is what it serves, for exactly that time or lead and
\* within what was asked; an unlisted lead is refused.
ListedIsServed(p, name, model, from, to, init) ==
  LET times == Local(p, Times(name, from, to))
      leads == Local(p, Leads(model, init))
      horizon == 0..12
  IN /\ \A ts \in times.value : \A i \in DOMAIN ts :
          LET field == Local(p, Observation(name, ts[i]))
          IN /\ from <= ts[i] /\ ts[i] <= to /\ (i > 1 => ts[i - 1] < ts[i])
             /\ field.says = "served"
             /\ Value(field).time = ts[i] /\ Value(field).name = name
     /\ \A l \in horizon :
          LET field == Local(p, Prediction(model, init, l))
          IN field.says = "served" <=> \E ls \in leads.value : l \in Elements(ls)
     /\ \A l \in horizon : \A f \in Local(p, Prediction(model, init, l)).value :
          f.time = init + l * Minute /\ f.name = model

\* A service that conforms with nothing skipped can be verified: the sampled
\* fields are for the times asked, in the units declared, and without NaN that
\* is not declared. And the checklist finds the same faults through HTTP as in
\* the process, but for the two lines about what is missing.
CheckerDecides(p, days) ==
  LET remote == Http(p, "service")
      about == {"missing is NaN", "declares what is missing"}
      Sound(caps, q, at) ==
        /\ \E f \in Ask(remote, q).value : f.time = at /\ {f.unit} = caps.units[q.name]
        /\ ~Undeclared(p, q)
  IN \A report \in {Report(remote, days)}, local \in {Report(p, days)} :
     /\ Conforms(report) /\ "none" \notin {report[line] : line \in DOMAIN report \ about} =>
        \A caps \in Caps(remote) :
          /\ \A q \in ListedTimes(remote, caps, days) :
               LET t == Value(Ask(remote, q))[1] IN Sound(caps, Observation(q.name, t), t)
          /\ \A q \in ListedLeads(remote, caps, days) : \A l \in Elements(Sampled(Value(Ask(remote, q)))) :
               Sound(caps, Prediction(q.name, q.at, l), q.at + l * Minute)
     /\ Caps(remote) # {} /\ p.geographic =>
          /\ DOMAIN report = DOMAIN local
          /\ \A line \in DOMAIN report \ about : report[line] = local[line]
     /\ Caps(remote) = {} => ~Conforms(local)

\* A pass notes a missing observation only where the observation is missing, or
\* the pair has no point to compare: access/base.py:30 has a forecast gap
\* "distinct from an unavailable observation".
NotesObservation(p, truth, unit, model, init, lead) ==
  Task(p, truth, unit, model, init, lead).gap
    => Ask(p, Observation(truth, init + lead * Minute)).says = "unavailable"
       \/ Ask(p, Prediction(model, init, lead)).says = "served"
=============================================================================

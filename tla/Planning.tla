------------------------------ MODULE Planning ------------------------------
(***************************************************************************)
(* From run configs to tasks: the runs the platform declared               *)
(* (catalog/runs.py), the plan of a config over them (core/planner.py),    *)
(* the references the executor is handed, and what it makes of them        *)
(* (runner/executor.py).                                                   *)
(*                                                                         *)
(* Leads and steps are minutes in units small enough for a model, days are *)
(* numbers, and an init time is a pair of a day and a minute of it.        *)
(***************************************************************************)
EXTENDS Catalog

\* RunConfig.from_mapping: the documents that are run configs, strictly read.
ValidRun(doc) ==
  /\ ~doc.foreignKeys /\ doc.data # {} /\ doc.model # {}
  /\ doc.start # {} \/ doc.sample # {}
  /\ \A h \in doc.horizon : h > 0
RunOf(doc) ==
  [data |-> The(doc.data), model |-> The(doc.model), start |-> doc.start, horizon |-> doc.horizon]

\* leads_within_horizon: the frame count becomes minutes here.
LeadsWithinHorizon(run, step) ==
  {step * n : n \in UNION {1..h : h \in run.horizon}} \ {0}

ActiveOn(member, day) ==
  /\ \A d \in member.from : d <= day
  /\ \A d \in member.to : day <= d

InsideSlip(run, wanted, step) == {l \in wanted : \A h \in run.horizon : l < h * step}

\* _leads_inside_horizon: an unknown horizon is taken at face value.
Inside(run, wanted, step) ==
  {l \in wanted : \A h \in Positive(run.horizon) : l \in 1..h * (IF step > 1 THEN step ELSE 1)}

\* _pair_problem: nothing against a pair of which one package is unknown.
PairProblem(ps, run) ==
  \E d \in Get(ps, run.data), m \in Get(ps, run.model) : PairErrors(d, m) # {}

\* Why a run cannot be used, in the order plan() asks; the first one counts.
Reasons(cfg, ps, run) ==
  LET on == run.model \in DOMAIN cfg.roster
      member == cfg.roster[run.model]
  IN <<[reason |-> "not-on-roster",    holds |-> ~on],
       [reason |-> "other-source",     holds |-> run.data # cfg.truth],
       [reason |-> "no-start-time",    holds |-> run.start = {}],
       [reason |-> "inactive",
        holds |-> on /\ \E t \in run.start : ~ActiveOn(member, t[1])],
       [reason |-> "incompatible-pair", holds |-> PairProblem(ps, run)],
       [reason |-> "beyond-horizon",
        holds |-> on /\ Inside(run, member.leads, cfg.step) = {}]>>

FirstReason(cfg, ps, run) ==
  FirstDeclared(Reasons(cfg, ps, run), LAMBDA r : IF r.holds THEN {r.reason} ELSE {})

TasksOf(cfg, run) ==
  {[member |-> run.model, init |-> t, lead |-> l] :
     t \in run.start, l \in Inside(run, cfg.roster[run.model].leads, cfg.step)}

\* plan: the tasks, which runs of two horizons may give twice, and the rejections.
Plan(cfg, ps, runs) ==
  LET used == {i \in 1..Len(runs) : FirstReason(cfg, ps, runs[i]) = {}}
  IN [tasks      |-> UNION {TasksOf(cfg, runs[i]) : i \in used},
      rejections |-> [i \in (1..Len(runs)) \ used |-> The(FirstReason(cfg, ps, runs[i]))],
      dropped    |-> {i \in used : Inside(runs[i], cfg.roster[runs[i].model].leads, cfg.step)
                                     # cfg.roster[runs[i].model].leads}]

\* planned_runs: one reference for each member and init time.
PlannedRuns(plan) == {[member |-> t.member, init |-> t.init] : t \in plan.tasks}

\* runs_for and cmd_run with explicit init times: every member at each.
ExplicitRuns(cfg, inits) == [member : DOMAIN cfg.roster, init : inits]

\* run_tasks asks for every lead of a member that was active on the day.
Executed(cfg, refs) ==
  UNION {[member : {r.member}, init : {r.init}, lead : cfg.roster[r.member].leads] :
           r \in {x \in refs : ActiveOn(cfg.roster[x.member], x.init[1])}}

\* _coverage: the provider lists observations up to six hours after the last
\* init time, and a task whose valid time is not among them is unavailable.
Minute(t, day) == t[1] * day + t[2]
LastInit(inits, day) == CHOOSE t \in inits : \A u \in inits : Minute(u, day) <= Minute(t, day)
Unavailable(tasks, observed, day, sixHours) ==
  LET listed == {v \in observed : \A t \in {LastInit({x.init : x \in tasks}, day)} :
                                    v <= Minute(t, day) + sixHours}
  IN {t \in tasks : Minute(t.init, day) + t.lead \notin listed}

\* start_run and cmd_run, which plan without the catalog make_plan has.
StartRun(cfg, runs, inits, busy) ==
  LET refs == IF inits # {} THEN ExplicitRuns(cfg, inits) ELSE PlannedRuns(Plan(cfg, <<>>, runs))
  IN CASE refs = {} -> "nothing to do" [] refs # {} /\ busy -> "busy" [] OTHER -> "started"

\* available_leads: a model's leads over all its runs, at the one cadence.
AvailableLeads(ps, runs, model) ==
  LET Paced(kind) == FirstThat(ps, LAMBDA p : Kind(p) = kind /\ Cadence(p) # {})
      \* data packages come first in a catalog
      steps == UNION {Cadence(p) : p \in Or(Paced("data"), Paced("model"))}
  IN UNION {LeadsWithinHorizon(runs[i], step) :
              i \in {k \in 1..Len(runs) : runs[k].model = model}, step \in steps}
-----------------------------------------------------------------------------
\* The page judges a pair on the packages it lists and the planner on those that
\* the ids of a run name, the first of each id. While no id is given twice, no
\* run is rejected for a pair the page offers; in any catalog, the planner takes
\* no pair of its packages that the page does not offer; and an offered pair has
\* the step and the unit of the ruler it is planned and scored under, unless the
\* page warns of them.
PairFitsRuler(ps) ==
  LET Problem(data, model) == PairProblem(ps, [data |-> data, model |-> model])
  IN /\ \/ \E i \in 1..Len(ps) : <<"duplicate", i>> \in CatalogProblems(ps)
        \/ \A pair \in OfferedPairs(ps) : ~Problem(pair[1], pair[2])
     /\ \A d, m \in ToSet(ps) : Problem(d.id, m.id) \/ <<d.id, m.id>> \in OfferedPairs(ps)
     /\ \A d, m \in ToSet(ps) : PairErrors(d, m) = {} => SameScale(d, m)

\* Every run is used or rejected for one reason, and what the executor makes of
\* the references holds the whole plan and, beyond it, only leads that a run of
\* that member and time did not reach: it never scores another source's run or
\* a member on a day it was not on the roster. A run is started on a plan made
\* without the catalog, which holds the plan the page showed.
ExecutesThePlan(cfg, ps, runs) ==
  LET plan == Plan(cfg, ps, runs)
      done == Executed(cfg, PlannedRuns(plan))
      OfTask(run, t) == run.model = t.member /\ t.init \in run.start
  IN /\ plan.tasks \subseteq done
     /\ \A t \in done : \E i \in 1..Len(runs) :
          /\ OfTask(runs[i], t) /\ i \notin DOMAIN plan.rejections
          /\ runs[i].data = cfg.truth
     /\ \A t \in done \ plan.tasks : \E i \in plan.dropped :
          OfTask(runs[i], t) /\ \E h \in runs[i].horizon : t.lead > h * cfg.step
     /\ plan.tasks \subseteq Plan(cfg, <<>>, runs).tasks
     /\ plan.tasks # {} => StartRun(cfg, runs, {}, FALSE) = "started"
     /\ done \subseteq Executed(cfg, ExplicitRuns(cfg, {t.init : t \in plan.tasks}))

\* While no lead is longer than the six hours the provider is asked beyond the
\* last init time, the plan's coverage names exactly the tasks that have no
\* observation at their valid time.
CoverageIsExact(cfg, ps, runs, observed, day, sixHours) ==
  LET tasks == Plan(cfg, ps, runs).tasks
  IN tasks # {} /\ (\A t \in tasks : t.lead <= sixHours) =>
       Unavailable(tasks, observed, day, sixHours)
         = {t \in tasks : Minute(t.init, day) + t.lead \notin observed}

\* A lead the page offers for a model is one the plan takes: a config that has
\* the ruler's step from the same package and asks for an offered lead gets a
\* task for it unless its runs are rejected for another reason.
OfferedIsPlanned(cfg, ps, runs) ==
  \A m \in DOMAIN cfg.roster :
    LET mine == {i \in 1..Len(runs) : runs[i].model = m}
        wanted == cfg.roster[m].leads \cap AvailableLeads(ps, runs, m)
        plan == Plan(cfg, ps, runs)
    IN /\ wanted # {} /\ (\E p \in ToSet(ps) : Kind(p) = "data")
       /\ \A p \in ToSet(ps) : Kind(p) = "data" => Cadence(p) = {cfg.step}
       /\ \A i \in mine \cap DOMAIN plan.rejections : plan.rejections[i] = "beyond-horizon"
       => wanted \subseteq {t.lead : t \in {x \in plan.tasks : x.member = m}}
=============================================================================

--------------------------- MODULE MC_Algorithms ---------------------------
(***************************************************************************)
(* Runs of the algorithms on bounded inputs: an input is picked and the    *)
(* properties of its part are evaluated on it.                             *)
(***************************************************************************)
EXTENDS Planning, Queries, Scores, TLC

Access == INSTANCE MC_Access
Archives == INSTANCE MC_Adapters
Outputs == INSTANCE MC_ZarrOutput
Ingestion == INSTANCE MC_Samples WITH Context <- 3, Target <- 2

CONSTANTS u1, u2, n1, n2, d1, d2, m1, m2, prof

VARIABLES part, input

Blank == [name |-> {}, unit |-> {}, dtype |-> {}, shape |-> {}, cadence |-> {}, frames |-> {},
          extent |-> {}]
Specs == {[Blank EXCEPT !.name = n, !.unit = u, !.cadence = c] :
            n \in Opt({n1}), u \in Opt({u1, u2}), c \in {{}, {0}, {5}}}
Package == [id |-> d1, offers |-> {}, requires |-> {}, fields |-> <<>>, input |-> <<>>,
            output |-> <<>>, cadence |-> {}, context |-> {}, target |-> {}, shape |-> {},
            extent |-> {}, domain |-> {}]
UpTo2(S) == {<<>>} \cup {<<a>> : a \in S} \cup {<<a, b>> : a \in S, b \in S}
FewSpecs == {s \in Specs : s.cadence # {0}}
Data(f, c) == [Package EXCEPT !.offers = {prof}, !.fields = f, !.cadence = c, !.shape = {u1}]
DataPackages == {Data(f, c) : f \in UpTo2(FewSpecs), c \in {{}, {5}, {10}}}
Model(f, c) ==
  [Package EXCEPT !.id = m1, !.requires = {prof}, !.output = f, !.cadence = c, !.shape = {u1}]
BareModel(f) == [Package EXCEPT !.requires = {prof}, !.output = f]
OneCadence == UpTo2({s \in Specs : s.cadence = {}}) \cup UpTo2({s \in Specs : s.cadence = {5}})
ModelPackages ==
  {Model(f, c) : f \in OneCadence, c \in {{}, {5}}} \cup {BareModel(f) : f \in UpTo2({Blank})}

Rulers == [unit : Opt({u1}), step : Opt({10}), extent : Opt({u2})]

Documents ==
  [foreignKeys : BOOLEAN, model : {{}, {m1}, {m2}}, data : {{}, {d1}, {d2}},
   start : {{}, {<<1, 0>>}, {<<2, 0>>}}, sample : Opt({n1}), horizon : {{}, {0}, {1}, {3}}]
Runs == {RunOf(doc) : doc \in {d \in Documents : ValidRun(d)}}
Member1 == [leads : {{2}, {2, 6}, {3, 7}}, from : {{}, {2}}, to : {{}, {1}}]
Configs == {[truth |-> d1, step |-> 2, roster |-> [n \in {m1} |-> m]] : m \in Member1}
Catalogs ==
  {<<>>, <<[Package EXCEPT !.offers = {prof}, !.cadence = {2}]>>,
   <<[Package EXCEPT !.offers = {prof}, !.cadence = {2}],
     [Package EXCEPT !.id = m1, !.requires = {prof}, !.cadence = {3}]>>}

Files == [real : {1, 2}, holds : {"unreadable", "unparsable", "foreign", "malformed", "ours"}]
SameFile(f, g) == f.real = g.real => f.holds = g.holds
Roots == [exists : BOOLEAN, files : {s \in UpTo2(Files) : Len(s) < 2 \/ SameFile(s[1], s[2])}]

\* Rows of three leads, three init times and two members; the sums tell every
\* selection of rows from every other, and one row has no samples.
Row(m, init, lead, level, sum) ==
  [member |-> m, init_time |-> init, valid_time |-> init + lead, lead_minutes |-> lead,
   level |-> level, sum |-> sum, n |-> IF sum = 32 THEN 0 ELSE 1]
Universe == {Row(1, 0, 1, 1, 1), Row(1, 0, 1, 2, 2), Row(1, 1, 2, 3, 4), Row(2, 2, 1, 1, 8),
             Row(2, 1, 3, 1, 32), Row(2, 0, 2, 2, 16), Row(2, 1, 1, 2, 64)}
Tables == {t \in SUBSET Universe : Cardinality(t) > 4}
NoQuery ==
  [lead_from |-> {}, lead_to |-> {}, time_from |-> {}, time_to |-> {}, init_from |-> {},
   init_to |-> {}, lead |-> <<>>, level |-> <<>>, half_window |-> <<>>, member |-> <<>>]
Ask(lf, lt, if, it, lv, m) ==
  [NoQuery EXCEPT !.lead_from = lf, !.lead_to = lt, !.init_from = if, !.init_to = it,
                  !.level = lv, !.member = m]
During(tf, tt) == [NoQuery EXCEPT !.time_from = tf, !.time_to = tt]
Queries1 ==
  {Ask(lf, lt, if, it, lv, m) :
     lf \in {{}, {2}}, lt \in {{}, {1}}, if \in {{}, {1}}, it \in {{}, {1}},
     lv \in {<<>>, <<1>>, <<1, 3>>}, m \in {<<>>, <<2>>, <<1, 2>>}}
  \cup {During(tf, tt) : tf \in {{}, {2}}, tt \in {{}, {3}}}
Expansions == {<<>>, <<"hour">>, <<"member", "init_time">>, <<"valid_time", "level">>,
               <<"half_window">>}
Planned == {t \in SUBSET {[init_time |-> i, lead_minutes |-> l, valid_time |-> i + l] :
                             i \in 0..2, l \in {1, 3}} : Cardinality(t) = 3}
Reviewed == [metrics |-> {"m"}, members |-> <<2, 1>>]

\* Fields of 2 x 2 cells: a value below and one above the level, NaN that is not
\* declared, and a value under the mask.
Axis2 == <<0, 2>>
Field(states) ==
  [lon |-> Axis2, lat |-> Axis2, unit |-> u1, variable |-> n1, time |-> 0,
   data |-> [c \in (1..2) \X (1..2) |-> CASE states[c] = "low" -> {0} [] states[c] = "nan" -> {}
                                           [] OTHER -> {8}],
   mask |-> LET m == {c \in (1..2) \X (1..2) : states[c] = "masked"} IN IF m = {} THEN {} ELSE {m}]
Fields(S) == {Field(states) : states \in [(1..2) \X (1..2) -> S]}
\* The sources' own grid, one with points between, and one that leaves the span.
Targets == {TargetCoords(<<0, 0, 2, 2>>, 2), TargetCoords(<<0, 0, 2, 2>>, 1),
            TargetCoords(<<1, -1, 3, 1>>, 1)}
\* Frames of 2 x 3 cells, of which some are not valid.
Frames23(S) == [(1..2) \X (1..3) -> S]
Valid23 == {{}, (1..2) \X (1..3), ((1..2) \X (1..3)) \ {<<1, 1>>}, ((1..2) \X (1..3)) \ {<<2, 2>>}}

MC_Init ==
  /\ part \in {"fields", "frames", "pairs", "ruler", "plan", "files", "query", "mesh", "chart", "access",
               "load", "output", "sevir", "cma", "weights"}
  /\ input = <<>>

PicksInput(p, S) ==
  part = p /\ input = <<>> /\ \E i \in S : input' = <<i>> /\ UNCHANGED part

MC_Next ==
  \/ PicksInput("pairs", DataPackages \X ModelPackages)
  \/ PicksInput("ruler", Rulers \X DataPackages)
  \/ PicksInput("plan", Configs \X Catalogs \X UpTo2(Runs))
  \/ PicksInput("files", {r \in Roots \X Roots : \A i \in 1..Len(r[1].files), j \in 1..Len(r[2].files) :
                       SameFile(r[1].files[i], r[2].files[j])})
  \/ PicksInput("query", Tables \X Queries1 \X Expansions)
  \/ PicksInput("mesh", Tables \X {q \in Queries1 : q.time_from \cup q.time_to = {} /\ q.level = <<>>} \X Planned)
  \/ PicksInput("chart", {t \in Tables : Cardinality(t) > 5} \X Queries1 \X {"lead_minutes", "hour", "valid_time"} \X {<<>>, <<"level">>})
  \/ PicksInput("fields", Fields({"low", "high", "nan", "masked"}) \X Fields({"low", "masked"}) \X Targets)
  \/ PicksInput("frames", Frames23({{0}, {3}}) \X Frames23({{0}, {3}}) \X Valid23)
  \/ PicksInput("access", Access!Providing)
  \/ \E source \in Archives!Sources \cup {"anywhere"} : PicksInput("load", Archives!Loads(source))
  \/ PicksInput("output", Outputs!Bundles \X Outputs!Yamls \X Outputs!Flags \X Outputs!Paths \X (0..2))
  \/ PicksInput("sevir", Ingestion!SevirFiles \X Ingestion!Catalogs \X (1..2))
  \/ PicksInput("cma", Ingestion!Directories \X {{}, {0}, {1}} \X (1..2))
  \/ PicksInput("weights", [complete : BOOLEAN, address : BOOLEAN] \X Opt({"pinned", "other"})
                            \X Opt({"pinned", "other"}) \X {"pinned", "other", "fails"})

MC_Spec == MC_Init /\ [][MC_Next]_<<part, input>>

Picked(p) == part = p /\ input # <<>>
given == input[1]

\* Catalogs with the pair, and with another data package of the same id before it;
\* a catalog lists data packages first.
PairCatalogs(data, model) ==
  {<<data, model>>, <<[data EXCEPT !.cadence = {10}], data, model>>}

\* The page and the planner judge a pair alike, an offered pair has its ruler's
\* step and unit unless the page warns, and filling in what a ruler leaves out
\* changes nothing it says (server/app.py, catalog/matching.py, core/planner.py).
PairsFitRuler ==
  /\ Picked("pairs") => \A ps \in PairCatalogs(given[1], given[2]) : PairFitsRuler(ps)
  /\ Picked("ruler") => FillingKeeps(given[1], given[2])

\* The plan, the offer and the execution agree on runs, rosters and horizons. Days
\* of 20, so that an init time and the longest lead stay in a day.
PlanIsExecuted ==
  Picked("plan") => /\ ExecutesThePlan(given[1], given[2], given[3])
                    /\ OfferedIsPlanned(given[1], given[2], given[3])
                    /\ \A observed \in {{22}, {21, 42}, 0..60} :
                         CoverageIsExact(given[1], given[2], given[3], observed, 20, 6)

\* The records of an answer sum every row that was asked for, each exactly once
\* (query/service.py, store/db.py).
AnswerIsTheSelection == Picked("query") => AnswersTheQuestion(given[1], Reviewed, given[2], given[3])

\* A mesh has the axes of the plan, failed runs included, and a chart draws the
\* answer with no line over a gap (report/).
ViewsShowAnswer ==
  /\ Picked("mesh") => ShowsThePlan(given[1], given[3], Reviewed, given[2])
  /\ Picked("chart") => \A room \in {2, 3} : ShowsTheAnswer(given[1], Reviewed, given[2], given[3], given[4], room)

\* A missing point is never scored as a number, through wire and regridding.
HoleStaysHole == Picked("fields") => HolesStay(given[1], given[2], given[3])

\* The families of quantities count the same points (core/quantities.py).
ScoresAgree == Picked("frames") => FamiliesAgree(given[1], given[2], given[3], 2, 3, 3)

\* Through the HTTP service and client a provider answers as it does directly.
RemoteIsDirect == Picked("access") => \A q \in Access!Requests : Access!RemoteAgrees(given, q)

\* What a provider lists it serves, whatever cadence and window are asked for.
ListedIsServed ==
  Picked("access") /\ given.kind # "platform" =>
    \A name \in {"obs", "sat"}, from \in -3..1, to \in {2, 5}, init \in -2..3 :
      Access!ListedIsServed(given, name, "model", from, to, init)

\* The checklist passes the providers that conform and no other (conformance.py).
ChecklistDecides == Picked("access") => \A days \in Access!Days : Access!CheckerDecides(given, days)

\* A load reads the files of its own times, channels and generation; a file that
\* arrives late changes no other time.
LoadFits ==
  Picked("load") => /\ Archives!LoadsTheRequest(given.r, given.archive, Archives!DayTicks)
                    /\ Archives!WindowIsIts(given.r, given.archive)
                    /\ \A f \in given.arrivals : Archives!ArrivalsKeep(given.r, given.archive, f, Archives!DayTicks)

\* A store that is complete holds the bundle; none is replaced unasked.
OutputFits == Picked("output") => Outputs!StoresTheBundle(given[1], given[2], given[3], given[4], given[5])

\* What lies on disk is taken once and as it says: each run and package under roots
\* that overlap (catalog/), the windows that are listed (ingestion/), the pinned
\* weights (utils/weights.py). Days of four cadences: windows of five frames cross
\* midnight.
FilesAgree ==
  /\ Picked("files") => TakenOnce(given)
  /\ Picked("sevir") => Ingestion!SevirAgrees(given[1], given[2], given[3])
  /\ Picked("cma") => Ingestion!CmaAgrees(given[1], Ingestion!Month, 4, given[2], given[3])
  /\ Picked("weights") => Ingestion!RunsOnThePin(given[1], given[2], given[3], given[4])

\* What access/base.py says: a missing forecast is told apart from a missing
\* observation.
GapIsObservation ==
  Picked("access") /\ given.kind # "platform" => \A lead \in 1..4 : Access!NotesObservation(given, "obs", "dBZ", "model", 0, lead)
=============================================================================

------------------------------- MODULE Queries -------------------------------
(***************************************************************************)
(* Reading the store of nib_verify: a query of the page as filters         *)
(* (server/app.py), the sums it gives (query/service.py, store/db.py), and *)
(* what is drawn of them (report/).                                        *)
(*                                                                         *)
(* Times are hours, of which Day make a day; members are numbers in the    *)
(* order of their names. A row of a family's table has its dimensions, one *)
(* additive quantity and a count of samples. A value that may be missing   *)
(* is a set of at most one element.                                        *)
(***************************************************************************)
EXTENDS Integers, Sequences, SequencesExt, FiniteSetsExt

CONSTANT Day
ASSUME DayAssumption == Day \in Nat \ {0}

Common == {"group_id", "member", "init_time", "valid_time", "lead_minutes"}
KeyColumns(family) ==
  Common \cup (IF family \in {"categorical", "spatial"} THEN {"level"} ELSE {})
         \cup (IF family = "spatial" THEN {"half_window"} ELSE {})
Groupable(family) == (KeyColumns(family) \ {"group_id"}) \cup {"hour"}
-----------------------------------------------------------------------------
(***************************************************************************)
(* Filters. A filter is a range or a list.                                 *)
(***************************************************************************)
Between(lo, hi) == [range |-> TRUE, lo |-> lo, hi |-> hi, list |-> {}]
Among(S) == [range |-> FALSE, lo |-> 0, hi |-> 0, list |-> S]

Fits(v, filter) ==
  \/ filter.range /\ filter.lo <= v /\ v <= filter.hi
  \/ ~filter.range /\ v \in filter.list

Default(o, d) == IF o = {} THEN d ELSE CHOOSE v \in o : TRUE
Ever == 1000  \* beyond every time and lead

\* _filters_from_query: a list of values for each filter that the query has.
FiltersFromQuery(q) ==
  LET given ==
        [dtime |-> IF q.lead_from # {} \/ q.lead_to # {}
                   THEN <<Default(q.lead_from, 0), Default(q.lead_to, Ever)>> ELSE q.lead,
         level |-> q.level,
         half_window |-> q.half_window,
         member |-> q.member,
         time |-> IF q.time_from # {} \/ q.time_to # {}
                  THEN <<Default(q.time_from, 0), Default(q.time_to, Ever)>> ELSE <<>>,
         init_time |-> IF q.init_from # {} \/ q.init_to # {}
                       THEN <<Default(q.init_from, 0), Default(q.init_to, Ever)>> ELSE <<>>]
  IN [f \in {n \in DOMAIN given : given[n] # <<>>} |-> given[f]]

AsRange(list) == IF Len(list) = 2 THEN Between(list[1], list[2]) ELSE Among(ToSet(list))

Column(name) ==
  CASE name = "time" -> "valid_time" [] name = "dtime" -> "lead_minutes" [] OTHER -> name

TranslateSlip(s) ==
  [c \in {Column(n) : n \in DOMAIN s} |-> AsRange(s[CHOOSE n \in DOMAIN s : Column(n) = c])]

\* _translate: two values of a time or of a lead are the ends of a range.
Translate(s) ==
  [c \in {Column(n) : n \in DOMAIN s} |->
     LET list == s[CHOOSE n \in DOMAIN s : Column(n) = c]
     IN IF c \in {"valid_time", "init_time", "lead_minutes"} THEN AsRange(list)
        ELSE Among(ToSet(list))]

\* _build_where
Where(table, filters) ==
  {r \in table : \A c \in DOMAIN filters : Fits(r[c], filters[c])}
-----------------------------------------------------------------------------
(***************************************************************************)
(* Sums.                                                                   *)
(***************************************************************************)
\* The hour is the hour the run started.
Selected(row, dim) == IF dim = "hour" THEN row["init_time"] % Day ELSE row[dim]
At(row, dims) == [d \in dims |-> Selected(row, d)]
Total(rows, field) == FoldSet(LAMBDA r, sum : sum + r[field], 0, rows)

\* sum_rows: without a GROUP BY there is one row, also of nothing.
SumRows(table, filters, dims) ==
  LET rows == Where(table, filters)
      keys == IF dims = {} THEN {<<>>} ELSE {At(r, dims) : r \in rows}
      Of(key) == {r \in rows : dims = {} \/ At(r, dims) = key}
  IN {[at |-> key, sum |-> Total(Of(key), "sum"), n |-> Total(Of(key), "n")] : key \in keys}

\* query_scores, for a config (whose group the rows are of) and a method of a
\* family: why it is refused, or the records. A score of no samples is null.
QueryScores(table, cfg, method, family, s, g, limit) ==
  LET refused == {e \in {"metric", "dimension"} :
                    \/ e = "metric" /\ method \notin cfg.metrics
                    \/ e = "dimension" /\ ~(ToSet(g) \subseteq Groupable(family))}
      rows == IF refused = {} THEN SumRows(table, Translate(s), ToSet(g)) ELSE {}
      over == Cardinality(rows) > limit
  IN [refused |-> refused \cup (IF over THEN {"limit"} ELSE {}),
      records |-> IF over THEN {} ELSE
                  {[at |-> r.at, value |-> IF r.n = 0 THEN {} ELSE {r.sum}, n |-> r.n] : r \in rows}]

\* task_axes: a range narrows the plan, a list does not.
TaskAxes(tasks, filters) ==
  LET asked == {t \in tasks : \A c \in DOMAIN filters \cap {"init_time", "lead_minutes"} :
                                filters[c].range => Fits(t[c], filters[c])}
  IN [times |-> {t["init_time"] : t \in asked}, leads |-> {t["lead_minutes"] : t \in asked}]
-----------------------------------------------------------------------------
(***************************************************************************)
(* Pictures.                                                               *)
(***************************************************************************)
Sorted(S) == SetToSortSeq(S, <)
Before(k, l) == \E i \in DOMAIN k : k[i] < l[i] /\ \A j \in 1..i - 1 : k[j] = l[j]
KeyOf(record, dims) == [i \in DOMAIN dims |-> record.at[dims[i]]]

UnwidenedSlip(seen, planned) == Sorted(seen)

\* An axis has what came back and what the plan contains.
Axis(seen, planned) == Sorted(seen \cup planned)

\* mesh_for: one panel for each value of the panel dimensions, and its cells.
MeshFor(answer, tasks, cfg, s, x, y, panelDims) ==
  LET records == answer.records
      seen == {KeyOf(r, panelDims) : r \in records}
      plan == TaskAxes(tasks, Translate(s))
      xs == Axis({r.at[x] : r \in records}, plan.times)
      ys == Axis({r.at[y] : r \in records}, plan.leads)
      Cells(key) == {r \in records : KeyOf(r, panelDims) = key}
      Cell(key, at) == CHOOSE r \in Cells(key) : <<r.at[x], r.at[y]>> = at
      panels == [key \in IF seen = {} THEN {<<m>> : m \in ToSet(cfg.members)} ELSE seen |->
                   [at \in {<<r.at[x], r.at[y]>> : r \in Cells(key)} |-> Cell(key, at).value]]
  IN [xs |-> xs, ys |-> ys, panels |-> panels,
      complete |-> \A key \in DOMAIN panels :
                     Cardinality(DOMAIN panels[key]) = Len(xs) * Len(ys)]

\* The places on the axis of what is not a number.
Position(dim, values, v) ==
  IF dim \in {"init_time", "valid_time", "member"} THEN Cardinality({w \in values : w < v}) ELSE v

XDomain(x) == IF x = "hour" THEN 0..Day - 1 ELSE {}

\* from_query: a series for each value of the series' dimensions, the roster's
\* members first, each with a point at every place of the axis.
FromQuery(records, x, series, order) ==
  LET values == {r.at[x] : r \in records}
      places == Sorted({Position(x, values, v) : v \in values} \cup XDomain(x))
      keys == {KeyOf(r, series) : r \in records}
      wanted == SelectSeq([i \in DOMAIN order |-> <<order[i]>>], LAMBDA k : k \in keys)
      walking == wanted \o SetToSortSeq(keys \ ToSet(wanted), Before)
      Here(key, place) == {r \in records : KeyOf(r, series) = key
                                           /\ Position(x, values, r.at[x]) = place}
  IN [xs |-> places,
      series |-> [i \in DOMAIN walking |->
                    [label |-> walking[i],
                     points |-> [j \in DOMAIN places |->
                                   UNION {r.value : r \in Here(walking[i], places[j])}]]]]

\* chart_for and chart_panels: a chart for each value of the panel dimensions.
ChartPanels(records, cfg, x, series, panelDims) ==
  LET keys == SetToSortSeq({KeyOf(r, panelDims) : r \in records}, Before)
  IN IF panelDims = <<>> THEN <<FromQuery(records, x, series, cfg.members)>>
     ELSE [i \in DOMAIN keys |->
             FromQuery({r \in records : KeyOf(r, panelDims) = keys[i]}, x, series, cfg.members)]

JoinedSlip(points) ==
  LET defined == SetToSortSeq({i \in DOMAIN points : points[i] # {}}, <)
  IN IF defined = <<>> THEN <<>> ELSE <<defined>>

\* _runs: a line's stretches with no gap in them, as places.
Stretches(points) ==
  LET Step(acc, i) ==
        IF points[i] # {} THEN [acc EXCEPT !.current = Append(@, i)]
        ELSE [runs |-> IF acc.current = <<>> THEN acc.runs ELSE Append(acc.runs, acc.current),
              current |-> <<>>]
      last == FoldLeft(Step, [runs |-> <<>>, current |-> <<>>], [i \in DOMAIN points |-> i])
  IN IF last.current = <<>> THEN last.runs ELSE Append(last.runs, last.current)

\* _x_ticks: every n-th value, and the last.
XTicks(xs, budget) ==
  LET room == IF budget > 1 THEN budget - 1 ELSE 1
      stride == (Len(xs) - 1 + room - 1) \div room  \* rounded up
      chosen == [k \in 1..((Len(xs) - 1) \div stride) + 1 |-> xs[(k - 1) * stride + 1]]
  IN CASE Len(xs) <= budget -> xs
       [] Len(xs) > budget /\ Last(chosen) = Last(xs) -> chosen
       [] OTHER -> Append(chosen, Last(xs))
-----------------------------------------------------------------------------
\* A filter of the page, as its fields say it: a range by its ends, a list by
\* its members (the page sends leads as a range only).
Picks(q, row) ==
  LET From(o, v) == \A b \in o : b <= v
      To(o, v) == \A b \in o : v <= b
      In(list, v) == list = <<>> \/ v \in ToSet(list)
  IN /\ From(q.lead_from, row["lead_minutes"]) /\ To(q.lead_to, row["lead_minutes"])
     /\ From(q.init_from, row["init_time"]) /\ To(q.init_to, row["init_time"])
     /\ From(q.time_from, row["valid_time"]) /\ To(q.time_to, row["valid_time"])
     /\ In(q.level, row["level"]) /\ In(q.member, row["member"])

\* Every stored row that the page asked for is in one record and no other row
\* is, whatever the expansion: a record has the sums of the rows of its values,
\* and its hour is the one the run started at (query_scores over
\* _filters_from_query and sum_rows).
AnswersTheQuestion(table, cfg, q, g) ==
  LET answer == QueryScores(table, cfg, "m", "categorical", FiltersFromQuery(q), g, Ever)
      asked == {r \in table : Picks(q, r)}
      Has(record, row) == \A d \in ToSet(g) :
        record.at[d] = IF d = "hour" THEN row["init_time"] % Day ELSE row[d]
      Rows(record) == {r \in asked : Has(record, r)}
  IN answer.refused = {} =>
       /\ \A r \in asked : Cardinality({c \in answer.records : Has(c, r)}) = 1
       /\ \A c \in answer.records :
            /\ c.n = Total(Rows(c), "n") /\ (g # <<>> => Rows(c) # {})
            /\ c.value = IF c.n = 0 THEN {} ELSE {Total(Rows(c), "sum")}

\* Every planned init time and lead that the page's ranges take in is on the
\* axes of the grid, so that a run that stored nothing is a gap and never a
\* column that is not there; every record is one cell of one panel; and a grid
\* says it is complete only when nothing of the plan is missing.
ShowsThePlan(table, tasks, cfg, q) ==
  LET s == FiltersFromQuery(q)
      answer == QueryScores(table, cfg, "m", "categorical", s, <<"member", "lead_minutes", "init_time">>, Ever)
      mesh == MeshFor(answer, tasks, cfg, s, "init_time", "lead_minutes", <<"member">>)
      planned == {t \in tasks : Picks([q EXCEPT !.level = <<>>, !.member = <<>>], t)}
  IN answer.refused = {} =>
       /\ \A t \in planned : t["init_time"] \in ToSet(mesh.xs) /\ t["lead_minutes"] \in ToSet(mesh.ys)
       /\ \A key \in DOMAIN mesh.panels :
            DOMAIN mesh.panels[key] \subseteq ToSet(mesh.xs) \X ToSet(mesh.ys)
       /\ \A r \in answer.records :
            mesh.panels[<<r.at["member"]>>][<<r.at["init_time"], r.at["lead_minutes"]>>] = r.value
       /\ mesh.complete => \A t \in planned, key \in DOMAIN mesh.panels :
            <<t["init_time"], t["lead_minutes"]>> \in DOMAIN mesh.panels[key]

\* A chart has a point for every record of a value, in one panel, and no other;
\* a line is drawn between two points only when there is no gap between them;
\* and the labelled places are places of the data, both ends among them.
ShowsTheAnswer(table, cfg, q, x, panelDims, budget) ==
  LET answer == QueryScores(table, cfg, "m", "categorical", FiltersFromQuery(q),
                            panelDims \o <<"member", x>>, Ever)
      charts == ChartPanels(answer.records, cfg, x, <<"member">>, panelDims)
      Points(c) == {p \in (DOMAIN c.series) \X (DOMAIN c.xs) : c.series[p[1]].points[p[2]] # {}}
      drawn == MapThenSumSet(LAMBDA k : Cardinality(Points(charts[k])), DOMAIN charts)
  IN answer.refused = {} =>
       /\ drawn = Cardinality({r \in answer.records : r.value # {}})
       /\ \A r \in answer.records : \E k \in DOMAIN charts : \E i \in DOMAIN charts[k].series :
            /\ charts[k].series[i].label = <<r.at["member"]>>
            /\ r.value = {} \/ r.value \in ToSet(charts[k].series[i].points)
       /\ \A k \in DOMAIN charts :
            /\ LET ticks == XTicks(charts[k].xs, budget)
               IN /\ ToSet(ticks) \subseteq ToSet(charts[k].xs) /\ Len(ticks) <= budget
                  /\ charts[k].xs # <<>> => {charts[k].xs[1], Last(charts[k].xs)} \subseteq ToSet(ticks)
            /\ \A i \in DOMAIN charts[k].series :
                 LET points == charts[k].series[i].points
                     Gapless(a, b) == \A j \in a..b : points[j] # {}
                     Joined(a, b) == \E run \in ToSet(Stretches(points)) : {a, b} \subseteq ToSet(run)
                 IN \A a, b \in DOMAIN points : a <= b => (Gapless(a, b) <=> Joined(a, b))
=============================================================================

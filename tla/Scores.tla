------------------------------- MODULE Scores -------------------------------
(***************************************************************************)
(* From two fields to the numbers the store keeps: the wire format         *)
(* (access/wire.py), the common grid (core/regrid.py), the additive        *)
(* quantities (core/quantities.py), one task of the executor, and the      *)
(* metrics over sums (core/metrics.py).                                    *)
(*                                                                         *)
(* A value is a set of at most one number, and NaN is the empty set. A     *)
(* field has a value at each <<row, column>>; its mask is absent or a set  *)
(* of cells. Coordinates are integers and values such that interpolation   *)
(* is exact.                                                               *)
(***************************************************************************)
EXTENDS Integers, Sequences, FiniteSets, FiniteSetsExt

Rows(f) == 1..Len(f.lat)
Columns(f) == 1..Len(f.lon)
Cells(f) == Rows(f) \X Columns(f)
Increasing(axis) == Len(axis) >= 2 /\ \A i \in 2..Len(axis) : axis[i - 1] < axis[i]

\* Coords and Field: what their constructors let through.
ValidField(f) ==
  /\ Increasing(f.lon) /\ Increasing(f.lat)
  /\ DOMAIN f.data = Cells(f) /\ \A m \in f.mask : m \subseteq Cells(f)

Holes(f) == UNION f.mask
\* Field.values: never a number under the mask.
Values(f) == [c \in Cells(f) |-> IF c \in Holes(f) THEN {} ELSE f.data[c]]
-----------------------------------------------------------------------------
(***************************************************************************)
(* The wire.                                                               *)
(***************************************************************************)
\* encode_field: the data as it stands, fill values and all.
EncodeField(f) ==
  [lon |-> f.lon, lat |-> f.lat, values |-> f.data, mask |-> f.mask,
   texts |-> {"name", "variable", "unit"}, zoned |-> TRUE,
   unit |-> f.unit, variable |-> f.variable, time |-> f.time]

\* decode_field: a payload that breaks the contract is a WireError.
Decodes(obj) ==
  /\ Increasing(obj.lon) /\ Increasing(obj.lat)
  /\ DOMAIN obj.values = (1..Len(obj.lat)) \X (1..Len(obj.lon))
  /\ \A m \in obj.mask : m \subseteq DOMAIN obj.values
  /\ {"name", "variable", "unit"} \subseteq obj.texts /\ obj.zoned

TrustedSlip(obj) == UNION obj.mask

\* Its one leniency: NaN that nothing declared missing is missing.
MissingPoints(obj) == (UNION obj.mask) \cup {c \in DOMAIN obj.values : obj.values[c] = {}}

DecodeField(obj) ==
  [lon |-> obj.lon, lat |-> obj.lat, data |-> obj.values,
   mask |-> IF MissingPoints(obj) = {} THEN {} ELSE {MissingPoints(obj)},
   unit |-> obj.unit, variable |-> obj.variable, time |-> obj.time]
-----------------------------------------------------------------------------
(***************************************************************************)
(* The common grid.                                                        *)
(***************************************************************************)
\* Python's round: to the even one of two that are as near.
Round(n, d) ==
  LET q == n \div d  r == n % d
  IN IF 2 * r < d \/ (2 * r = d /\ q % 2 = 0) THEN q ELSE q + 1

RegularAxis(a, b, step) ==
  [i \in 1..(IF Round(b - a, step) < 1 THEN 2 ELSE Round(b - a, step) + 1) |-> a + step * (i - 1)]

\* target_coords, for an extent <<lon0, lat0, lon1, lat1>>.
TargetCoords(extent, resolution) ==
  [lon |-> RegularAxis(extent[1], extent[3], resolution),
   lat |-> RegularAxis(extent[2], extent[4], resolution)]

InRange(src, at) == src[1] <= at /\ at <= src[Len(src)]

\* _interp_1d: np.interp, which is exact on a source point, is NaN beside one,
\* and takes the end value outside.
Interpolate(src, values, at) ==
  LET below == {i \in 1..Len(src) : src[i] <= at}
      i == IF below = {} THEN 1 ELSE Max(below)
  IN IF below = {} \/ i = Len(src) \/ src[i] = at THEN values[i]
     ELSE {v + ((w - v) * (at - src[i])) \div (src[i + 1] - src[i]) :
             v \in values[i], w \in values[i + 1]}

\* The target points outside the source's span (nearest_index).
Outside(f, target) ==
  {c \in Cells(target) : ~InRange(f.lat, target.lat[c[1]]) \/ ~InRange(f.lon, target.lon[c[2]])}

\* regrid: a copy on the same grid, else along the rows and then the columns.
Regrid(f, target) ==
  LET values == Values(f)
      Along(r, x) == Interpolate(f.lon, [i \in Columns(f) |-> values[<<r, i>>]], x)
      out == [c \in Cells(target) |->
                Interpolate(f.lat, [r \in Rows(f) |-> Along(r, target.lon[c[2]])], target.lat[c[1]])]
      mask == Outside(f, target) \cup {c \in Cells(target) : out[c] = {}}
  IN IF f.lon = target.lon /\ f.lat = target.lat THEN f
     ELSE [f EXCEPT !.lon = target.lon, !.lat = target.lat, !.mask = {mask},
                    !.data = [c \in Cells(target) |-> IF c \in mask THEN {} ELSE out[c]]]

\* align_pair: a point is used only when both sides have a value there.
ValidPoints(truth, prediction) == Cells(truth) \ (Holes(truth) \cup Holes(prediction))

Aligns(truth, prediction) ==
  truth.time = prediction.time /\ truth.variable = prediction.variable /\ truth.unit = prediction.unit
-----------------------------------------------------------------------------
(***************************************************************************)
(* Quantities of one frame, over the valid points.                         *)
(***************************************************************************)
Num(o) == CHOOSE v \in o : TRUE
AtLeast(o, level) == \E v \in o : v >= level
Abs(n) == IF n < 0 THEN -n ELSE n
Sum(f(_), S) == MapThenSumSet(f, S)

Categorical(t, p, level, valid) ==
  LET Where2(inT, inP) == Cardinality({c \in valid : AtLeast(t[c], level) = inT /\ AtLeast(p[c], level) = inP})
  IN [H |-> Where2(TRUE, TRUE), F |-> Where2(FALSE, TRUE),
      M |-> Where2(TRUE, FALSE), C |-> Where2(FALSE, FALSE)]

Continuous(t, p, valid) ==
  LET d(c) == Num(p[c]) - Num(t[c])
  IN [T |-> Cardinality(valid), E |-> Sum(d, valid), A |-> Sum(LAMBDA c : Abs(d(c)), valid),
      S |-> Sum(LAMBDA c : d(c) * d(c), valid)]

Moments(t, p, valid) ==
  LET x(c) == Num(t[c])
      y(c) == Num(p[c])
  IN [T |-> Cardinality(valid), MX |-> Sum(x, valid), MY |-> Sum(y, valid),
      SX |-> Sum(LAMBDA c : x(c) * x(c), valid), SY |-> Sum(LAMBDA c : y(c) * y(c), valid),
      SXY |-> Sum(LAMBDA c : x(c) * y(c), valid)]

\* box_sum: each (2h+1) x (2h+1) window from four corners of the prefix sums of
\* the padded array, here of a function on a grid of ny x nx cells.
BoxSum(a, ny, nx, h) ==
  LET padded == [c \in (1..ny + 2 * h) \X (1..nx + 2 * h) |->
                   IF <<c[1] - h, c[2] - h>> \in (1..ny) \X (1..nx) THEN a[c[1] - h, c[2] - h] ELSE 0]
      along[i \in 1..ny + 2 * h, j \in 0..nx + 2 * h] ==
        IF j = 0 THEN 0 ELSE along[i, j - 1] + padded[i, j]
      cum[i \in 0..ny + 2 * h, j \in 0..nx + 2 * h] ==
        IF i = 0 THEN 0 ELSE cum[i - 1, j] + along[i, j]
      k == 2 * h + 1
  IN IF h <= 0 THEN a ELSE
     [c \in (1..ny) \X (1..nx) |->
        cum[c[1] - 1 + k, c[2] - 1 + k] - cum[c[1] - 1, c[2] - 1 + k]
          - cum[c[1] - 1 + k, c[2] - 1] + cum[c[1] - 1, c[2] - 1]]

WholeSlip(covered, h) == covered = (2 * h + 1) * (2 * h + 1)

\* MIN_COVERAGE is three fifths of a window.
ThickEnough(covered, h) == 5 * covered >= 3 * (2 * h + 1) * (2 * h + 1)

\* The fractions of a window are numbers of valid cells of its valid cells, so
\* at most nine of nine: they are kept as multiples of 1/Scale.
Scale == 2520

\* spatial, with window_mean for both sides.
Spatial(t, p, level, h, valid, ny, nx) ==
  LET grid == (1..ny) \X (1..nx)
      In(o, c) == c \in valid /\ AtLeast(o, level)
      covered == BoxSum([c \in grid |-> IF c \in valid THEN 1 ELSE 0], ny, nx, h)
      ones(o) == BoxSum([c \in grid |-> IF In(o[c], c) THEN 1 ELSE 0], ny, nx, h)
      ok == {c \in grid : ThickEnough(covered[c], h)}
      o(c) == (ones(t)[c] * Scale) \div covered[c]
      f(c) == (ones(p)[c] * Scale) \div covered[c]
  IN [pob |-> Sum(LAMBDA c : o(c) * o(c), ok), pfo |-> Sum(LAMBDA c : f(c) * f(c), ok),
      fbs |-> Sum(LAMBDA c : (o(c) - f(c)) * (o(c) - f(c)), ok), n_valid |-> Cardinality(ok)]

\* accumulate: every requested family, keyed as the family says.
Accumulate(t, p, valid, ny, nx, families, levels, windows) ==
  [family \in families |->
     CASE family = "spatial" -> [k \in levels \X windows |-> Spatial(t, p, k[1], k[2], valid, ny, nx)]
       [] family = "yes_or_no" -> [k \in levels |-> Categorical(t, p, k, valid)]
       [] family = "moments" -> [k \in {0} |-> Moments(t, p, valid)]
       [] family = "continuous" -> [k \in {0} |-> Continuous(t, p, valid)]]

\* _run_one: an error, nothing to score, or the rows it commits.
RunOne(truth, prediction, target, unit, families, levels, windows) ==
  LET t == Regrid(truth, target)
      p == Regrid(prediction, target)
      valid == ValidPoints(t, p)
  IN CASE truth.unit # unit \/ ~Aligns(truth, prediction) -> [outcome |-> "failed", rows |-> <<>>]
       [] truth.unit = unit /\ Aligns(truth, prediction) /\ valid = {} ->
            [outcome |-> "unavailable", rows |-> <<>>]
       [] OTHER ->
            [outcome |-> "done",
             rows |-> Accumulate(Values(t), Values(p), valid, Len(target.lat), Len(target.lon),
                                 families, levels, windows)]
-----------------------------------------------------------------------------
(***************************************************************************)
(* Metrics: a numerator and a denominator, or nothing (NaN).               *)
(***************************************************************************)
Fraction(num, den) == IF den > 0 THEN {<<num, den>>} ELSE {}

csi(q) == Fraction(q.H, q.H + q.F + q.M)
bias(q) == Fraction(q.H + q.F, q.H + q.M)
pod(q) == Fraction(q.H, q.H + q.M)
far(q) == Fraction(q.F, q.H + q.F)
ets(q) ==  \* both sides of the fraction times the number of points
  LET n == q.H + q.F + q.M + q.C
      random == (q.H + q.F) * (q.H + q.M)
  IN Fraction(n * q.H - random, n * (q.H + q.F + q.M) - random)
dts(q) ==
  LET yes == q.H + q.F + q.M
      no == q.M + q.F + q.C
  IN IF yes = 0 \/ no = 0 THEN {} ELSE Fraction(q.H * no + q.C * yes, 2 * yes * no)
me(q) == Fraction(q.E, q.T)
mae(q) == Fraction(q.A, q.T)
rmse(q) == Fraction(q.S, q.T)  \* its square
corr(q) ==  \* its square, with the sign of the covariance
  LET cov == q.T * q.SXY - q.MX * q.MY
      vx == q.T * q.SX - q.MX * q.MX
      vy == q.T * q.SY - q.MY * q.MY
  IN IF q.T = 0 \/ vx <= 0 \/ vy <= 0 THEN {} ELSE Fraction(cov * Abs(cov), vx * vy)
fss(q) == Fraction(q.pob + q.pfo - q.fbs, q.pob + q.pfo)
-----------------------------------------------------------------------------
\* A hole stays a hole: a point of the common grid counts when, and only when,
\* it lies in the span of both sources and every source value it is made of is
\* there on both sides; a point that counts has a number on both sides; and a
\* frame without such a point is unavailable, never a score of zero.
HolesStay(truth, prediction, target) ==
  LET t0 == DecodeField(EncodeField(truth))
      p0 == DecodeField(EncodeField(prediction))
      t == Regrid(t0, target)
      p == Regrid(p0, target)
      Near(axis, at) == {i \in 1..Len(axis) :
                           \/ axis[i] = at
                           \/ i > 1 /\ axis[i - 1] < at /\ at < axis[i]
                           \/ i < Len(axis) /\ axis[i] < at /\ at < axis[i + 1]}
      There(f, c) ==
        LET from == Near(f.lat, target.lat[c[1]]) \X Near(f.lon, target.lon[c[2]])
        IN from # {} /\ \A s \in from : s \notin Holes(f) /\ f.data[s] # {}
      real == {c \in Cells(target) : There(truth, c) /\ There(prediction, c)}
      out == RunOne(t0, p0, target, truth.unit, {"yes_or_no"}, {0}, {})
  IN /\ Decodes(EncodeField(truth)) /\ ValidField(t0) /\ ValidField(t)
     /\ ValidPoints(t, p) = real
     /\ \A c \in real : Values(t)[c] # {} /\ Values(p)[c] # {}
     /\ out.outcome = "unavailable" <=> real = {}

\* a/b <= c/d, for fractions that are there
Leq(a, b) == \A x \in a, y \in b : x[1] * y[2] <= y[1] * x[2]

\* The families of one frame tell one story: they count the same points; a
\* window of one cell gives the contingency table again and any window is the
\* sum of its cells; and the scores over them keep the order their definitions
\* have (a perfect forecast scores one and only it, no threat score is above the
\* detection it is part of, the mean error is inside the absolute one and that
\* inside the root mean square, the correlation is at most one).
FamiliesAgree(t, p, valid, ny, nx, level) ==
  \A q \in {Accumulate(t, p, valid, ny, nx, {"continuous", "yes_or_no", "moments", "spatial"},
                      {level}, {0, 1})} :
  LET yes == q["yes_or_no"][level]
      con == q["continuous"][0]
      mom == q["moments"][0]
      one == q["spatial"][level, 0]
      wide == q["spatial"][level, 1]
      Square == Scale * Scale
      grid == (1..ny) \X (1..nx)
      window(c) == {d \in grid : Abs(d[1] - c[1]) <= 1 /\ Abs(d[2] - c[2]) <= 1}
      ok == {c \in grid : 5 * Cardinality(window(c) \cap valid) >= 27}
      part(o, c) == (Cardinality({d \in window(c) \cap valid : AtLeast(o[d], level)}) * Scale)
                      \div Cardinality(window(c) \cap valid)
      unit == {<<1, 1>>}
  IN /\ yes.H + yes.F + yes.M + yes.C = con.T /\ con.T = mom.T /\ mom.T = one.n_valid
     /\ one.pob = Square * (yes.H + yes.M) /\ one.pfo = Square * (yes.H + yes.F)
     /\ one.fbs = Square * (yes.F + yes.M)
     /\ wide.n_valid = Cardinality(ok)
     /\ wide.pob = Sum(LAMBDA c : part(t, c) * part(t, c), ok)
     /\ wide.fbs = Sum(LAMBDA c : (part(t, c) - part(p, c)) * (part(t, c) - part(p, c)), ok)
     /\ con.E = mom.MY - mom.MX /\ con.S = mom.SX + mom.SY - 2 * mom.SXY
     /\ Leq(csi(yes), pod(yes)) /\ Leq(pod(yes), unit) /\ Leq(ets(yes), csi(yes))
     /\ \A v \in far(yes), w \in csi(yes) : w[1] * v[2] <= (v[2] - v[1]) * w[2]
     /\ \A v \in csi(yes) : (v[1] = v[2]) <=> (yes.F = 0 /\ yes.M = 0)
     /\ Leq(dts(yes), unit) /\ Leq(unit, csi(yes)) => Leq(unit, dts(yes)) /\ Leq(unit, bias(yes))
     /\ \A a \in me(con), b \in mae(con), c \in rmse(con) :
          Abs(a[1]) <= b[1] /\ b[1] * b[1] * c[2] <= c[1] * b[2] * b[2]
     /\ Leq(corr(mom), unit) /\ Leq(fss(one), unit)
=============================================================================

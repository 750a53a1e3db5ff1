-------------------------- MODULE Algorithms_proofs --------------------------
(***************************************************************************)
(* The laws of catalog, plan, access service, common grid, answers and     *)
(* loads, for every input that the code lets through, and from them that   *)
(* properties of MC_Algorithms hold of its runs. The first section has     *)
(* what the others share. A field spec may be anything: only which keys it *)
(* has counts.                                                             *)
(***************************************************************************)
EXTENDS MC_Algorithms, FiniteSetTheorems, WellFoundedInduction, TLAPS

\* A non-empty set of places has a first one.
LEMMA FirstPlace ==
  ASSUME NEW n \in Nat, NEW I \in SUBSET (1..n), I # {}
  PROVE  \E k \in I : \A j \in I : k <= j
<1>1. I \subseteq Nat /\ \E e : e \in I
  OBVIOUS
<1>2. PICK k \in I : \A j \in I : ~(<<j, k>> \in OpToRel(<, Nat))
  BY <1>1, NatLessThanWellFounded, WFMin, Zenon
<1>3. \A j \in I : ~(j < k)
  BY <1>1, <1>2 DEF OpToRel
<1>4. \A j \in I : k <= j
  BY <1>3
<1>. QED
  BY <1>4

\* Appending leaves the places of the first in front.
LEMMA Concatenated ==
  ASSUME NEW S, NEW s \in Seq(S), NEW t \in Seq(S)
  PROVE  /\ s \o t \in Seq(S) /\ Len(s \o t) = Len(s) + Len(t)
         /\ \A k \in 1..Len(s) : (s \o t)[k] = s[k]
OBVIOUS

LEMMA FrontStays ==
  ASSUME NEW S, NEW s \in Seq(S), NEW t \in Seq(S), NEW u \in Seq(S)
  PROVE  /\ s \o t \o u \in Seq(S) /\ Len(s) \in Nat /\ Len(s \o t \o u) \in Nat
         /\ Len(s) <= Len(s \o t \o u)
         /\ \A k \in 1..Len(s) : (s \o t \o u)[k] = s[k]
<1> DEFINE st == s \o t
<1>1. st \in Seq(S) /\ Len(st) = Len(s) + Len(t) /\ \A k \in 1..Len(s) : st[k] = s[k]
  BY Concatenated
<1> HIDE DEF st
<1>2. /\ st \o u \in Seq(S) /\ Len(st \o u) = Len(st) + Len(u)
      /\ \A k \in 1..Len(st) : (st \o u)[k] = st[k]
  BY <1>1, Concatenated
<1>3. Len(s) \in Nat /\ Len(t) \in Nat /\ Len(u) \in Nat
  OBVIOUS
<1>4. Len(st) \in Nat /\ Len(st \o u) \in Nat /\ Len(s) <= Len(st) /\ Len(st) <= Len(st \o u)
  BY <1>1, <1>2, <1>3
<1>5. \A k \in 1..Len(s) : k \in 1..Len(st)
  BY <1>3, <1>4
<1>6. \A k \in 1..Len(s) : (st \o u)[k] = s[k]
  BY <1>1, <1>2, <1>5
<1>. QED
  BY <1>2, <1>3, <1>4, <1>6 DEF st

LEMMA FirstPlaces ==
  ASSUME NEW n \in Nat, NEW I \in SUBSET (1..n)
  PROVE  /\ I = {} => {k \in I : \A j \in I : k <= j} = {}
         /\ I # {} => \E k \in I : /\ {i \in I : \A j \in I : i <= j} = {k}
                                   /\ \A j \in I : k <= j
<1>1. CASE I = {}
  BY <1>1
<1>2. CASE I # {}
  <2>1. PICK k \in I : \A j \in I : k <= j
    BY <1>2, FirstPlace
  <2>2. ASSUME NEW i \in I, \A j \in I : i <= j
        PROVE  i = k
    BY <2>1, <2>2
  <2>. QED
    BY <1>2, <2>1, <2>2
<1>. QED
  BY <1>1, <1>2

-----------------------------------------------------------------------------
(***************************************************************************)
(* Packages.                                                               *)
(***************************************************************************)
SpecsIn(p, F) == p.fields \in Seq(F) /\ p.input \in Seq(F) /\ p.output \in Seq(F)

\* Catalog.get gives the first package of an id.
LEMMA GetIsFirst ==
  ASSUME NEW P, NEW ps \in Seq(P), NEW id
  PROVE  \/ Get(ps, id) = {} /\ \A i \in 1..Len(ps) : ps[i].id # id
         \/ \E k \in 1..Len(ps) : /\ Get(ps, id) = {ps[k]} /\ ps[k].id = id
                                  /\ \A j \in 1..Len(ps) : ps[j].id = id => k <= j
<1> DEFINE I == {i \in 1..Len(ps) : ps[i].id = id}
<1>1. I \in SUBSET (1..Len(ps)) /\ Len(ps) \in Nat
  OBVIOUS
<1>2. Get(ps, id) = {ps[i] : i \in {k \in I : \A j \in I : k <= j}}
  BY DEF Get, FirstThat
<1> HIDE DEF I
<1>3. CASE I = {}
  BY <1>1, <1>2, <1>3 DEF I
<1>4. CASE I # {}
  <2>1. PICK k \in I : {i \in I : \A j \in I : i <= j} = {k} /\ \A j \in I : k <= j
    BY <1>1, <1>4, FirstPlaces
  <2>. QED
    BY <1>2, <2>1 DEF I
<1>. QED
  BY <1>3, <1>4

\* While no id is given twice each package is the one its id names.
LEMMA IdNamesPackage ==
  ASSUME NEW P, NEW ps \in Seq(P), NEW i \in 1..Len(ps),
         \A j \in 1..Len(ps) : <<"duplicate", j>> \notin CatalogProblems(ps)
  PROVE  Get(ps, ps[i].id) = {ps[i]}
<1>1. ASSUME NEW j \in 1..Len(ps), NEW k \in 1..j - 1, ps[k].id = ps[j].id
      PROVE  FALSE
  <2>1. <<"duplicate", j>> \in CatalogProblems(ps)
    BY <1>1 DEF CatalogProblems
  <2>. QED
    BY <2>1
<1>2. PICK k \in 1..Len(ps) : /\ Get(ps, ps[i].id) = {ps[k]} /\ ps[k].id = ps[i].id
                              /\ \A j \in 1..Len(ps) : ps[j].id = ps[i].id => k <= j
  BY GetIsFirst
<1>3. k = i
  <2>1. k <= i
    BY <1>2
  <2>2. ~(k \in 1..i - 1)
    BY <1>1, <1>2
  <2>. QED
    BY <2>1, <2>2
<1>. QED
  BY <1>2, <1>3

\* The unit by name that matching.py finds is that of the field which fills the
\* ruler, wherever in the manifest the field is.
LEMMA UnitsAgree ==
  ASSUME NEW F, NEW p, SpecsIn(p, F), p.fields # <<>>, UnitOf(p.fields) # {},
         RulerDefaults(p).unit # {}
  PROVE  UnitOf(p.fields) = RulerDefaults(p).unit
<1> DEFINE s == p.fields
           a == AllFields(p)
           N == {i \in 1..Len(a) : a[i].name # {}}
           U == {i \in 1..Len(s) : (IF s[i].name # {} THEN s[i].unit ELSE {}) # {}}
<1>1. /\ s \in Seq(F) /\ a \in Seq(F) /\ Len(s) \in Nat /\ Len(a) \in Nat /\ Len(s) <= Len(a)
      /\ \A i \in 1..Len(s) : a[i] = s[i]
  <2>1. s \in Seq(F) /\ p.input \in Seq(F) /\ p.output \in Seq(F)
    BY DEF SpecsIn
  <2> DEFINE t == p.input
             u == p.output
  <2>2. a = s \o t \o u
    BY DEF AllFields
  <2>3. s \in Seq(F) /\ t \in Seq(F) /\ u \in Seq(F)
    BY <2>1
  <2> HIDE DEF s, t, u, a
  <2>. QED
    BY <2>2, <2>3, FrontStays
<1>2. U # {} /\ U \subseteq N
  <2>1. U = {} => UnitOf(s) = {}
    BY DEF UnitOf, FirstDeclared
  <2>2. \A i \in U : i \in 1..Len(a) /\ a[i].name # {}
    BY <1>1
  <2>. QED
    BY <2>1, <2>2
<1>3. PICK k \in N : {i \in N : \A j \in N : i <= j} = {k} /\ \A j \in N : k <= j
  <2>1. N \in SUBSET (1..Len(a)) /\ N # {}
    BY <1>2
  <2>. QED
    BY <1>1, <2>1, FirstPlaces
<1>4. PICK u \in U : \A j \in U : u <= j
  BY <1>1, <1>2, FirstPlace
<1>5. PrimaryField(p) = {a[k]}
  <2>1. FirstThat(a, LAMBDA f : f.name # {}) = {a[i] : i \in {m \in N : \A j \in N : m <= j}}
    BY DEF FirstThat
  <2>2. FirstThat(a, LAMBDA f : f.name # {}) = {a[k]}
    BY <1>3, <2>1
  <2>. QED
    BY <2>2 DEF PrimaryField, Or
<1>6. RulerDefaults(p).unit = a[k].unit
  BY <1>5 DEF RulerDefaults
<1>7. k \in 1..Len(s) /\ k <= u /\ a[k] = s[k] /\ s[k].name # {}
  BY <1>1, <1>2, <1>3, <1>4
<1>8. k \in U
  BY <1>6, <1>7
<1>9. UnitOf(s) = s[CHOOSE i \in U : \A j \in U : i <= j].unit
  <2>1. (CHOOSE i \in U : \A j \in U : i <= j) \in U
    BY <1>4
  <2>. QED
    BY <1>2, <2>1 DEF UnitOf, FirstDeclared
<1>10. \A i \in U : (\A j \in U : i <= j) => i = k
  BY <1>1, <1>2, <1>3, <1>7, <1>8
<1>11. (CHOOSE i \in U : \A j \in U : i <= j) = k
  BY <1>2, <1>3, <1>8, <1>10
<1>. QED
  BY <1>6, <1>7, <1>9, <1>11

\* Without a warning of it, check_pair and ruler_defaults have found one step and
\* one unit, although they look in different places of the manifests.
LEMMA SameScaleHolds ==
  ASSUME NEW F, NEW data, NEW model, SpecsIn(data, F), PairErrors(data, model) = {}
  PROVE  SameScale(data, model)
<1> DEFINE dataUnit == UnitOf(OrFields(data.fields, data.output))
           modelUnit == UnitOf(OrFields(model.output, model.fields))
<1>1. Kind(data) = "data" /\ Kind(model) = "model"
  BY DEF PairErrors
<1>2. ~Differ(Cadence(data), Cadence(model)) /\ ~Differ(dataUnit, modelUnit)
  <2>1. "cadence" \notin PairErrors(data, model) /\ "unit" \notin PairErrors(data, model)
    OBVIOUS
  <2>. QED
    BY <1>1, <2>1 DEF PairErrors
<1>3. "cadence" \notin PairWarnings(data, model) => Cadence(model) = RulerDefaults(data).step
  BY <1>1, <1>2 DEF PairWarnings, Undeclared, Differ, RulerDefaults
<1>4. ASSUME "unit" \notin PairWarnings(data, model), data.fields # <<>>,
             RulerDefaults(data).unit # {}
      PROVE  modelUnit = RulerDefaults(data).unit
  <2>1. dataUnit # {} /\ modelUnit # {}
    BY <1>1, <1>4 DEF PairWarnings, Undeclared
  <2>2. dataUnit = modelUnit /\ dataUnit = UnitOf(data.fields)
    BY <1>2, <1>4, <2>1 DEF Differ, OrFields
  <2>. QED
    BY <1>4, <2>1, <2>2, UnitsAgree
<1>. QED
  BY <1>3, <1>4 DEF SameScale

\* In every catalog the page and the planner judge a pair alike, up to an id that
\* is given twice, and an offered pair can be planned and scored under the ruler
\* its data package fills in, with that ruler's step and unit unless the page
\* warns of them (server/app.py, catalog/matching.py, core/planner.py).
THEOREM PairFitsRulerHolds ==
  ASSUME NEW F, NEW P, NEW ps \in Seq(P), \A p \in P : SpecsIn(p, F)
  PROVE  PairFitsRuler(ps)
<1> DEFINE Problem(d, m) == PairProblem(ps, [data |-> d, model |-> m])
           Unique == \A i \in 1..Len(ps) : <<"duplicate", i>> \notin CatalogProblems(ps)
<1>1. \A p \in ToSet(ps) : p \in P /\ \E i \in 1..Len(ps) : p = ps[i]
  BY DEF ToSet
<1>2. \A d, m : Problem(d, m) <=> \E p \in Get(ps, d), q \in Get(ps, m) : PairErrors(p, q) # {}
  BY DEF PairProblem
<1>3. \A pair : pair \in OfferedPairs(ps) <=>
        \E d, m \in ToSet(ps) : /\ Kind(d) = "data" /\ Kind(m) = "model" /\ PairErrors(d, m) = {}
                                /\ pair = <<d.id, m.id>>
  <2> DEFINE D == {p \in ToSet(ps) : Kind(p) = "data"}
             M == {p \in ToSet(ps) : Kind(p) = "model"}
             Q == {q \in D \X M : PairErrors(q[1], q[2]) = {}}
  <2>1. OfferedPairs(ps) = {<<q[1].id, q[2].id>> : q \in Q}
    BY DEF OfferedPairs
  <2>2. \A d, m : <<d, m>> \in Q <=> d \in D /\ m \in M /\ PairErrors(d, m) = {}
    OBVIOUS
  <2>3. \A q \in Q : q = <<q[1], q[2]>> /\ q[1] \in D /\ q[2] \in M /\ PairErrors(q[1], q[2]) = {}
    OBVIOUS
  <2>4. \A d : /\ d \in D <=> d \in ToSet(ps) /\ Kind(d) = "data"
               /\ d \in M <=> d \in ToSet(ps) /\ Kind(d) = "model"
    OBVIOUS
  <2> HIDE DEF D, M, Q
  <2>5. ASSUME NEW pair, pair \in OfferedPairs(ps)
        PROVE  \E d \in D, m \in M : PairErrors(d, m) = {} /\ pair = <<d.id, m.id>>
    <3>1. PICK q \in Q : pair = <<q[1].id, q[2].id>>
      BY <2>1, <2>5
    <3>2. q[1] \in D /\ q[2] \in M /\ PairErrors(q[1], q[2]) = {}
      BY <2>3
    <3>. QED
      BY <3>1, <3>2
  <2>6. ASSUME NEW d \in D, NEW m \in M, PairErrors(d, m) = {}
        PROVE  <<d.id, m.id>> \in OfferedPairs(ps)
    <3>1. <<d, m>> \in Q /\ <<d, m>>[1] = d /\ <<d, m>>[2] = m
      BY <2>2, <2>6
    <3>. QED
      BY <2>1, <3>1
  <2>. QED
    BY <2>4, <2>5, <2>6
<1>4. ASSUME Unique, NEW pair \in OfferedPairs(ps)
      PROVE  ~Problem(pair[1], pair[2])
  <2>1. PICK d \in ToSet(ps), m \in ToSet(ps) : PairErrors(d, m) = {} /\ pair = <<d.id, m.id>>
    BY <1>3, <1>4
  <2>2. \A p \in ToSet(ps) : Get(ps, p.id) = {p}
    BY <1>1, <1>4, IdNamesPackage
  <2>3. Get(ps, pair[1]) = {d} /\ Get(ps, pair[2]) = {m}
    BY <2>1, <2>2
  <2>. QED
    BY <1>2, <2>1, <2>3
<1>5. ASSUME NEW d \in ToSet(ps), NEW m \in ToSet(ps), ~Problem(d.id, m.id)
      PROVE  <<d.id, m.id>> \in OfferedPairs(ps)
  <2>1. \A p \in ToSet(ps) : \E q \in ToSet(ps) : Get(ps, p.id) = {q} /\ q.id = p.id
    <3> SUFFICES ASSUME NEW p \in ToSet(ps)
                 PROVE  \E q \in ToSet(ps) : Get(ps, p.id) = {q} /\ q.id = p.id
      OBVIOUS
    <3>1. PICK i \in 1..Len(ps) : p = ps[i]
      BY <1>1
    <3>2. PICK k \in 1..Len(ps) : Get(ps, p.id) = {ps[k]} /\ ps[k].id = p.id
      BY <3>1, GetIsFirst
    <3>3. ps[k] \in ToSet(ps)
      BY DEF ToSet
    <3>. QED
      BY <3>2, <3>3
  <2>2. PICK p \in ToSet(ps) : Get(ps, d.id) = {p} /\ p.id = d.id
    BY <2>1
  <2>3. PICK q \in ToSet(ps) : Get(ps, m.id) = {q} /\ q.id = m.id
    BY <2>1
  <2>4. PairErrors(p, q) = {}
    BY <1>2, <1>5, <2>2, <2>3
  <2>5. Kind(p) = "data" /\ Kind(q) = "model"
    BY <2>4 DEF PairErrors
  <2>. QED
    BY <1>3, <2>2, <2>3, <2>4, <2>5
<1>6. ASSUME NEW d \in ToSet(ps), NEW m \in ToSet(ps), PairErrors(d, m) = {}
      PROVE  SameScale(d, m)
  BY <1>1, <1>6, SameScaleHolds
<1>7. \/ \E i \in 1..Len(ps) : <<"duplicate", i>> \in CatalogProblems(ps)
      \/ \A pair \in OfferedPairs(ps) : ~Problem(pair[1], pair[2])
  BY <1>4
<1> HIDE DEF Unique
<1>. QED
  BY <1>5, <1>6, <1>7 DEF PairFitsRuler

Blanks == {"unit", "step", "extent"}

\* What a person filled in stays, filling again changes nothing, and a step that
\* was left blank never brings a warning.
THEOREM FillingKeepsHolds ==
  ASSUME NEW p, NEW V, NEW ruler \in [Blanks -> V]
  PROVE  FillingKeeps(ruler, p)
<1> DEFINE filled == Filled(ruler, p)
<1>1. DOMAIN filled = Blanks /\ \A f \in Blanks : filled[f] = Or(ruler[f], RulerDefaults(p)[f])
  BY DEF Filled
<1>2. \A f \in DOMAIN ruler : ruler[f] # {} => filled[f] = ruler[f]
  BY <1>1 DEF Or
<1>3. Filled(filled, p) = filled
  <2>1. \A f \in Blanks : Or(Or(ruler[f], RulerDefaults(p)[f]), RulerDefaults(p)[f])
                            = Or(ruler[f], RulerDefaults(p)[f])
    BY DEF Or
  <2>. QED
    BY <1>1, <2>1 DEF Filled
<1>4. ASSUME ruler.step = {}
      PROVE  <<"step">> \notin ConfigWarnings(filled, p.id, {}, <<p>>)
  <2>1. filled.step = Cadence(p)
    BY <1>1, <1>4 DEF Or, RulerDefaults, Blanks
  <2>2. Get(<<p>>, p.id) = {p}
    <3> DEFINE ps == <<p>>
               id == p.id
    <3>1. ps \in Seq({p}) /\ Len(ps) = 1 /\ ps[1] = p /\ p.id = id
      OBVIOUS
    <3> HIDE DEF ps, id
    <3>2. \/ Get(ps, id) = {} /\ \A i \in 1..Len(ps) : ps[i].id # id
          \/ \E k \in 1..Len(ps) : Get(ps, id) = {ps[k]}
      BY <3>1, GetIsFirst
    <3>3. Get(ps, id) = {p}
      BY <3>1, <3>2
    <3>. QED
      BY <3>3 DEF ps, id
  <2>3. ~Differ(Cadence(p), filled.step)
    BY <2>1 DEF Differ
  <2>. QED
    BY <2>2, <2>3 DEF ConfigWarnings
<1>. QED
  BY <1>2, <1>3, <1>4 DEF FillingKeeps

-----------------------------------------------------------------------------
(***************************************************************************)
(* Plans.                                                                  *)
(***************************************************************************)
\* A config as its schema lets it through: steps and leads are positive.
Config(M, D) ==
  {[truth |-> d, step |-> s, roster |-> r] :
     d \in D, s \in Nat \ {0},
     r \in UNION {[S -> [leads : SUBSET (Nat \ {0}), from : SUBSET Int, to : SUBSET Int]] :
               S \in SUBSET M}}

\* A run as its file is strictly read: at most one start and one horizon.
RunConfig(M, D) ==
  {r \in [data : D, model : M, start : SUBSET (Int \X Int), horizon : SUBSET (Nat \ {0})] :
     /\ \A t, u \in r.start : t = u
     /\ \A h, k \in r.horizon : h = k}

LEMMA ConfigParts ==
  ASSUME NEW M, NEW D, NEW cfg \in Config(M, D), NEW m \in DOMAIN cfg.roster
  PROVE  /\ cfg.step \in Nat \ {0} /\ m \in M
         /\ cfg.roster[m].leads \subseteq Nat \ {0}
BY DEF Config

\* A run is used when nothing is against it; a rejection by the last reason says
\* that no lead is inside its horizon.
LEMMA ReasonsDecide ==
  ASSUME NEW cfg, NEW ps, NEW run
  PROVE  /\ FirstReason(cfg, ps, run) = {} =>
              /\ run.model \in DOMAIN cfg.roster /\ run.data = cfg.truth /\ run.start # {}
              /\ \A t \in run.start : ActiveOn(cfg.roster[run.model], t[1])
              /\ ~PairProblem(ps, run)
              /\ Inside(run, cfg.roster[run.model].leads, cfg.step) # {}
         /\ FirstReason(cfg, ps, run) # {} =>
              \/ run.model \notin DOMAIN cfg.roster \/ run.data # cfg.truth \/ run.start = {}
              \/ \E t \in run.start : ~ActiveOn(cfg.roster[run.model], t[1])
              \/ PairProblem(ps, run)
              \/ Inside(run, cfg.roster[run.model].leads, cfg.step) = {}
         /\ FirstReason(cfg, ps, run) # {} /\ The(FirstReason(cfg, ps, run)) = "beyond-horizon" =>
              Inside(run, cfg.roster[run.model].leads, cfg.step) = {}
<1> DEFINE rs == Reasons(cfg, ps, run)
           I == {i \in 1..6 : rs[i].holds}
<1>1. Len(rs) = 6
  BY DEF Reasons
<1>2. /\ 1 \in I <=> run.model \notin DOMAIN cfg.roster
      /\ 2 \in I <=> run.data # cfg.truth
      /\ 3 \in I <=> run.start = {}
      /\ 4 \in I <=> run.model \in DOMAIN cfg.roster
                      /\ \E t \in run.start : ~ActiveOn(cfg.roster[run.model], t[1])
      /\ 5 \in I <=> PairProblem(ps, run)
      /\ 6 \in I <=> run.model \in DOMAIN cfg.roster
                      /\ Inside(run, cfg.roster[run.model].leads, cfg.step) = {}
  <2>1. rs[1].holds = (run.model \notin DOMAIN cfg.roster)
    BY DEF Reasons
  <2>2. rs[2].holds = (run.data # cfg.truth)
    BY DEF Reasons
  <2>3. rs[3].holds = (run.start = {})
    BY DEF Reasons
  <2>4. rs[4].holds = (run.model \in DOMAIN cfg.roster
                        /\ \E t \in run.start : ~ActiveOn(cfg.roster[run.model], t[1]))
    BY DEF Reasons
  <2>5. rs[5].holds = PairProblem(ps, run)
    BY DEF Reasons
  <2>6. rs[6].holds = (run.model \in DOMAIN cfg.roster
                        /\ Inside(run, cfg.roster[run.model].leads, cfg.step) = {})
    BY DEF Reasons
  <2>7. \A i \in 1..6 : i \in I <=> rs[i].holds
    OBVIOUS
  <2>8. 1 \in 1..6 /\ 2 \in 1..6 /\ 3 \in 1..6 /\ 4 \in 1..6 /\ 5 \in 1..6 /\ 6 \in 1..6
    OBVIOUS
  <2> HIDE DEF rs, I
  <2>. QED
    BY <2>1, <2>2, <2>3, <2>4, <2>5, <2>6, <2>7, <2>8, ZenonT(30)
<1>3. \A i \in 1..6 : rs[i].reason = "beyond-horizon" => i = 6
  BY DEF Reasons
<1>4. I \in SUBSET (1..6) /\ \A i \in 1..6 : i = 1 \/ i = 2 \/ i = 3 \/ i = 4 \/ i = 5 \/ i = 6
  OBVIOUS
<1>5. I = {} => FirstReason(cfg, ps, run) = {}
  BY <1>1 DEF FirstReason, FirstDeclared
<1>6. I # {} => \E k \in I : FirstReason(cfg, ps, run) = {rs[k].reason}
  <2>1. {i \in 1..Len(rs) : (IF rs[i].holds THEN {rs[i].reason} ELSE {}) # {}} = I
    BY <1>1
  <2>2. I # {} => (CHOOSE i \in I : \A j \in I : i <= j) \in I
    BY <1>4, FirstPlace
  <2>. QED
    BY <2>1, <2>2 DEF FirstReason, FirstDeclared
<1>7. ASSUME I # {}, The(FirstReason(cfg, ps, run)) = "beyond-horizon"
      PROVE  6 \in I
  <2>1. PICK k \in I : FirstReason(cfg, ps, run) = {rs[k].reason}
    BY <1>6, <1>7
  <2>2. rs[k].reason = "beyond-horizon"
    BY <1>7, <2>1 DEF The
  <2>. QED
    BY <1>3, <2>2
<1> HIDE DEF I, rs
<1>. QED
  BY <1>2, <1>4, <1>5, <1>6, <1>7

LEMMA PlanTasks ==
  ASSUME NEW cfg, NEW ps, NEW runs
  PROVE  \A t : t \in Plan(cfg, ps, runs).tasks <=>
           \E i \in 1..Len(runs) : FirstReason(cfg, ps, runs[i]) = {} /\ t \in TasksOf(cfg, runs[i])
BY DEF Plan

LEMMA PlanRejections ==
  ASSUME NEW cfg, NEW ps, NEW runs
  PROVE  \A i : i \in DOMAIN Plan(cfg, ps, runs).rejections <=>
           i \in 1..Len(runs) /\ FirstReason(cfg, ps, runs[i]) # {}
BY DEF Plan

LEMMA PlanDropped ==
  ASSUME NEW cfg, NEW ps, NEW runs
  PROVE  \A i : i \in Plan(cfg, ps, runs).dropped <=>
           /\ i \in 1..Len(runs) /\ FirstReason(cfg, ps, runs[i]) = {}
           /\ Inside(runs[i], cfg.roster[runs[i].model].leads, cfg.step)
                # cfg.roster[runs[i].model].leads
BY DEF Plan

\* Every run is used or rejected for a reason; what the executor makes of the
\* references is the whole plan and, beyond it, only leads that a run of that
\* member and time does not reach: no other source's run, no member on a day it
\* was not on the roster. The plan a run is started on, which is made without
\* the catalog, has the plan the page showed.
THEOREM ExecutesThePlanHolds ==
  ASSUME NEW M, NEW D, NEW cfg \in Config(M, D), NEW ps, NEW runs \in Seq(RunConfig(M, D))
  PROVE  ExecutesThePlan(cfg, ps, runs)
<1> DEFINE plan == Plan(cfg, ps, runs)
           done == Executed(cfg, PlannedRuns(plan))
           OfTask(run, t) == run.model = t.member /\ t.init \in run.start
           Used(i) == i \in 1..Len(runs) /\ FirstReason(cfg, ps, runs[i]) = {}
           roster == cfg.roster
<1>1. /\ \A t : t \in plan.tasks <=> \E i : Used(i) /\ t \in TasksOf(cfg, runs[i])
      /\ \A i : Used(i) => i \notin DOMAIN plan.rejections
      /\ \A i : i \in plan.dropped <=>
           Used(i) /\ Inside(runs[i], roster[runs[i].model].leads, cfg.step) # roster[runs[i].model].leads
  <2>1. \A t : t \in plan.tasks <=>
          \E i \in 1..Len(runs) : FirstReason(cfg, ps, runs[i]) = {} /\ t \in TasksOf(cfg, runs[i])
    BY PlanTasks
  <2>2. \A i : i \in DOMAIN plan.rejections <=> i \in 1..Len(runs) /\ FirstReason(cfg, ps, runs[i]) # {}
    BY PlanRejections
  <2>3. \A i : i \in plan.dropped <=>
          /\ i \in 1..Len(runs) /\ FirstReason(cfg, ps, runs[i]) = {}
          /\ Inside(runs[i], cfg.roster[runs[i].model].leads, cfg.step) # cfg.roster[runs[i].model].leads
    BY PlanDropped
  <2> HIDE DEF plan
  <2>. QED
    BY <2>1, <2>2, <2>3
<1>2. \A i : Used(i) => /\ runs[i].model \in DOMAIN roster /\ runs[i].data = cfg.truth
                        /\ \A t \in runs[i].start : ActiveOn(roster[runs[i].model], t[1])
  BY ReasonsDecide
<1>3. \A i, t : t \in TasksOf(cfg, runs[i]) <=>
        \E u \in runs[i].start, l \in Inside(runs[i], roster[runs[i].model].leads, cfg.step) :
          t = [member |-> runs[i].model, init |-> u, lead |-> l]
  BY DEF TasksOf
<1>4. \A t : t \in done <=>
        \E r \in PlannedRuns(plan) : \E l \in roster[r.member].leads :
          ActiveOn(roster[r.member], r.init[1]) /\ t = [member |-> r.member, init |-> r.init, lead |-> l]
  BY DEF Executed
<1>5. \A r : r \in PlannedRuns(plan) <=>
        \E i : /\ Used(i) /\ Inside(runs[i], roster[runs[i].model].leads, cfg.step) # {}
               /\ \E u \in runs[i].start : r = [member |-> runs[i].model, init |-> u]
  <2>1. \A r : r \in PlannedRuns(plan) <=> \E t \in plan.tasks : r = [member |-> t.member, init |-> t.init]
    BY DEF PlannedRuns
  <2> HIDE DEF plan, Used
  <2>2. ASSUME NEW r \in PlannedRuns(plan)
        PROVE  \E i : /\ Used(i) /\ Inside(runs[i], roster[runs[i].model].leads, cfg.step) # {}
                      /\ \E u \in runs[i].start : r = [member |-> runs[i].model, init |-> u]
    <3>1. PICK t \in plan.tasks : r = [member |-> t.member, init |-> t.init]
      BY <2>1
    <3>2. PICK i : Used(i) /\ t \in TasksOf(cfg, runs[i])
      BY <1>1
    <3>3. PICK u \in runs[i].start, l \in Inside(runs[i], roster[runs[i].model].leads, cfg.step) :
            t = [member |-> runs[i].model, init |-> u, lead |-> l]
      BY <1>3, <3>2
    <3>4. t.member = runs[i].model /\ t.init = u
      BY <3>3
    <3>. QED
      BY <3>1, <3>2, <3>3, <3>4
  <2>3. ASSUME NEW i, Used(i), NEW l \in Inside(runs[i], roster[runs[i].model].leads, cfg.step),
               NEW u \in runs[i].start
        PROVE  [member |-> runs[i].model, init |-> u] \in PlannedRuns(plan)
    <3>1. [member |-> runs[i].model, init |-> u, lead |-> l] \in plan.tasks
      BY <1>1, <1>3, <2>3
    <3>. QED
      BY <2>1, <3>1
  <2>. QED
    BY <2>2, <2>3
<1> HIDE DEF plan, done
<1>6. plan.tasks \subseteq done
  <2> SUFFICES ASSUME NEW t \in plan.tasks
               PROVE  t \in done
    OBVIOUS
  <2>1. PICK i : Used(i) /\ t \in TasksOf(cfg, runs[i])
    BY <1>1
  <2>2. PICK u \in runs[i].start, l \in Inside(runs[i], roster[runs[i].model].leads, cfg.step) :
          t = [member |-> runs[i].model, init |-> u, lead |-> l]
    BY <1>3, <2>1
  <2>3. [member |-> runs[i].model, init |-> u] \in PlannedRuns(plan)
    BY <1>5, <2>1, <2>2
  <2>4. l \in roster[runs[i].model].leads
    BY DEF Inside
  <2>. QED
    BY <1>2, <1>4, <2>1, <2>2, <2>3, <2>4
<1>7. ASSUME NEW t \in done
      PROVE  \E i : /\ Used(i) /\ OfTask(runs[i], t) /\ t.lead \in roster[runs[i].model].leads
                    /\ t = [member |-> runs[i].model, init |-> t.init, lead |-> t.lead]
  <2>1. PICK r \in PlannedRuns(plan) : \E l \in roster[r.member].leads :
          t = [member |-> r.member, init |-> r.init, lead |-> l]
    BY <1>4
  <2>2. PICK i : Used(i) /\ \E u \in runs[i].start : r = [member |-> runs[i].model, init |-> u]
    BY <1>5
  <2>. QED
    BY <2>1, <2>2
<1>8. ASSUME NEW t \in done
      PROVE  \E i \in 1..Len(runs) : OfTask(runs[i], t) /\ i \notin DOMAIN plan.rejections
                                      /\ runs[i].data = cfg.truth
  BY <1>1, <1>2, <1>7
<1>9. ASSUME NEW t \in done \ plan.tasks
      PROVE  \E i \in plan.dropped : OfTask(runs[i], t) /\ \E h \in runs[i].horizon : t.lead > h * cfg.step
  <2>1. PICK i : /\ Used(i) /\ OfTask(runs[i], t) /\ t.lead \in roster[runs[i].model].leads
                 /\ t = [member |-> runs[i].model, init |-> t.init, lead |-> t.lead]
    BY <1>7
  <2>2. t.lead \notin Inside(runs[i], roster[runs[i].model].leads, cfg.step)
    BY <1>1, <1>3, <1>9, <2>1
  <2>3. i \in plan.dropped
    BY <1>1, <2>1, <2>2
  <2>4. /\ runs[i].horizon \subseteq Nat \ {0} /\ cfg.step \in Nat \ {0} /\ t.lead \in Nat \ {0}
    <3>1. runs[i] \in RunConfig(M, D)
      BY <2>1
    <3>. QED
      BY <1>2, <2>1, <3>1, ConfigParts DEF RunConfig
  <2>5. PICK h \in runs[i].horizon : t.lead \notin 1..h * cfg.step
    <3>1. PICK h \in Positive(runs[i].horizon) : t.lead \notin 1..h * (IF cfg.step > 1 THEN cfg.step ELSE 1)
      BY <2>1, <2>2 DEF Inside
    <3>2. (IF cfg.step > 1 THEN cfg.step ELSE 1) = cfg.step
      BY <2>4
    <3>. QED
      BY <3>1, <3>2 DEF Positive
  <2>6. h * cfg.step \in Nat
    BY <2>4
  <2>7. t.lead > h * cfg.step
    BY <2>4, <2>5, <2>6
  <2>. QED
    BY <2>1, <2>3, <2>7
<1>10. plan.tasks \subseteq Plan(cfg, <<>>, runs).tasks
  <2>1. ASSUME NEW i, Used(i)
        PROVE  FirstReason(cfg, <<>>, runs[i]) = {}
    <3>1. \A id : Get(<<>>, id) = {}
      BY DEF Get, FirstThat
    <3>2. ~PairProblem(<<>>, runs[i])
      BY <3>1 DEF PairProblem
    <3>3. /\ runs[i].model \in DOMAIN cfg.roster /\ runs[i].data = cfg.truth /\ runs[i].start # {}
          /\ \A t \in runs[i].start : ActiveOn(cfg.roster[runs[i].model], t[1])
          /\ Inside(runs[i], cfg.roster[runs[i].model].leads, cfg.step) # {}
      BY <2>1, ReasonsDecide
    <3>. QED
      BY <3>2, <3>3, ReasonsDecide
  <2>2. \A t : t \in Plan(cfg, <<>>, runs).tasks <=>
          \E i \in 1..Len(runs) : FirstReason(cfg, <<>>, runs[i]) = {} /\ t \in TasksOf(cfg, runs[i])
    BY PlanTasks
  <2>. QED
    BY <1>1, <2>1, <2>2
<1>11. plan.tasks # {} => StartRun(cfg, runs, {}, FALSE) = "started"
  <2> DEFINE refs == PlannedRuns(Plan(cfg, <<>>, runs))
  <2>1. plan.tasks # {} => refs # {}
    BY <1>10 DEF PlannedRuns
  <2> HIDE DEF refs
  <2>2. StartRun(cfg, runs, {}, FALSE) = CASE refs = {} -> "nothing to do" [] refs # {} /\ FALSE -> "busy"
                                           [] OTHER -> "started"
    BY DEF StartRun, refs
  <2>. QED
    BY <2>1, <2>2
<1>12. done \subseteq Executed(cfg, ExplicitRuns(cfg, {t.init : t \in plan.tasks}))
  <2> SUFFICES ASSUME NEW t \in done
               PROVE  t \in Executed(cfg, ExplicitRuns(cfg, {u.init : u \in plan.tasks}))
    OBVIOUS
  <2>1. PICK r \in PlannedRuns(plan) : \E l \in roster[r.member].leads :
          /\ ActiveOn(roster[r.member], r.init[1])
          /\ t = [member |-> r.member, init |-> r.init, lead |-> l]
    BY <1>4
  <2>2. PICK i : Used(i) /\ \E u \in runs[i].start : r = [member |-> runs[i].model, init |-> u]
    BY <1>5
  <2>3. r.member \in DOMAIN roster /\ r.init \in {u.init : u \in plan.tasks}
    <3>1. PICK u \in plan.tasks : r = [member |-> u.member, init |-> u.init]
      BY DEF PlannedRuns
    <3>. QED
      BY <1>2, <2>2, <3>1
  <2>4. r = [member |-> r.member, init |-> r.init]
    BY <2>2
  <2>5. r \in ExplicitRuns(cfg, {u.init : u \in plan.tasks})
    BY <2>3, <2>4 DEF ExplicitRuns
  <2> DEFINE refs == ExplicitRuns(cfg, {u.init : u \in plan.tasks})
  <2>6. t \in [member : {r.member}, init : {r.init}, lead : cfg.roster[r.member].leads]
    BY <2>1
  <2>7. r \in {x \in refs : ActiveOn(cfg.roster[x.member], x.init[1])}
    BY <2>1, <2>5
  <2> HIDE DEF refs
  <2>8. t \in Executed(cfg, refs)
    BY <2>6, <2>7 DEF Executed
  <2>. QED
    BY <2>8 DEF refs
<1>. QED
  BY <1>6, <1>8, <1>9, <1>10, <1>11, <1>12 DEF ExecutesThePlan, plan, done

SourcesAt(ps, c) ==
  /\ \E p \in ToSet(ps) : Kind(p) = "data"
  /\ \A p \in ToSet(ps) : Kind(p) = "data" => Cadence(p) = {c}

\* The cadence of the offered leads is that of the source, if there is one.
LEMMA OfferedAtStep ==
  ASSUME NEW P, NEW ps \in Seq(P), NEW runs, NEW model, NEW c, SourcesAt(ps, c)
  PROVE  \A l \in AvailableLeads(ps, runs, model) :
           \E i \in 1..Len(runs) : runs[i].model = model /\ l \in LeadsWithinHorizon(runs[i], c)
<1> DEFINE I == {i \in 1..Len(ps) : Kind(ps[i]) = "data" /\ Cadence(ps[i]) # {}}
           Paced(kind) == FirstThat(ps, LAMBDA p : Kind(p) = kind /\ Cadence(p) # {})
           steps == UNION {Cadence(p) : p \in Or(Paced("data"), Paced("model"))}
<1> USE DEF SourcesAt
<1>1. Len(ps) \in Nat /\ ToSet(ps) = {ps[i] : i \in 1..Len(ps)}
  BY DEF ToSet
<1>2. I # {} /\ I \in SUBSET (1..Len(ps))
  BY <1>1
<1>3. PICK k \in I : {i \in I : \A j \in I : i <= j} = {k}
  <2> HIDE DEF I
  <2>. QED
    BY <1>1, <1>2, FirstPlaces
<1>4. Paced("data") = {ps[k]}
  <2>1. Paced("data") = {ps[i] : i \in {x \in I : \A j \in I : x <= j}}
    BY DEF FirstThat
  <2>. QED
    BY <1>3, <2>1
<1>5. steps = {c}
  <2>1. Or(Paced("data"), Paced("model")) = {ps[k]}
    BY <1>4 DEF Or
  <2>2. Cadence(ps[k]) = {c}
    BY <1>1, <1>3
  <2> HIDE DEF Paced, I
  <2>. QED
    BY <2>1, <2>2
<1>6. AvailableLeads(ps, runs, model) =
        UNION {LeadsWithinHorizon(runs[i], step) :
                 i \in {k_1 \in 1..Len(runs) : runs[k_1].model = model}, step \in steps}
  BY DEF AvailableLeads
<1> HIDE DEF steps
<1>. QED
  BY <1>5, <1>6

\* A lead that the page offers for a model is one the plan takes, unless the
\* model's runs are rejected for another reason than their horizon.
THEOREM OfferedIsPlannedHolds ==
  ASSUME NEW M, NEW D, NEW cfg \in Config(M, D), NEW P, NEW ps \in Seq(P),
         NEW runs \in Seq(RunConfig(M, D))
  PROVE  OfferedIsPlanned(cfg, ps, runs)
<1> DEFINE plan == Plan(cfg, ps, runs)
<1> SUFFICES ASSUME NEW m \in DOMAIN cfg.roster, \E p \in ToSet(ps) : Kind(p) = "data",
                    \A p \in ToSet(ps) : Kind(p) = "data" => Cadence(p) = {cfg.step},
                    \A i \in {k \in 1..Len(runs) : runs[k].model = m} \cap DOMAIN plan.rejections :
                      plan.rejections[i] = "beyond-horizon",
                    NEW l \in cfg.roster[m].leads \cap AvailableLeads(ps, runs, m)
             PROVE  \E t \in plan.tasks : t.member = m /\ t.lead = l
  BY DEF OfferedIsPlanned
<1>1. PICK i \in 1..Len(runs) : runs[i].model = m /\ l \in LeadsWithinHorizon(runs[i], cfg.step)
  <2> DEFINE c == cfg.step
  <2>1. SourcesAt(ps, c)
    BY DEF SourcesAt
  <2> HIDE DEF c, plan
  <2>2. \A x \in AvailableLeads(ps, runs, m) :
          \E i \in 1..Len(runs) : runs[i].model = m /\ x \in LeadsWithinHorizon(runs[i], c)
    BY <2>1, OfferedAtStep
  <2>. QED
    BY <2>2 DEF c
<1>2. /\ runs[i].horizon \subseteq Nat \ {0} /\ \A h, k \in runs[i].horizon : h = k
      /\ cfg.step \in Nat \ {0} /\ l \in Nat \ {0}
  <2>1. runs[i] \in RunConfig(M, D)
    OBVIOUS
  <2>. QED
    BY <2>1, ConfigParts DEF RunConfig
<1>3. PICK h \in runs[i].horizon : \E n \in 1..h : l = cfg.step * n
  BY <1>1 DEF LeadsWithinHorizon
<1>4. l \in 1..h * cfg.step
  <2>1. PICK n \in 1..h : l = cfg.step * n
    BY <1>3
  <2>2. h \in Nat /\ n \in Nat /\ n <= h /\ cfg.step \in Nat
    BY <1>2, <2>1
  <2>3. cfg.step * n <= h * cfg.step /\ h * cfg.step \in Nat
    BY <2>2
  <2>. QED
    BY <1>2, <2>1, <2>3
<1>5. l \in Inside(runs[i], cfg.roster[m].leads, cfg.step)
  <2>1. (IF cfg.step > 1 THEN cfg.step ELSE 1) = cfg.step
    BY <1>2
  <2>2. \A k \in Positive(runs[i].horizon) : k = h
    BY <1>2, <1>3 DEF Positive
  <2>. QED
    BY <1>4, <2>1, <2>2 DEF Inside
<1>6. FirstReason(cfg, ps, runs[i]) = {}
  <2> SUFFICES ASSUME FirstReason(cfg, ps, runs[i]) # {}
               PROVE  FALSE
    OBVIOUS
  <2>1. i \in DOMAIN plan.rejections
    BY PlanRejections
  <2>2. plan.rejections[i] = The(FirstReason(cfg, ps, runs[i]))
    BY DEF Plan
  <2>3. The(FirstReason(cfg, ps, runs[i])) = "beyond-horizon"
    BY <1>1, <2>1, <2>2
  <2>. QED
    BY <1>1, <1>5, <2>3, ReasonsDecide
<1>7. PICK u \in runs[i].start : TRUE
  <2>1. runs[i].start # {}
    <3>1. \A run : FirstReason(cfg, ps, run) = {} => run.start # {}
      BY ReasonsDecide
    <3>. QED
      BY <1>6, <3>1
  <2>. QED
    BY <2>1
<1>8. [member |-> m, init |-> u, lead |-> l] \in TasksOf(cfg, runs[i])
  BY <1>1, <1>5 DEF TasksOf
<1>9. [member |-> m, init |-> u, lead |-> l] \in plan.tasks
  BY <1>6, <1>8, PlanTasks
<1>. QED
  BY <1>9

\* Of finitely many numbers one is the largest.
LEMMA Largest ==
  ASSUME NEW n \in Nat, NEW G \in SUBSET (1..n), G # {}, NEW f \in [1..n -> Int]
  PROVE  \E k \in G : \A j \in G : f[j] <= f[k]
<1> DEFINE Some(b) == \E k \in G : k <= b
           Best(b) == \E k \in G : k <= b /\ \A j \in G : j <= b => f[j] <= f[k]
           T == {b \in 1..n : Some(b) /\ ~Best(b)}
<1>1. ASSUME T # {}
      PROVE  FALSE
  <2>1. PICK b \in T : \A c \in T : b <= c
    BY <1>1, FirstPlace
  <2>2. b \in 1..n /\ Some(b) /\ ~Best(b)
    BY <2>1
  <2>3. CASE Some(b - 1)
    <3>1. b - 1 \in 1..n /\ b - 1 \notin T
      <4>1. PICK k \in G : k <= b - 1
        BY <2>3
      <4>2. k \in 1..n
        OBVIOUS
      <4>3. b - 1 \in 1..n
        BY <2>2, <4>1, <4>2
      <4> HIDE DEF T
      <4>4. ~(b <= b - 1)
        BY <2>2
      <4>. QED
        BY <2>1, <4>3, <4>4
    <3>2. PICK k \in G : k <= b - 1 /\ \A j \in G : j <= b - 1 => f[j] <= f[k]
      BY <2>3, <3>1
    <3>3. \A j \in G : j <= b => j <= b - 1 \/ j = b
      BY <2>2
    <3>4. CASE b \notin G
      BY <2>2, <3>2, <3>3, <3>4
    <3>5. CASE b \in G /\ f[b] <= f[k]
      BY <2>2, <3>2, <3>3, <3>5
    <3>6. CASE b \in G /\ f[k] <= f[b]
      <4>1. \A j \in G : f[j] \in Int
        OBVIOUS
      <4>2. ASSUME NEW j \in G, j <= b
            PROVE  f[j] <= f[b]
        <5>1. CASE j = b
          BY <3>6, <4>1, <5>1
        <5>2. CASE j <= b - 1
          <6>1. f[j] <= f[k]
            BY <3>2, <5>2
          <6>. QED
            BY <3>6, <4>1, <6>1
        <5>. QED
          BY <3>3, <4>2, <5>1, <5>2
      <4>. QED
        BY <2>2, <3>6, <4>2
    <3>. QED
      BY <3>4, <3>5, <3>6
  <2>4. CASE ~Some(b - 1)
    <3>1. \A j \in G : j <= b => j = b
      BY <2>2, <2>4
    <3>2. b \in G /\ f[b] \in Int
      BY <2>2, <3>1
    <3>. QED
      BY <2>2, <3>1, <3>2
  <2>. QED
    BY <2>3, <2>4
<1>2. n \in 1..n /\ Some(n) /\ \A j \in G : j <= n
  <2>1. \A j \in G : j \in 1..n
    OBVIOUS
  <2>2. PICK g \in G : TRUE
    OBVIOUS
  <2>. QED
    BY <2>1, <2>2
<1>3. Best(n)
  BY <1>1, <1>2
<1>. QED
  BY <1>2, <1>3

\* While no lead is longer than the six hours that the provider is asked beyond
\* the last init time, the plan's coverage names exactly the tasks that have no
\* observation at their valid time.
THEOREM CoverageIsExactHolds ==
  ASSUME NEW M, NEW D, NEW cfg \in Config(M, D), NEW ps, NEW runs \in Seq(RunConfig(M, D)),
         NEW observed \in SUBSET Int, NEW day \in Nat, NEW sixHours \in Nat
  PROVE  CoverageIsExact(cfg, ps, runs, observed, day, sixHours)
<1> DEFINE tasks == Plan(cfg, ps, runs).tasks
           inits == {t.init : t \in tasks}
           ValidAt(t) == Minute(t, day)
           last == LastInit(inits, day)
<1> SUFFICES ASSUME tasks # {}, \A t \in tasks : t.lead <= sixHours
             PROVE  Unavailable(tasks, observed, day, sixHours)
                      = {t \in tasks : Minute(t.init, day) + t.lead \notin observed}
  BY DEF CoverageIsExact
<1>1. ASSUME NEW t \in tasks
      PROVE  /\ t.lead \in Nat /\ t.init \in Int \X Int
             /\ \E i \in 1..Len(runs) : t.init \in runs[i].start
  <2>1. PICK i \in 1..Len(runs) : FirstReason(cfg, ps, runs[i]) = {} /\ t \in TasksOf(cfg, runs[i])
    BY PlanTasks
  <2>2. PICK u \in runs[i].start, l \in Inside(runs[i], cfg.roster[runs[i].model].leads, cfg.step) :
          t = [member |-> runs[i].model, init |-> u, lead |-> l]
    BY <2>1 DEF TasksOf
  <2>3. runs[i] \in RunConfig(M, D) /\ runs[i].model \in DOMAIN cfg.roster
    BY <2>1, ReasonsDecide
  <2>4. u \in Int \X Int /\ l \in Nat
    BY <2>2, <2>3, ConfigParts DEF RunConfig, Inside
  <2>. QED
    BY <2>2, <2>4
<1>2. \A t \in Int \X Int : ValidAt(t) \in Int
  BY DEF Minute
<1> HIDE DEF tasks, ValidAt
<1>3. \E t \in inits : \A u \in inits : ValidAt(u) <= ValidAt(t)
  <2> DEFINE G == {i \in 1..Len(runs) : runs[i].start \cap inits # {}}
             first(i) == CHOOSE t \in runs[i].start \cap inits : TRUE
             f == [i \in 1..Len(runs) |-> IF i \in G THEN ValidAt(first(i)) ELSE 0]
  <2>1. \A i \in 1..Len(runs) : \A t, u \in runs[i].start : t = u
    <3>1. \A i \in 1..Len(runs) : runs[i] \in RunConfig(M, D)
      OBVIOUS
    <3>. QED
      BY <3>1 DEF RunConfig
  <2>2. \A t \in inits : \E i \in G : t \in runs[i].start
    BY <1>1
  <2>3. \A i \in G : first(i) \in runs[i].start \cap inits
    OBVIOUS
  <2>4. f \in [1..Len(runs) -> Int] /\ \A i \in G : f[i] = ValidAt(first(i))
    <3>1. \A i \in G : ValidAt(first(i)) \in Int
      BY <1>1, <1>2, <2>3
    <3>. QED
      BY <3>1
  <2>5. G # {} /\ G \in SUBSET (1..Len(runs)) /\ Len(runs) \in Nat
    <3>1. \E t : t \in inits
      OBVIOUS
    <3>2. \E i : i \in G
      BY <2>2, <3>1
    <3>. QED
      BY <3>2
  <2> HIDE DEF f, G, first
  <2>6. PICK k \in G : \A j \in G : f[j] <= f[k]
    BY <2>4, <2>5, Largest
  <2>7. ASSUME NEW u \in inits
        PROVE  ValidAt(u) <= ValidAt(first(k))
    <3>1. PICK j \in G : u \in runs[j].start
      BY <2>2
    <3>2. first(j) = u
      BY <2>1, <2>3, <2>5, <3>1
    <3>. QED
      BY <2>4, <2>6, <3>2
  <2>. QED
    BY <2>3, <2>7
<1>4. last \in inits /\ \A u \in inits : ValidAt(u) <= ValidAt(last)
  BY <1>3 DEF LastInit, ValidAt
<1>5. ASSUME NEW t \in tasks
      PROVE  ValidAt(t.init) + t.lead <= ValidAt(last) + sixHours
  <2>1. t.init \in inits /\ ValidAt(t.init) <= ValidAt(last) /\ t.lead <= sixHours
    BY <1>4
  <2>2. ValidAt(t.init) \in Int /\ ValidAt(last) \in Int /\ t.lead \in Nat
    BY <1>1, <1>2, <1>4
  <2>. QED
    BY <2>1, <2>2
<1> DEFINE listed == {v \in observed : \A t \in {last} : v <= Minute(t, day) + sixHours}
<1>6. Unavailable(tasks, observed, day, sixHours) = {t \in tasks : ValidAt(t.init) + t.lead \notin listed}
  BY DEF Unavailable, ValidAt
<1>7. \A t \in tasks : ValidAt(t.init) + t.lead \in listed <=> ValidAt(t.init) + t.lead \in observed
  BY <1>5 DEF ValidAt
<1>. QED
  BY <1>6, <1>7 DEF ValidAt

------------------------------------------------------------------------------
(***************************************************************************)
(* The access service, for every provider and every request.               *)
(***************************************************************************)
ProviderKinds == {"mock", "replay", "run", "platform"}
Operations == {"times", "observation", "leads", "prediction"}

\* A field as a provider makes it.
IsField(v) == \E n, u, t, missing, nan :
  v = [name |-> n, unit |-> u, time |-> t, missing |-> missing, nan |-> nan]

\* What any of the four answers: a refusal, an error, or a list or field.
IsAnswer(q, a) ==
  \/ a \in {Access!Unavailable, Access!NoForecast, Access!Broken}
  \/ \E v : a = Access!Served(v) /\ (q.op \in {"observation", "prediction"} => IsField(v))

LEMMA Answers ==
  ASSUME NEW p, NEW q, p.kind \in ProviderKinds, q.op \in Operations
  PROVE  IsAnswer(q, Access!Local(p, q))
<1>1. ASSUME p.kind = "mock" PROVE IsAnswer(q, Access!MockAsk(p, q))
  <2>1. \A s, n, t : IsField(Access!MadeField(s, n, t))
    BY DEF Access!MadeField, IsField
  <2>. QED
    BY <2>1 DEF Access!MockAsk, IsAnswer, Operations
<1>2. ASSUME p.kind = "replay" PROVE IsAnswer(q, Access!ReplayAsk(p, q))
  <2>1. \A n, t : IsField(Access!FileField(p, n, t))
    BY DEF Access!FileField, IsField
  <2>. QED
    BY <2>1 DEF Access!ReplayAsk, IsAnswer, Operations
<1>3. ASSUME p.kind = "run" PROVE IsAnswer(q, Access!RunAsk(p, q))
  <2>1. \A n, t : IsField(Access!RunField(p, n, t))
    BY DEF Access!RunField, IsField
  <2>. QED
    BY <2>1 DEF Access!RunAsk, IsAnswer, Operations
<1>4. ASSUME p.kind = "platform" PROVE IsAnswer(q, Access!PlatformAsk(p, q))
  <2>1. \A n, t : IsField(Access!PlatformField(p, n, t))
    BY DEF Access!PlatformField, IsField
  <2>2. ASSUME NEW v, NEW unit, IsField(v)
        PROVE  IsField([v EXCEPT !.unit = unit])
    <3>1. PICK n, u, t, missing, nan :
            v = [name |-> n, unit |-> u, time |-> t, missing |-> missing, nan |-> nan]
      BY <2>2 DEF IsField
    <3>2. [v EXCEPT !.unit = unit]
            = [name |-> n, unit |-> unit, time |-> t, missing |-> missing, nan |-> nan]
      BY <3>1
    <3> DEFINE w == [v EXCEPT !.unit = unit]
    <3>3. w = [name |-> n, unit |-> unit, time |-> t, missing |-> missing, nan |-> nan]
      BY <3>2
    <3> HIDE DEF w
    <3>4. IsField(w)
      BY <3>3 DEF IsField
    <3>. QED
      BY <3>4 DEF w
  <2> DEFINE late(v) == [v EXCEPT !.unit = IF "late unit" \in p.faults /\ q.lead = 2 THEN "raw" ELSE @]
             f == Access!PlatformField(p, q.name, q.at)
             forecast == late(Access!PlatformField(p, q.name, q.at + q.lead * Access!Minute))
             a == Access!PlatformAsk(p, q)
  <2>3. IsField(f) /\ IsField(forecast)
    BY <2>1, <2>2
  <2>4. \/ a \in {Access!Broken, Access!Unavailable, Access!Served(f), Access!Served(forecast)}
        \/ q.op \in {"times", "leads"} /\ \E v : a = Access!Served(v)
    BY DEF Access!PlatformAsk, Operations
  <2> HIDE DEF a, f, forecast
  <2>. QED
    BY <2>3, <2>4 DEF IsAnswer, a
<1>. QED
  BY <1>1, <1>2, <1>3, <1>4 DEF ProviderKinds, Access!Local

LEMMA ValueOfServed ==
  ASSUME NEW v
  PROVE  Access!Value(Access!Served(v)) = v /\ Access!Served(v).says = "served"
         /\ Access!Served(v).value = {v}
BY DEF Access!Value, Access!Served

\* Asked through the HTTP service and its client, a provider gives the same list,
\* the same field but for points whose NaN becomes declared, the same refusal; only
\* its own failure arrives as an error of the service (access/http.py).
THEOREM RemoteAgreesHolds ==
  ASSUME NEW p, NEW q, p.kind \in ProviderKinds, q.op \in Operations, p.geographic \in BOOLEAN
  PROVE  Access!RemoteAgrees(p, q)
<1> DEFINE direct == Access!Local(p, q)
           remote == Access!Ask(Access!Http(p, "service"), q)
           list == q.op \in {"times", "leads"}
           Declares(f, g) == /\ f.nan \subseteq g.missing /\ f.missing \subseteq g.missing
                             /\ g.missing \subseteq f.missing \cup f.nan
                             /\ [g EXCEPT !.missing = f.missing] = f
<1>1. remote = Access!Interpret(q, Access!Handle(p, q, direct))
  BY DEF Access!Ask, Access!Http, Access!Answered
<1>2. IsAnswer(q, direct)
  BY Answers
<1>3. \A at \in {"elsewhere", "page", "nobody"} : Access!Ask(Access!Http(p, at), q).says = "error"
  BY DEF Access!Ask, Access!Http, Access!Answered, Access!Response, Access!Interpret,
         Access!SaysUnavailable, Access!Broken
<1> SUFFICES /\ remote.says = "served" <=> direct.says = "served" /\ (list \/ p.geographic)
             /\ remote.says = "unavailable" <=> direct.says \in {"unavailable", "no forecast"}
             /\ remote.says = "served" /\ list => remote.value = direct.value
             /\ remote.says = "served" /\ ~list =>
                  \A f \in direct.value, g \in remote.value : Declares(f, g)
  BY <1>3 DEF Access!RemoteAgrees
<1> HIDE DEF direct, remote, Declares
<1>4. CASE direct \in {Access!Unavailable, Access!NoForecast}
  <2>1. Access!Classify(p, q) \in Access!UNAVAILABLE_CODES
    BY DEF Access!Classify, Access!UNAVAILABLE_CODES
  <2>0. direct.says = "unavailable" \/ direct.says = "no forecast"
    <3>1. CASE direct = Access!Unavailable
      BY <3>1 DEF Access!Unavailable
    <3>2. CASE direct = Access!NoForecast
      BY <3>2 DEF Access!NoForecast
    <3>. QED
      BY <1>4, <3>1, <3>2
  <2>2. Access!Handle(p, q, direct) = Access!Error(404, Access!Classify(p, q))
    <3>1. direct.says # "served" /\ direct.says \in {"unavailable", "no forecast"}
      BY <2>0
    <3>. QED
      BY <3>1 DEF Access!Handle
  <2>3. remote = Access!Unavailable
    BY <1>1, <2>1, <2>2 DEF Access!Interpret, Access!Error, Access!Response, Access!SaysUnavailable
  <2>. QED
    BY <2>0, <2>3 DEF Access!Unavailable
<1>5. CASE direct = Access!Broken
  <2>1. remote = Access!Broken
    BY <1>1, <1>5 DEF Access!Handle, Access!Broken, Access!Interpret, Access!Response
  <2>. QED
    BY <1>5, <2>1 DEF Access!Broken
<1>6. CASE \E v : direct = Access!Served(v) /\ ~list /\ ~p.geographic
  <2>1. PICK v : direct = Access!Served(v)
    BY <1>6
  <2>2. Access!Handle(p, q, direct) = Access!Error(400, "bad-request")
    BY <1>6, <2>1, ValueOfServed DEF Access!Handle
  <2>3. remote = Access!Broken
    BY <1>1, <2>2 DEF Access!Interpret, Access!Error, Access!Response, Access!SaysUnavailable
  <2>. QED
    BY <1>6, <2>1, <2>3, ValueOfServed DEF Access!Broken
<1>7. ASSUME NEW v, direct = Access!Served(v), list \/ p.geographic
      PROVE  remote = Access!Served(Access!DecodeAnswer(q, v))
  <2>1. Access!Handle(p, q, direct) = Access!Payload(v)
    BY <1>7, ValueOfServed DEF Access!Handle
  <2>2. Access!Value(Access!Payload(v)) = v
    BY DEF Access!Value, Access!Payload, Access!Response
  <2> DEFINE response == Access!Payload(v)
  <2>3. response.kind = "payload" /\ response.status = 200 /\ ~Access!SaysUnavailable(response)
    BY DEF Access!Payload, Access!Response, Access!SaysUnavailable
  <2>4. remote = Access!Interpret(q, response) /\ Access!Value(response) = v
    BY <1>1, <2>1, <2>2
  <2> HIDE DEF response
  <2>5. Access!Interpret(q, response) = Access!Served(Access!DecodeAnswer(q, Access!Value(response)))
    BY <2>3 DEF Access!Interpret
  <2>. QED
    BY <2>4, <2>5
<1>8. CASE \E v : direct = Access!Served(v) /\ list
  <2>1. PICK v : direct = Access!Served(v)
    BY <1>8
  <2>2. remote = direct
    BY <1>7, <1>8, <2>1 DEF Access!DecodeAnswer
  <2>. QED
    BY <1>8, <2>1, <2>2, ValueOfServed
<1>9. CASE \E v : direct = Access!Served(v) /\ ~list /\ p.geographic
  <2>1. PICK v : direct = Access!Served(v)
    BY <1>9
  <2> DEFINE g == [v EXCEPT !.missing = @ \cup v.nan]
  <2>2. remote = Access!Served(g)
    BY <1>7, <1>9, <2>1 DEF Access!DecodeAnswer
  <2>3. IsField(v)
    BY <1>2, <1>9, <2>1, ValueOfServed DEF IsAnswer, Operations, Access!Served, Access!Unavailable,
       Access!NoForecast, Access!Broken
  <2>4. Declares(v, g)
    BY <2>3 DEF IsField, Declares
  <2> HIDE DEF g
  <2>5. /\ remote.says = "served" /\ remote.value = {g}
        /\ direct.says = "served" /\ direct.value = {v}
    BY <2>1, <2>2, ValueOfServed
  <2>. QED
    BY <1>9, <2>4, <2>5
<1>. QED
  BY <1>2, <1>4, <1>5, <1>6, <1>8, <1>9 DEF IsAnswer

------------------------------------------------------------------------------
(***************************************************************************)
(* The common grid, for every pair of fields of any size.                  *)
(***************************************************************************)
\* A non-empty set of places has a last one.
LEMMA LastPlace ==
  ASSUME NEW n \in Nat, NEW I \in SUBSET (1..n), I # {}
  PROVE  \E k \in I : \A j \in I : j <= k
<1> DEFINE J == {j \in 1..n : n + 1 - j \in I}
<1>1. \A i \in I : n + 1 - i \in J
  <2> SUFFICES ASSUME NEW i \in I PROVE n + 1 - i \in J
    OBVIOUS
  <2>1. i \in 1..n /\ n + 1 - i \in 1..n /\ n + 1 - (n + 1 - i) = i
    OBVIOUS
  <2>. QED
    BY <2>1
<1>2. J \in SUBSET (1..n) /\ J # {}
  BY <1>1
<1>3. PICK k \in J : \A j \in J : k <= j
  BY <1>2, FirstPlace
<1>4. n + 1 - k \in I /\ k \in 1..n
  BY <1>3
<1>5. \A j \in I : j <= n + 1 - k
  <2> SUFFICES ASSUME NEW j \in I PROVE j <= n + 1 - k
    OBVIOUS
  <2>1. j \in 1..n /\ k <= n + 1 - j
    BY <1>1, <1>3
  <2>. QED
    BY <1>4, <2>1
<1>. QED
  BY <1>4, <1>5

\* An axis, as the constructor of a field's coordinates lets it through.
IsAxis(a) == a \in Seq(Int) /\ Increasing(a)

LEMMA AxisIncreases ==
  ASSUME NEW a, IsAxis(a), NEW i \in 1..Len(a), NEW j \in 1..Len(a), i < j
  PROVE  a[i] < a[j]
<1> SUFFICES ASSUME a[i] >= a[j] PROVE FALSE
  BY DEF IsAxis
<1>1. Len(a) \in Nat /\ \A k \in 1..Len(a) : a[k] \in Int
  BY DEF IsAxis
<1> DEFINE Bad == {k \in 1..Len(a) : i < k /\ a[k] <= a[i]}
<1>2. Bad \in SUBSET (1..Len(a)) /\ Bad # {}
  BY <1>1
<1>3. PICK k \in Bad : \A l \in Bad : k <= l
  BY <1>1, <1>2, FirstPlace
<1>4. k \in 2..Len(a) /\ k - 1 \in 1..Len(a) /\ k - 1 \notin Bad /\ i <= k - 1
  BY <1>1, <1>3
<1>5. a[k - 1] < a[k]
  BY <1>4 DEF IsAxis, Increasing
<1>. QED
  BY <1>1, <1>3, <1>4, <1>5

\* The places of a source an output point is made of.
Near(axis, at) == {i \in 1..Len(axis) :
                     \/ axis[i] = at
                     \/ i > 1 /\ axis[i - 1] < at /\ at < axis[i]
                     \/ i < Len(axis) /\ axis[i] < at /\ at < axis[i + 1]}

\* In the span of the axis an interpolated value is there if and only if the
\* values it is made of are.
LEMMA NearOnAxis ==
  ASSUME NEW src, IsAxis(src), NEW at \in Int
  PROVE  /\ Near(src, at) # {} <=> InRange(src, at)
         /\ \A k \in 1..Len(src) : Near(src, src[k]) = {k}
         /\ InRange(src, at) =>
              \A values : Interpolate(src, values, at) # {}
                            <=> \A i \in Near(src, at) : values[i] # {}
<1>1. /\ Len(src) \in Nat /\ Len(src) >= 2 /\ \A k \in 1..Len(src) : src[k] \in Int
      /\ \A i, j \in 1..Len(src) : i < j => src[i] < src[j]
  BY AxisIncreases DEF IsAxis, Increasing
<1>2. Near(src, at) # {} => InRange(src, at)
  <2> SUFFICES ASSUME NEW i \in Near(src, at) PROVE InRange(src, at)
    OBVIOUS
  <2>1. i \in 1..Len(src) /\ 1 \in 1..Len(src) /\ Len(src) \in 1..Len(src)
    BY <1>1 DEF Near
  <2>2. src[1] <= src[i] /\ src[i] <= src[Len(src)]
    BY <1>1, <2>1
  <2>3. CASE src[i] = at
    BY <2>2, <2>3 DEF InRange
  <2>4. CASE i > 1 /\ src[i - 1] < at /\ at < src[i]
    <3>1. i - 1 \in 1..Len(src) /\ src[1] <= src[i - 1]
      BY <1>1, <2>1, <2>4
    <3>. QED
      BY <1>1, <2>1, <2>2, <2>4, <3>1 DEF InRange
  <2>5. CASE i < Len(src) /\ src[i] < at /\ at < src[i + 1]
    <3>1. i + 1 \in 1..Len(src) /\ src[i + 1] <= src[Len(src)]
      BY <1>1, <2>1, <2>5
    <3>. QED
      BY <1>1, <2>1, <2>2, <2>5, <3>1 DEF InRange
  <2>. QED
    BY <2>3, <2>4, <2>5 DEF Near
<1>3. \A k \in 1..Len(src) : Near(src, src[k]) = {k}
  <2> SUFFICES ASSUME NEW k \in 1..Len(src), NEW i \in 1..Len(src)
               PROVE  i \in Near(src, src[k]) <=> i = k
    BY DEF Near
  <2>1. i # k => src[i] # src[k]
    BY <1>1
  <2>2. ~(i > 1 /\ src[i - 1] < src[k] /\ src[k] < src[i])
    <3> SUFFICES ASSUME i > 1, src[i - 1] < src[k], src[k] < src[i] PROVE FALSE
      OBVIOUS
    <3>1. i - 1 \in 1..Len(src)
      BY <1>1
    <3>2. ~(k < i - 1) /\ k # i - 1 /\ k # i /\ ~(i < k)
      BY <1>1, <3>1
    <3>. QED
      BY <1>1, <3>1, <3>2
  <2>3. ~(i < Len(src) /\ src[i] < src[k] /\ src[k] < src[i + 1])
    <3> SUFFICES ASSUME i < Len(src), src[i] < src[k], src[k] < src[i + 1] PROVE FALSE
      OBVIOUS
    <3>1. i + 1 \in 1..Len(src)
      BY <1>1
    <3>2. ~(i + 1 < k) /\ k # i + 1 /\ k # i /\ ~(k < i)
      BY <1>1, <3>1
    <3>. QED
      BY <1>1, <3>1, <3>2
  <2>. QED
    BY <2>1, <2>2, <2>3 DEF Near
<1> DEFINE below == {i \in 1..Len(src) : src[i] <= at}
<1>4. ASSUME InRange(src, at)
      PROVE  \E i \in below : /\ \A j \in below : j <= i
                              /\ Max(below) = i
                              /\ src[i] = at \/ (i < Len(src) /\ src[i] < at /\ at < src[i + 1])
  <2>1. 1 \in below /\ below \in SUBSET (1..Len(src))
    BY <1>1, <1>4 DEF InRange
  <2>2. PICK i \in below : \A j \in below : j <= i
    BY <1>1, <2>1, LastPlace
  <2>3. \A m \in below : (\A j \in below : m >= j) => m = i
    BY <1>1, <2>2
  <2>4. Max(below) = i
    BY <1>1, <2>2, <2>3 DEF Max
  <2>5. src[i] = at \/ src[i] < at
    BY <1>1
  <2>6. ASSUME src[i] < at
        PROVE  i < Len(src) /\ at < src[i + 1]
    <3>1. i # Len(src)
      BY <1>1, <1>4, <2>6 DEF InRange
    <3>2. i + 1 \in 1..Len(src) /\ i + 1 \notin below
      BY <1>1, <2>2, <3>1
    <3>. QED
      BY <1>1, <3>1, <3>2
  <2>. QED
    BY <2>2, <2>4, <2>5, <2>6
<1> DEFINE place == IF below = {} THEN 1 ELSE Max(below)
<1>6. \A values : Interpolate(src, values, at) =
        IF below = {} \/ place = Len(src) \/ src[place] = at THEN values[place]
        ELSE {v + ((w - v) * (at - src[place])) \div (src[place + 1] - src[place]) :
                v \in values[place], w \in values[place + 1]}
  BY DEF Interpolate
<1> HIDE DEF place
<1>5. ASSUME InRange(src, at)
      PROVE  /\ Near(src, at) # {}
             /\ \A values : Interpolate(src, values, at) # {}
                            <=> \A i \in Near(src, at) : values[i] # {}
  <2>1. PICK i \in below : /\ \A j \in below : j <= i
                           /\ Max(below) = i
                           /\ src[i] = at \/ (i < Len(src) /\ src[i] < at /\ at < src[i + 1])
    BY <1>4, <1>5
  <2>4. place = i /\ below # {}
    BY <2>1 DEF place
  <2>2. CASE src[i] = at
    <3>1. Near(src, at) = {i}
      BY <1>3, <2>2
    <3>2. \A values : Interpolate(src, values, at) = values[i]
      BY <1>6, <2>2, <2>4
    <3>. QED
      BY <3>1, <3>2
  <2>3. CASE i < Len(src) /\ src[i] < at /\ at < src[i + 1]
    <3>1. i \in 1..Len(src) /\ i + 1 \in 1..Len(src)
      BY <1>1, <2>3
    <3>2. Near(src, at) = {i, i + 1}
      <4> SUFFICES ASSUME NEW k \in 1..Len(src)
                   PROVE  k \in Near(src, at) <=> k = i \/ k = i + 1
        BY <3>1 DEF Near
      <4>1. k < i => src[k] < src[i] /\ (k + 1 \in 1..Len(src) /\ src[k + 1] <= src[i])
        BY <1>1, <3>1
      <4>2. k > i + 1 => src[k] > src[i + 1] /\ (k - 1 \in 1..Len(src) /\ src[k - 1] >= src[i + 1])
        BY <1>1, <3>1
      <4>3. CASE k < i
        <5>1. src[k] < at /\ ~(at < src[k + 1]) /\ ~(at < src[k])
          BY <1>1, <2>3, <3>1, <4>1, <4>3
        <5>. QED
          BY <1>1, <4>3, <5>1 DEF Near
      <4>4. CASE k > i + 1
        <5>1. src[k] > at /\ ~(src[k - 1] < at) /\ ~(src[k] < at)
          BY <1>1, <2>3, <3>1, <4>2, <4>4
        <5>. QED
          BY <1>1, <4>4, <5>1 DEF Near
      <4>5. CASE k = i
        BY <2>3, <4>5 DEF Near
      <4>6. CASE k = i + 1
        BY <1>1, <2>3, <3>1, <4>6 DEF Near
      <4>. QED
        BY <1>1, <3>1, <4>3, <4>4, <4>5, <4>6
    <3>3. \A values : Interpolate(src, values, at)
            = {v + ((w - v) * (at - src[i])) \div (src[i + 1] - src[i]) :
                 v \in values[i], w \in values[i + 1]}
      <4>1. below # {} /\ i # Len(src) /\ src[i] # at
        BY <1>1, <2>3, <3>1
      <4>. QED
        BY <1>6, <2>4, <4>1
    <3>4. \A values : Interpolate(src, values, at) # {} <=> values[i] # {} /\ values[i + 1] # {}
      <4> SUFFICES ASSUME NEW values
                   PROVE  Interpolate(src, values, at) # {} <=> values[i] # {} /\ values[i + 1] # {}
        OBVIOUS
      <4> DEFINE P(v, w) == v + ((w - v) * (at - src[i])) \div (src[i + 1] - src[i])
      <4>1. Interpolate(src, values, at) = {P(v, w) : v \in values[i], w \in values[i + 1]}
        BY <3>3
      <4> HIDE DEF P
      <4> DEFINE out == Interpolate(src, values, at)
      <4>2. ASSUME NEW x \in out PROVE values[i] # {} /\ values[i + 1] # {}
        BY <4>1
      <4>3. ASSUME NEW v \in values[i], NEW w \in values[i + 1] PROVE P(v, w) \in out
        BY <4>1
      <4>4. ASSUME values[i] # {}, values[i + 1] # {} PROVE \E x : x \in out
        <5>1. PICK v \in values[i] : TRUE
          BY <4>4
        <5>2. PICK w \in values[i + 1] : TRUE
          BY <4>4
        <5>. QED
          BY <4>3
      <4> HIDE DEF out
      <4>5. out # {} <=> \E x : x \in out
        OBVIOUS
      <4>. QED
        BY <4>2, <4>4, <4>5 DEF out
    <3>. QED
      BY <3>2, <3>4
  <2>. QED
    BY <2>1, <2>2, <2>3
<1>. QED
  BY <1>2, <1>3, <1>5

\* A field that its constructor lets through, of any size and with any data.
IsFrame(f) ==
  /\ \E unit, variable, time, lon, lat, data, mask :
       f = [lon |-> lon, lat |-> lat, data |-> data, mask |-> mask,
            unit |-> unit, variable |-> variable, time |-> time]
  /\ IsAxis(f.lon) /\ IsAxis(f.lat)
  /\ ValidField(f)

IsGrid(g) == IsAxis(g.lon) /\ IsAxis(g.lat)

\* What is missing of a field, declared or not.
AllMissing(f) == Holes(f) \cup {c \in Cells(f) : f.data[c] = {}}

\* Through the wire a field keeps everything, and all that is missing is declared.
LEMMA WireDeclares ==
  ASSUME NEW f, IsFrame(f)
  PROVE  LET g == DecodeField(EncodeField(f))
         IN /\ Decodes(EncodeField(f))
            /\ IsFrame(g)
            /\ g.lon = f.lon /\ g.lat = f.lat /\ g.data = f.data
            /\ g.unit = f.unit /\ g.variable = f.variable /\ g.time = f.time
            /\ Holes(g) = AllMissing(f)
<1> DEFINE e == EncodeField(f)
           g == DecodeField(e)
<1>1. /\ e.lon = f.lon /\ e.lat = f.lat /\ e.values = f.data /\ e.mask = f.mask
      /\ e.texts = {"name", "variable", "unit"} /\ e.zoned = TRUE
      /\ e.unit = f.unit /\ e.variable = f.variable /\ e.time = f.time
  BY DEF EncodeField
<1>2. /\ DOMAIN f.data = Cells(f) /\ \A m \in f.mask : m \subseteq Cells(f)
      /\ Increasing(f.lon) /\ Increasing(f.lat)
  BY DEF IsFrame, ValidField
<1>3. Decodes(e)
  BY <1>1, <1>2 DEF Decodes, Cells, Rows, Columns
<1>4. MissingPoints(e) = AllMissing(f)
  BY <1>1, <1>2 DEF MissingPoints, AllMissing, Holes
<1> HIDE DEF e
<1>5. /\ g.lon = f.lon /\ g.lat = f.lat /\ g.data = f.data
      /\ g.unit = f.unit /\ g.variable = f.variable /\ g.time = f.time
      /\ g.mask = IF AllMissing(f) = {} THEN {} ELSE {AllMissing(f)}
      /\ g = [lon |-> g.lon, lat |-> g.lat, data |-> g.data, mask |-> g.mask,
              unit |-> g.unit, variable |-> g.variable, time |-> g.time]
  BY <1>1, <1>4 DEF DecodeField
<1> HIDE DEF g
<1>6. Holes(g) = AllMissing(f)
  BY <1>5 DEF Holes
<1>7. AllMissing(f) \subseteq Cells(f)
  BY <1>2 DEF AllMissing, Holes
<1>8. Cells(g) = Cells(f)
  BY <1>5 DEF Cells, Rows, Columns
<1>9. ValidField(g)
  BY <1>2, <1>5, <1>7, <1>8 DEF ValidField
<1>10. IsFrame(g)
  BY <1>5, <1>9 DEF IsFrame
<1>. QED
  BY <1>3, <1>5, <1>6, <1>10 DEF g, e

\* The source values that a point of the common grid is made of are all there.
There(f, target, c) ==
  LET from == Near(f.lat, target.lat[c[1]]) \X Near(f.lon, target.lon[c[2]])
  IN from # {} /\ \A s \in from : s \notin Holes(f) /\ f.data[s] # {}

LEMMA NearIsOnIt ==
  ASSUME NEW axis, NEW at
  PROVE  Near(axis, at) \subseteq 1..Len(axis)
BY DEF Near

LEMMA RegridKeepsHoles ==
  ASSUME NEW f, IsFrame(f), NEW target, IsGrid(target), Holes(f) = AllMissing(f)
  PROVE  LET t == Regrid(f, target)
         IN /\ ValidField(t) /\ t.lon = target.lon /\ t.lat = target.lat
            /\ t.unit = f.unit /\ t.variable = f.variable /\ t.time = f.time
            /\ \A c \in Cells(target) :
                 /\ c \notin Holes(t) <=> There(f, target, c)
                 /\ c \notin Holes(t) => Values(t)[c] # {}
<1> DEFINE t == Regrid(f, target)
<1>1. /\ IsAxis(f.lon) /\ IsAxis(f.lat) /\ IsAxis(target.lon) /\ IsAxis(target.lat)
      /\ ValidField(f)
  BY DEF IsFrame, IsGrid
<1>2. \A c \in Cells(f) : c \notin Holes(f) <=> c \notin Holes(f) /\ f.data[c] # {}
  BY DEF AllMissing
<1>3. \A c \in Cells(target) :
        c[1] \in 1..Len(target.lat) /\ c[2] \in 1..Len(target.lon) /\ c = <<c[1], c[2]>>
  BY DEF Cells, Rows, Columns
<1>4. CASE f.lon = target.lon /\ f.lat = target.lat
  <2>1. t = f
    BY <1>4 DEF Regrid
  <2>2. Cells(f) = Cells(target)
    BY <1>4 DEF Cells, Rows, Columns
  <2>3. ASSUME NEW c \in Cells(target)
        PROVE  There(f, target, c) <=> c \notin Holes(f) /\ f.data[c] # {}
    <3>1. Near(f.lat, target.lat[c[1]]) = {c[1]} /\ Near(f.lon, target.lon[c[2]]) = {c[2]}
      <4>1. target.lat[c[1]] \in Int /\ target.lon[c[2]] \in Int
        BY <1>1, <1>3 DEF IsAxis
      <4>. QED
        BY <1>1, <1>3, <1>4, <4>1, NearOnAxis
    <3>2. {c[1]} \X {c[2]} = {c}
      BY <1>3
    <3>. QED
      BY <3>1, <3>2 DEF There
  <2>4. \A c \in Cells(f) : c \notin Holes(f) => Values(f)[c] = f.data[c]
    BY DEF Values
  <2>. QED
    BY <1>1, <1>2, <1>4, <2>1, <2>2, <2>3, <2>4
<1>5. CASE ~(f.lon = target.lon /\ f.lat = target.lat)
  <2> DEFINE values == Values(f)
             row(r) == [i \in Columns(f) |-> values[<<r, i>>]]
             Along(r, x) == Interpolate(f.lon, row(r), x)
             column(x) == [r \in Rows(f) |-> Along(r, x)]
             Out(c) == Interpolate(f.lat, column(target.lon[c[2]]), target.lat[c[1]])
             out == [c \in Cells(target) |-> Out(c)]
             mask == Outside(f, target) \cup {c \in Cells(target) : out[c] = {}}
             data == [c \in Cells(target) |-> IF c \in mask THEN {} ELSE out[c]]
  <2>1. t = [f EXCEPT !.lon = target.lon, !.lat = target.lat, !.mask = {mask}, !.data = data]
    BY <1>5 DEF Regrid
  <2>4. mask \subseteq Cells(target)
    <3> HIDE DEF out
    <3>. QED
      BY DEF Outside
  <2> HIDE DEF mask, out
  <2>5. DOMAIN data = Cells(target)
    OBVIOUS
  <2> HIDE DEF data
  <2>2. /\ t.lon = target.lon /\ t.lat = target.lat /\ t.mask = {mask} /\ t.data = data
        /\ t.unit = f.unit /\ t.variable = f.variable /\ t.time = f.time
    BY <2>1 DEF IsFrame
  <2> HIDE DEF t
  <2>3. Holes(t) = mask /\ Cells(t) = Cells(target)
    BY <2>2 DEF Holes, Cells, Rows, Columns
  <2>6. ValidField(t)
    BY <1>1, <2>2, <2>3, <2>4, <2>5 DEF ValidField, IsAxis
  <2> HIDE DEF values, row, Along, column
  <2>7. ASSUME NEW y \in Int, NEW x \in Int, InRange(f.lat, y), InRange(f.lon, x)
        PROVE  Interpolate(f.lat, column(x), y) # {}
                 <=> \A r \in Near(f.lat, y), i \in Near(f.lon, x) : values[<<r, i>>] # {}
    <3>1. Interpolate(f.lat, column(x), y) # {} <=> \A r \in Near(f.lat, y) : column(x)[r] # {}
      <4>1. \A v : Interpolate(f.lat, v, y) # {} <=> \A r \in Near(f.lat, y) : v[r] # {}
        BY <1>1, <2>7, NearOnAxis
      <4>. QED
        BY <4>1
    <3>2. ASSUME NEW r \in Near(f.lat, y)
          PROVE  column(x)[r] # {} <=> \A i \in Near(f.lon, x) : values[<<r, i>>] # {}
      <4>1. r \in Rows(f)
        BY NearIsOnIt DEF Rows
      <4>2. column(x)[r] = Along(r, x)
        BY <4>1 DEF column
      <4>3. Along(r, x) # {} <=> \A i \in Near(f.lon, x) : row(r)[i] # {}
        <5>1. \A v : Interpolate(f.lon, v, x) # {} <=> \A i \in Near(f.lon, x) : v[i] # {}
          BY <1>1, <2>7, NearOnAxis
        <5>. QED
          BY <5>1 DEF Along
      <4>4. \A i \in Near(f.lon, x) : row(r)[i] = values[<<r, i>>]
        BY NearIsOnIt DEF row, Columns
      <4>. QED
        BY <4>2, <4>3, <4>4
    <3>. QED
      BY <3>1, <3>2
  <2>8. ASSUME NEW r, NEW i, r \in Rows(f), i \in Columns(f)
        PROVE  values[<<r, i>>] # {} <=> <<r, i>> \notin Holes(f) /\ f.data[<<r, i>>] # {}
    <3>1. <<r, i>> \in Cells(f)
      BY <2>8 DEF Cells
    <3>. QED
      BY <3>1 DEF values, Values
  <2>9. ASSUME NEW c \in Cells(target)
        PROVE  /\ c \notin mask <=> There(f, target, c)
               /\ c \notin mask => Values(t)[c] # {}
    <3> DEFINE y == target.lat[c[1]]
               x == target.lon[c[2]]
    <3>1. y \in Int /\ x \in Int
      BY <1>1, <1>3 DEF IsAxis
    <3>2. out[c] = Interpolate(f.lat, column(x), y)
      BY DEF out
    <3>3. c \notin mask <=> InRange(f.lat, y) /\ InRange(f.lon, x) /\ out[c] # {}
      BY DEF mask, Outside
    <3>4. There(f, target, c) <=>
            /\ Near(f.lat, y) # {} /\ Near(f.lon, x) # {}
            /\ \A r \in Near(f.lat, y), i \in Near(f.lon, x) :
                 <<r, i>> \notin Holes(f) /\ f.data[<<r, i>>] # {}
      <4> DEFINE A == Near(f.lat, y)
                 B == Near(f.lon, x)
      <4>1. There(f, target, c) <=> A \X B # {} /\ \A s \in A \X B : s \notin Holes(f) /\ f.data[s] # {}
        BY DEF There
      <4> HIDE DEF A, B
      <4>2. A \X B # {} <=> A # {} /\ B # {}
        <5>1. \A a \in A, b \in B : <<a, b>> \in A \X B
          OBVIOUS
        <5>2. \A s \in A \X B : s[1] \in A /\ s[2] \in B
          OBVIOUS
        <5>. QED
          BY <5>1, <5>2
      <4>3. (\A s \in A \X B : s \notin Holes(f) /\ f.data[s] # {})
              <=> \A r \in A, i \in B : <<r, i>> \notin Holes(f) /\ f.data[<<r, i>>] # {}
        OBVIOUS
      <4>. QED
        BY <4>1, <4>2, <4>3 DEF A, B
    <3>5. \A r \in Near(f.lat, y), i \in Near(f.lon, x) : r \in Rows(f) /\ i \in Columns(f)
      BY NearIsOnIt DEF Rows, Columns
    <3>6. (Near(f.lat, y) # {} <=> InRange(f.lat, y)) /\ (Near(f.lon, x) # {} <=> InRange(f.lon, x))
      BY <1>1, <3>1, NearOnAxis
    <3>7. c \notin mask => data[c] = out[c]
      BY DEF data
    <3>8. c \notin mask => Values(t)[c] # {}
      BY <2>2, <2>3, <3>3, <3>7 DEF Values
    <3> HIDE DEF y, x
    <3>. QED
      BY <2>7, <2>8, <3>1, <3>2, <3>3, <3>4, <3>5, <3>6, <3>8
  <2>. QED
    BY <2>2, <2>3, <2>6, <2>9 DEF t
<1>. QED
  BY <1>4, <1>5

\* A hole stays a hole, through wire, grid and interpolation.
THEOREM HolesStayHolds ==
  ASSUME NEW truth, NEW prediction, NEW target,
         IsFrame(truth), IsFrame(prediction), IsGrid(target), Aligns(truth, prediction)
  PROVE  HolesStay(truth, prediction, target)
<1> DEFINE t0 == DecodeField(EncodeField(truth))
           p0 == DecodeField(EncodeField(prediction))
           t == Regrid(t0, target)
           p == Regrid(p0, target)
           real == {c \in Cells(target) : There(truth, target, c) /\ There(prediction, target, c)}
           out == RunOne(t0, p0, target, truth.unit, {"yes_or_no"}, {0}, {})
<1> SUFFICES /\ Decodes(EncodeField(truth)) /\ ValidField(t0) /\ ValidField(t)
             /\ ValidPoints(t, p) = real
             /\ \A c \in real : Values(t)[c] # {} /\ Values(p)[c] # {}
             /\ out.outcome = "unavailable" <=> real = {}
  BY DEF HolesStay, There, Near
<1>1. /\ Decodes(EncodeField(truth)) /\ IsFrame(t0)
      /\ t0.lon = truth.lon /\ t0.lat = truth.lat /\ t0.data = truth.data
      /\ t0.unit = truth.unit /\ t0.variable = truth.variable /\ t0.time = truth.time
      /\ Holes(t0) = AllMissing(truth)
  BY WireDeclares
<1>2. /\ IsFrame(p0)
      /\ p0.lon = prediction.lon /\ p0.lat = prediction.lat /\ p0.data = prediction.data
      /\ p0.unit = prediction.unit /\ p0.variable = prediction.variable /\ p0.time = prediction.time
      /\ Holes(p0) = AllMissing(prediction)
  BY WireDeclares
<1> HIDE DEF t0, p0
<1>3. AllMissing(t0) = AllMissing(truth) /\ AllMissing(p0) = AllMissing(prediction)
  BY <1>1, <1>2 DEF AllMissing, Cells, Rows, Columns
<1>4. \A c : /\ There(t0, target, c) <=> There(truth, target, c)
             /\ There(p0, target, c) <=> There(prediction, target, c)
  <2>1. ASSUME NEW f, NEW g, IsFrame(f), g.lon = f.lon, g.lat = f.lat, g.data = f.data,
               Holes(g) = AllMissing(f), NEW c
        PROVE  There(g, target, c) <=> There(f, target, c)
    <3> DEFINE from == Near(f.lat, target.lat[c[1]]) \X Near(f.lon, target.lon[c[2]])
    <3>1. from \subseteq Cells(f)
      BY NearIsOnIt DEF Cells, Rows, Columns
    <3>2. There(g, target, c) <=> from # {} /\ \A s \in from : s \notin Holes(g) /\ g.data[s] # {}
      BY <2>1 DEF There
    <3>3. There(f, target, c) <=> from # {} /\ \A s \in from : s \notin Holes(f) /\ f.data[s] # {}
      BY DEF There
    <3> HIDE DEF from
    <3>4. \A s \in from : s \notin Holes(g) /\ g.data[s] # {}
                            <=> s \notin Holes(f) /\ f.data[s] # {}
      BY <2>1, <3>1 DEF AllMissing
    <3>. QED
      BY <3>2, <3>3, <3>4
  <2>. QED
    BY <1>1, <1>2, <2>1
<1>5. /\ ValidField(t) /\ t.lon = target.lon /\ t.lat = target.lat
      /\ \A c \in Cells(target) :
           /\ c \notin Holes(t) <=> There(t0, target, c)
           /\ c \notin Holes(t) => Values(t)[c] # {}
  BY <1>1, <1>3, RegridKeepsHoles
<1>6. \A c \in Cells(target) :
        /\ c \notin Holes(p) <=> There(p0, target, c)
        /\ c \notin Holes(p) => Values(p)[c] # {}
  BY <1>2, <1>3, RegridKeepsHoles
<1>7. ValidPoints(t, p) = real
  <2>1. Cells(t) = Cells(target)
    BY <1>5 DEF Cells, Rows, Columns
  <2> HIDE DEF t, p
  <2>. QED
    BY <1>4, <1>5, <1>6, <2>1 DEF ValidPoints
<1>8. \A c \in real : Values(t)[c] # {} /\ Values(p)[c] # {}
  <2> HIDE DEF t, p
  <2>. QED
    BY <1>4, <1>5, <1>6
<1>9. out.outcome = "unavailable" <=> real = {}
  <2>1. t0.unit = truth.unit /\ Aligns(t0, p0)
    BY <1>1, <1>2 DEF Aligns
  <2> HIDE DEF real
  <2>. QED
    BY <1>7, <2>1 DEF RunOne
<1>10. ValidField(t0)
  BY <1>1 DEF IsFrame
<1>. QED
  BY <1>1, <1>5, <1>7, <1>8, <1>9, <1>10

\* The common grid that a ruler gives is one, whatever its extent.
LEMMA TargetsAreGrids ==
  ASSUME NEW extent \in [1..4 -> Int], NEW resolution \in Nat \ {0}
  PROVE  IsGrid(TargetCoords(extent, resolution))
<1>1. ASSUME NEW a \in Int, NEW b \in Int
      PROVE  IsAxis(RegularAxis(a, b, resolution))
  <2> DEFINE n == IF Round(b - a, resolution) < 1 THEN 2 ELSE Round(b - a, resolution) + 1
             axis == [i \in 1..n |-> a + resolution * (i - 1)]
  <2>1. Round(b - a, resolution) \in Int
    <3>1. (b - a) \div resolution \in Int
      OBVIOUS
    <3>. QED
      BY <3>1 DEF Round
  <2>2. n \in Nat /\ n >= 2
    BY <2>1
  <2> HIDE DEF n
  <2>3. axis \in Seq(Int) /\ Len(axis) = n
    <3>1. \A i \in 1..n : a + resolution * (i - 1) \in Int
      OBVIOUS
    <3>. QED
      BY <2>2, <3>1
  <2>4. \A i \in 2..n : axis[i - 1] < axis[i]
    <3> SUFFICES ASSUME NEW i \in 2..n PROVE axis[i - 1] < axis[i]
      OBVIOUS
    <3>1. i \in 1..n /\ i - 1 \in 1..n
      BY <2>2
    <3>2. resolution * (i - 1) = resolution * (i - 2) + resolution /\ resolution * (i - 2) \in Int
      OBVIOUS
    <3>3. axis[i] = a + resolution * (i - 1) /\ axis[i - 1] = a + resolution * (i - 2)
      BY <3>1
    <3>. QED
      BY <3>2, <3>3
  <2>5. axis = RegularAxis(a, b, resolution)
    BY DEF RegularAxis, n
  <2> HIDE DEF axis
  <2>. QED
    BY <2>2, <2>3, <2>4, <2>5 DEF IsAxis, Increasing
<1>. QED
  BY <1>1 DEF IsGrid, TargetCoords

------------------------------------------------------------------------------
(***************************************************************************)
(* Answers, for every table, query and expansion.                          *)
(***************************************************************************)
Ranges == {"lead_from", "lead_to", "time_from", "time_to", "init_from", "init_to"}

\* A query of the page: each end of a range is lists or not, leads only as a
\* range, and no half window, which this family has none of.
IsQuery(q) ==
  /\ \A e \in Ranges : q[e] \in SUBSET Int /\ \A a, b \in q[e] : a = b
  /\ q.lead = <<>> /\ q.half_window = <<>>

\* A stored row: its times are times.
IsRow(r) == \A c \in {"lead_minutes", "init_time", "valid_time"} : r[c] \in 0..Ever

FilterNames == {"dtime", "level", "half_window", "member", "time", "init_time"}
ColumnNames == {"lead_minutes", "level", "half_window", "member", "valid_time", "init_time"}

\* Each filter has a column of its own.
LEMMA Translated ==
  ASSUME NEW s, DOMAIN s \subseteq FilterNames
  PROVE  /\ DOMAIN Translate(s) = {Column(n) : n \in DOMAIN s}
         /\ \A n \in DOMAIN s :
              Translate(s)[Column(n)] =
                IF n \in {"time", "init_time", "dtime"} THEN AsRange(s[n]) ELSE Among(ToSet(s[n]))
<1>1. DOMAIN Translate(s) = {Column(n) : n \in DOMAIN s}
  BY DEF Translate
<1>2. ASSUME NEW n \in DOMAIN s
      PROVE  Translate(s)[Column(n)] =
               IF n \in {"time", "init_time", "dtime"} THEN AsRange(s[n]) ELSE Among(ToSet(s[n]))
  <2> DEFINE c == Column(n)
             m == CHOOSE k \in DOMAIN s : Column(k) = c
  <2>1. \A k \in DOMAIN s : Column(k) = c => k = n
    BY DEF Column, FilterNames
  <2>2. m = n
    BY <2>1
  <2>3. c \in {Column(k) : k \in DOMAIN s}
    OBVIOUS
  <2>4. c \in {"valid_time", "init_time", "lead_minutes"} <=> n \in {"time", "init_time", "dtime"}
    BY DEF Column, FilterNames
  <2>5. Translate(s)[c] = IF c \in {"valid_time", "init_time", "lead_minutes"} THEN AsRange(s[m])
                          ELSE Among(ToSet(s[m]))
    BY <2>3 DEF Translate
  <2>. QED
    BY <2>2, <2>4, <2>5
<1>. QED
  BY <1>1, <1>2

\* A range of which one end or both are lists.
LEMMA RangeFits ==
  ASSUME NEW from \in SUBSET Int, NEW to \in SUBSET Int,
         \A a, b \in from : a = b, \A a, b \in to : a = b, NEW v \in 0..Ever
  PROVE  Fits(v, AsRange(<<Default(from, 0), Default(to, Ever)>>))
           <=> (\A b \in from : b <= v) /\ (\A b \in to : v <= b)
<1> DEFINE lo == Default(from, 0)
           hi == Default(to, Ever)
<1>1. lo \in Int /\ (lo <= v <=> \A b \in from : b <= v)
  <2>1. CASE from = {}
    BY <2>1 DEF Default
  <2>2. CASE from # {}
    <3>1. lo \in from
      BY <2>2 DEF Default
    <3>. QED
      BY <3>1
  <2>. QED
    BY <2>1, <2>2
<1>2. hi \in Int /\ (v <= hi <=> \A b \in to : v <= b)
  <2>1. CASE to = {}
    BY <2>1 DEF Default, Ever
  <2>2. CASE to # {}
    <3>1. hi \in to
      BY <2>2 DEF Default
    <3>. QED
      BY <3>1
  <2>. QED
    BY <2>1, <2>2
<1>3. AsRange(<<lo, hi>>) = Between(lo, hi)
  BY DEF AsRange
<1>4. Fits(v, Between(lo, hi)) <=> lo <= v /\ v <= hi
  BY DEF Fits, Between
<1>. QED
  BY <1>1, <1>2, <1>3, <1>4

\* The rows that the filters select are those that the page picks.
LEMMA SelectsWhatIsPicked ==
  ASSUME NEW table, \A r \in table : IsRow(r), NEW q, IsQuery(q)
  PROVE  Where(table, Translate(FiltersFromQuery(q))) = {r \in table : Picks(q, r)}
<1> DEFINE Ends(from, to) == IF from # {} \/ to # {} THEN <<Default(from, 0), Default(to, Ever)>> ELSE <<>>
           s == FiltersFromQuery(q)
           lists == [dtime |-> Ends(q.lead_from, q.lead_to), level |-> q.level,
                     half_window |-> q.half_window, member |-> q.member,
                     time |-> Ends(q.time_from, q.time_to),
                     init_time |-> Ends(q.init_from, q.init_to)]
           t == Translate(s)
<1>1. s = [f \in {n \in DOMAIN lists : lists[n] # <<>>} |-> lists[f]]
  BY DEF FiltersFromQuery, IsQuery
<1>2. DOMAIN lists = FilterNames
  BY DEF FilterNames
<1>3. /\ lists.dtime = Ends(q.lead_from, q.lead_to) /\ lists.level = q.level
      /\ lists.half_window = <<>> /\ lists.member = q.member
      /\ lists.time = Ends(q.time_from, q.time_to) /\ lists.init_time = Ends(q.init_from, q.init_to)
  BY DEF IsQuery
<1> HIDE DEF lists, s
<1>4. /\ DOMAIN s = {n \in FilterNames : lists[n] # <<>>}
      /\ \A n \in FilterNames : lists[n] # <<>> => s[n] = lists[n]
  BY <1>1, <1>2
<1>5. /\ DOMAIN t = {Column(n) : n \in DOMAIN s}
      /\ \A n \in DOMAIN s :
           t[Column(n)] = IF n \in {"time", "init_time", "dtime"} THEN AsRange(s[n])
                          ELSE Among(ToSet(s[n]))
  BY <1>4, Translated
<1> HIDE DEF t
<1>6. SUFFICES ASSUME NEW r \in table
               PROVE  (\A c \in DOMAIN t : Fits(r[c], t[c])) <=> Picks(q, r)
  BY DEF Where, t, s
<1> DEFINE Ok(n) == lists[n] # <<>> => Fits(r[Column(n)], t[Column(n)])
<1>7. (\A c \in DOMAIN t : Fits(r[c], t[c])) <=> \A n \in FilterNames : Ok(n)
  BY <1>4, <1>5
<1>8. ASSUME NEW n \in {"dtime", "time", "init_time"}, NEW from, NEW to,
             from \in SUBSET Int, to \in SUBSET Int,
             \A a, b \in from : a = b, \A a, b \in to : a = b,
             lists[n] = Ends(from, to), r[Column(n)] \in 0..Ever
      PROVE  Ok(n) <=> /\ \A b \in from : b <= r[Column(n)]
                       /\ \A b \in to : r[Column(n)] <= b
  <2> DEFINE list == <<Default(from, 0), Default(to, Ever)>>
  <2>1. list # <<>>
    OBVIOUS
  <2>2. CASE from # {} \/ to # {}
    <3>1. lists[n] = list /\ lists[n] # <<>>
      BY <1>8, <2>1, <2>2
    <3>2. n \in FilterNames /\ n \in {"time", "init_time", "dtime"}
      BY DEF FilterNames
    <3>3. t[Column(n)] = AsRange(list)
      BY <1>4, <1>5, <3>1, <3>2
    <3> HIDE DEF list
    <3>4. Fits(r[Column(n)], AsRange(list)) <=> /\ \A b \in from : b <= r[Column(n)]
                                                /\ \A b \in to : r[Column(n)] <= b
      BY <1>8, RangeFits DEF list
    <3>. QED
      BY <3>1, <3>3, <3>4
  <2>3. CASE from = {} /\ to = {}
    BY <1>8, <2>3
  <2>. QED
    BY <2>2, <2>3
<1>9. ASSUME NEW n \in {"level", "member"}, lists[n] = q[n]
      PROVE  Ok(n) <=> q[n] = <<>> \/ r[n] \in ToSet(q[n])
  <2>1. Column(n) = n /\ n \in FilterNames /\ n \notin {"time", "init_time", "dtime"}
    BY DEF Column, FilterNames
  <2>2. lists[n] # <<>> => t[n] = Among(ToSet(q[n]))
    BY <1>4, <1>5, <1>9, <2>1
  <2>3. Fits(r[n], Among(ToSet(q[n]))) <=> r[n] \in ToSet(q[n])
    BY DEF Fits, Among
  <2>. QED
    BY <1>9, <2>1, <2>2, <2>3
<1> HIDE DEF Ends
<1>10. \A e \in Ranges : q[e] \in SUBSET Int /\ \A a, b \in q[e] : a = b
  BY DEF IsQuery
<1>11. /\ r["lead_minutes"] \in 0..Ever /\ r["init_time"] \in 0..Ever /\ r["valid_time"] \in 0..Ever
  BY DEF IsRow
<1>12. Column("dtime") = "lead_minutes" /\ Column("time") = "valid_time" /\ Column("init_time") = "init_time"
  BY DEF Column
<1> HIDE DEF Ok
<1>13. Ok("dtime") <=> /\ \A b \in q.lead_from : b <= r["lead_minutes"]
                       /\ \A b \in q.lead_to : r["lead_minutes"] <= b
  BY <1>3, <1>8, <1>10, <1>11, <1>12 DEF Ranges
<1>14. Ok("time") <=> /\ \A b \in q.time_from : b <= r["valid_time"]
                      /\ \A b \in q.time_to : r["valid_time"] <= b
  BY <1>3, <1>8, <1>10, <1>11, <1>12 DEF Ranges
<1>15. Ok("init_time") <=> /\ \A b \in q.init_from : b <= r["init_time"]
                           /\ \A b \in q.init_to : r["init_time"] <= b
  BY <1>3, <1>8, <1>10, <1>11, <1>12 DEF Ranges
<1>16. /\ Ok("level") <=> q.level = <<>> \/ r["level"] \in ToSet(q.level)
       /\ Ok("member") <=> q.member = <<>> \/ r["member"] \in ToSet(q.member)
       /\ Ok("half_window")
  BY <1>3, <1>9 DEF Ok
<1>17. (\A n \in FilterNames : Ok(n)) <=>
         Ok("dtime") /\ Ok("level") /\ Ok("half_window") /\ Ok("member") /\ Ok("time") /\ Ok("init_time")
  BY DEF FilterNames
<1>. QED
  BY <1>7, <1>13, <1>14, <1>15, <1>16, <1>17 DEF Picks

\* Every stored row that was asked for is in one record, and a record has the sums
\* of its rows, for any table, query and expansion.
THEOREM AnswersTheQuestionHolds ==
  ASSUME NEW table, \A r \in table : IsRow(r), NEW q, IsQuery(q), NEW cfg,
         NEW D, NEW g \in Seq(D)
  PROVE  AnswersTheQuestion(table, cfg, q, g)
<1> DEFINE s == FiltersFromQuery(q)
           answer == QueryScores(table, cfg, "m", "categorical", s, g, Ever)
           asked == {r \in table : Picks(q, r)}
           dims == ToSet(g)
           keys == IF dims = {} THEN {<<>>} ELSE {At(r, dims) : r \in asked}
           Of(key) == {r \in asked : dims = {} \/ At(r, dims) = key}
           sum(key) == Total(Of(key), "sum")
           n(key) == Total(Of(key), "n")
           Rec(key) == [at |-> key, value |-> IF n(key) = 0 THEN {} ELSE {sum(key)}, n |-> n(key)]
           Has(record, row) == \A d \in dims : record.at[d] = IF d = "hour" THEN row["init_time"] % Day ELSE row[d]
           OfRecord(record) == {r \in asked : Has(record, r)}
<1>1. SUFFICES ASSUME answer.refused = {}
               PROVE  /\ \A r \in asked : Cardinality({c \in answer.records : Has(c, r)}) = 1
                      /\ \A c \in answer.records :
                           /\ c.n = Total(OfRecord(c), "n") /\ (g # <<>> => OfRecord(c) # {})
                           /\ c.value = IF c.n = 0 THEN {} ELSE {Total(OfRecord(c), "sum")}
  BY DEF AnswersTheQuestion
<1>2. Where(table, Translate(s)) = asked
  BY SelectsWhatIsPicked
<1> HIDE DEF s, asked, dims
<1>3. SumRows(table, Translate(s), dims) = {[at |-> key, sum |-> sum(key), n |-> n(key)] : key \in keys}
  BY <1>2 DEF SumRows
<1> HIDE DEF sum, n, keys
<1>4. answer.records = {Rec(key) : key \in keys}
  <2> DEFINE Row0(key) == [at |-> key, sum |-> sum(key), n |-> n(key)]
             Named(r) == [at |-> r.at, value |-> IF r.n = 0 THEN {} ELSE {r.sum}, n |-> r.n]
             rows == {Row0(key) : key \in keys}
  <2>1. answer.records = {Named(r) : r \in rows}
    BY <1>1, <1>3 DEF QueryScores, dims
  <2>2. \A key : Named(Row0(key)) = Rec(key)
    OBVIOUS
  <2> HIDE DEF Named, Row0, Rec
  <2>. QED
    BY <2>1, <2>2
<1>5. \A key : Rec(key).at = key /\ Rec(key).n = n(key)
               /\ Rec(key).value = IF n(key) = 0 THEN {} ELSE {sum(key)}
  OBVIOUS
<1> HIDE DEF Rec, answer
<1>6. \A key \in keys, r \in asked : Has(Rec(key), r) <=> dims = {} \/ At(r, dims) = key
  <2> SUFFICES ASSUME NEW key \in keys, NEW r \in asked
               PROVE  Has(Rec(key), r) <=> dims = {} \/ At(r, dims) = key
    OBVIOUS
  <2>1. Has(Rec(key), r) <=> \A d \in dims : key[d] = Selected(r, d)
    BY <1>5 DEF Selected
  <2>2. CASE dims = {}
    BY <2>1, <2>2
  <2>3. CASE dims # {}
    <3>1. PICK p \in asked : key = At(p, dims)
      BY <2>3 DEF keys
    <3>2. At(p, dims) = [d \in dims |-> Selected(p, d)] /\ At(r, dims) = [d \in dims |-> Selected(r, d)]
      BY DEF At
    <3>. QED
      BY <2>1, <2>3, <3>1, <3>2
  <2>. QED
    BY <2>2, <2>3
<1> HIDE DEF Has
<1>7. \A key \in keys : OfRecord(Rec(key)) = Of(key)
  BY <1>6
<1>8. \A r \in asked : \E key \in keys : {c \in answer.records : Has(c, r)} = {Rec(key)}
  <2> SUFFICES ASSUME NEW r \in asked
               PROVE  \E key \in keys : {c \in answer.records : Has(c, r)} = {Rec(key)}
    OBVIOUS
  <2>1. CASE dims = {}
    <3>1. keys = {<<>>}
      BY <2>1 DEF keys
    <3>. QED
      BY <1>4, <1>6, <2>1, <3>1
  <2>2. CASE dims # {}
    <3>1. At(r, dims) \in keys
      BY <2>2 DEF keys
    <3>. QED
      BY <1>4, <1>6, <2>2, <3>1
  <2>. QED
    BY <2>1, <2>2
<1>9. \A r \in asked : Cardinality({c \in answer.records : Has(c, r)}) = 1
  BY <1>8, FS_Singleton
<1>10. ASSUME NEW key \in keys, g # <<>>
       PROVE  Of(key) # {}
  <2>1. dims # {}
    <3>1. Len(g) # 0 /\ 1 \in DOMAIN g
      BY <1>10
    <3>2. g[1] \in dims
      BY <3>1 DEF dims, ToSet
    <3>. QED
      BY <3>2
  <2>. QED
    BY <2>1 DEF keys
<1>11. ASSUME NEW c \in answer.records
       PROVE  /\ c.n = Total(OfRecord(c), "n") /\ (g # <<>> => OfRecord(c) # {})
              /\ c.value = IF c.n = 0 THEN {} ELSE {Total(OfRecord(c), "sum")}
  <2>1. PICK key \in keys : c = Rec(key)
    BY <1>4
  <2>2. OfRecord(c) = Of(key)
    BY <1>7, <2>1
  <2> HIDE DEF OfRecord, Of
  <2>3. c.n = n(key) /\ c.value = IF n(key) = 0 THEN {} ELSE {sum(key)}
    BY <1>5, <2>1
  <2>4. n(key) = Total(OfRecord(c), "n") /\ sum(key) = Total(OfRecord(c), "sum")
    BY <2>2 DEF n, sum
  <2>. QED
    BY <1>10, <2>2, <2>3, <2>4
<1>. QED
  BY <1>9, <1>11

------------------------------------------------------------------------------
(***************************************************************************)
(* Loads, for every request and every archive of files.                    *)
(***************************************************************************)
LEMMA SameCardinality == \A S : Archives!Cardinality(S) = Cardinality(S)
BY DEF Archives!Cardinality, Cardinality

RequestFields == {"source", "doc", "dir", "root", "initial", "steps", "interval", "channels", "bbox"}

\* A request that is well formed: what its fields are, valid or not.
IsLoadRequest(r) ==
  /\ DOMAIN r = RequestFields
  /\ r.source \in Archives!Sources /\ r.initial \in Int /\ r.steps \in Int /\ r.interval \in Int
  /\ \A e \in {"west", "south", "east", "north"} : r.bbox[e] \in Int
  /\ \E C : r.channels \in Seq(C)

\* The same request but for its history.
Like(q, r) ==
  /\ q.source = r.source /\ q.doc = r.doc /\ q.dir = r.dir /\ q.root = r.root
  /\ q.interval = r.interval /\ q.channels = r.channels /\ q.bbox = r.bbox

LEMMA LikeAlone ==
  ASSUME NEW r, IsLoadRequest(r), NEW t \in Int
  PROVE  LET q == [r EXCEPT !.initial = t, !.steps = 1]
         IN IsLoadRequest(q) /\ Like(q, r) /\ q.initial = t /\ q.steps = 1
<1> DEFINE q == [r EXCEPT !.initial = t, !.steps = 1]
<1>1. DOMAIN r = RequestFields
  BY DEF IsLoadRequest
<1>2. /\ q.initial = t /\ q.steps = 1 /\ DOMAIN q = RequestFields
      /\ \A f \in RequestFields \ {"initial", "steps"} : q[f] = r[f]
  BY <1>1 DEF RequestFields
<1> HIDE DEF q
<1>3. Like(q, r)
  BY <1>2 DEF RequestFields, Like
<1>4. IsLoadRequest(q)
  BY <1>2, <1>3 DEF IsLoadRequest, Like
<1>. QED
  BY <1>2, <1>3, <1>4 DEF q

LEMMA LikeShorter ==
  ASSUME NEW r, IsLoadRequest(r)
  PROVE  LET p == [r EXCEPT !.steps = @ - 1]
         IN IsLoadRequest(p) /\ Like(p, r) /\ p.initial = r.initial /\ p.steps = r.steps - 1
<1> DEFINE p == [r EXCEPT !.steps = @ - 1]
<1>1. DOMAIN r = RequestFields /\ r.initial \in Int /\ r.steps - 1 \in Int
  BY DEF IsLoadRequest
<1>2. /\ p.initial = r.initial /\ p.steps = r.steps - 1 /\ DOMAIN p = RequestFields
      /\ \A f \in RequestFields \ {"initial", "steps"} : p[f] = r[f]
  BY <1>1 DEF RequestFields
<1> HIDE DEF p
<1>3. Like(p, r)
  BY <1>2 DEF RequestFields, Like
<1>4. IsLoadRequest(p)
  BY <1>1, <1>2, <1>3 DEF IsLoadRequest, Like
<1>. QED
  BY <1>2, <1>3, <1>4 DEF p

\* The times of a request.
TimesOf(r) == Archives!ToSet(Archives!RequestedTimes(r))

LEMMA TimesLeadUp ==
  ASSUME NEW r, r.initial \in Int, r.steps \in Int, r.steps >= 1, r.interval \in Int, r.interval >= 1
  PROVE  /\ TimesOf(r) = {r.initial - Archives!Minutes(r.interval) * (r.steps - i) : i \in 1..r.steps}
         /\ TimesOf(r) \subseteq Int /\ r.initial \in TimesOf(r)
         /\ Archives!Max(TimesOf(r)) = r.initial /\ Cardinality(TimesOf(r)) = r.steps
         /\ \A t \in TimesOf(r) : t # r.initial => t + Archives!Minutes(r.interval) \in TimesOf(r)
<1> DEFINE n == r.steps
           a == r.initial
           d == Archives!Minutes(r.interval)
           T == TimesOf(r)
           Moment(i) == a - d * (n - i)
           f == [i \in 1..n |-> Moment(i)]
<1>1. n \in Nat \ {0} /\ a \in Int /\ d \in Int /\ d >= 2
  BY DEF Archives!Minutes
<1>2. T = {Moment(i) : i \in 1..n}
  <2>1. Archives!RequestedTimes(r) = f
    BY DEF Archives!RequestedTimes
  <2>2. T = {f[i] : i \in 1..n}
    BY <2>1 DEF TimesOf, Archives!ToSet
  <2>. QED
    BY <2>2
<1> HIDE DEF n, a, d, T
<1>3. \A i \in 1..n : Moment(i) \in Int /\ Moment(i) <= a /\ (i < n => Moment(i) + d = Moment(i + 1) /\ i + 1 \in 1..n)
  <2> SUFFICES ASSUME NEW i \in 1..n
               PROVE  Moment(i) \in Int /\ Moment(i) <= a /\ (i < n => Moment(i) + d = Moment(i + 1) /\ i + 1 \in 1..n)
    OBVIOUS
  <2>1. n - i \in Nat /\ d * (n - i) \in Int /\ d * (n - i) >= 0
    BY <1>1
  <2>2. i < n => d * (n - i) = d * (n - (i + 1)) + d /\ d * (n - (i + 1)) \in Int
    BY <1>1
  <2>. QED
    BY <1>1, <2>1, <2>2
<1>4. Moment(n) = a /\ n \in 1..n
  BY <1>1
<1>5. \A i, j \in 1..n : i < j => Moment(i) < Moment(j)
  <2> SUFFICES ASSUME NEW i \in 1..n, NEW j \in 1..n, i < j PROVE Moment(i) < Moment(j)
    OBVIOUS
  <2>1. d * (n - i) = d * (n - j) + d * (j - i) /\ d * (j - i) >= d /\ d * (n - j) \in Int /\ d * (j - i) \in Int
    BY <1>1
  <2>. QED
    BY <1>1, <2>1
<1> HIDE DEF Moment
<1>6. T \subseteq Int /\ a \in T
  BY <1>2, <1>3, <1>4
<1>7. Archives!Max(T) = a
  <2>1. \A t \in T : a >= t
    BY <1>1, <1>2, <1>3
  <2>2. \A x \in T : (\A y \in T : x >= y) => x = a
    BY <1>1, <1>6, <2>1
  <2>. QED
    BY <1>6, <2>1, <2>2 DEF Archives!Max
<1>8. Cardinality(T) = n
  <2>1. f \in [1..n -> T] /\ \A t \in T : \E i \in 1..n : f[i] = t
    BY <1>2
  <2>2. \A i, j \in 1..n : f[i] = f[j] => i = j
    BY <1>1, <1>3, <1>5
  <2>3. f \in Bijection(1..n, T)
    BY <2>1, <2>2 DEF Bijection, Injection, Surjection, IsInjective
  <2>4. IsFiniteSet(1..n) /\ Cardinality(1..n) = n
    BY <1>1, FS_Interval
  <2>. QED
    BY <2>3, <2>4, FS_Bijection DEF ExistsBijection
<1>9. \A t \in T : t # a => t + d \in T
  BY <1>1, <1>2, <1>3, <1>4
<1>10. T = {a - d * (n - i) : i \in 1..n}
  BY <1>2 DEF Moment
<1>. QED
  BY <1>6, <1>7, <1>8, <1>9, <1>10 DEF n, a, d, T

\* A request that its source accepts.
Accepted(r) == Archives!IsRequest(r.doc) /\ Archives!ValidRequest(r)

LEMMA LikeAccepted ==
  ASSUME NEW r, Accepted(r), NEW q, Like(q, r), q.steps >= 1
  PROVE  Accepted(q)
BY DEF Accepted, Like, Archives!ValidRequest, Archives!Resolves

\* What a source makes of a channel at a time, apart from everything else.
MosaicsRead(archive) ==
  LET packed == {f \in archive : f.packed /\ f.onTop}
  IN IF packed # {} THEN packed ELSE Archives!Named({f \in archive : ~f.packed})
FrameOf(r, stores, t) ==
  LET frame == Archives!Cropped(Archives!One(stores), t, r.bbox)
  IN Archives!Only(t \in DOMAIN Archives!One(stores).frames /\ \E c \in DOMAIN frame : frame[c] # {},
                   frame)
FieldOf(r, archive, t, c, day) ==
  CASE r.source = "himawari9" -> Archives!HimawariFiles(Archives!Named(archive), t, c)
    [] r.source = "fy4b" ->
         {fs \in Archives!Fy4bFiles(Archives!Named(archive), t) : Archives!AgriDecodes(fs, c)}
    [] r.source = "gk2a" ->
         {fs \in Archives!Gk2aFile(Archives!Named(archive), t, c) : \A f \in fs : f.pixels /\ f.says \in {{}, {c}}}
    [] r.source = "mtg" ->
         {fs \in Archives!MtgFiles(Archives!Named(archive), t, day) : Archives!FciDecodes(fs, c)}
    [] r.source = "cma_radar" -> Archives!ReadMosaic(MosaicsRead(archive), t, r.bbox)
    [] r.source = "mlcast" -> FrameOf(r, archive, t)

\* Which channels are read, and what stops a load whatever its times.
ChannelsOf(r) ==
  CASE r.source = "himawari9" -> Archives!AhiChannels(r)
    [] r.source = "fy4b" -> Archives!AgriChannels(r)
    [] r.source = "gk2a" -> Archives!Ids(r)
    [] r.source = "mtg" -> Archives!FciChannels(r)
    [] r.source \in {"cma_radar", "mlcast"} -> {Archives!Declared.id}
Stops(r, archive) ==
  \/ /\ r.source = "cma_radar"
     /\ LET packed == {f \in archive : f.packed /\ f.onTop}
        IN IF packed # {} THEN packed # Archives!Named(packed) ELSE Len(r.channels) # 1
  \/ /\ r.source = "mlcast"
     /\ \/ Cardinality(archive) # 1
        \/ ~Archives!One(archive).declared
        \/ ~Archives!Covers(Archives!One(archive).grid, r.bbox)

\* Every source but SEVIR loads a field for each time and channel, or nothing.
Whole(r, archive, day) ==
  ~Stops(r, archive) /\ ChannelsOf(r) # {}
  /\ \A t \in TimesOf(r), c \in ChannelsOf(r) : FieldOf(r, archive, t, c, day) # {}
Loaded(r, archive, day) ==
  [t \in TimesOf(r) |-> [c \in ChannelsOf(r) |-> Archives!One(FieldOf(r, archive, t, c, day))]]

LEMMA LoadsTheWhole ==
  ASSUME NEW r, IsLoadRequest(r), Accepted(r), r.source # "sevir", NEW archive, NEW day
  PROVE  Archives!Load(r, TRUE, archive, day)
           = IF Whole(r, archive, day) THEN {Loaded(r, archive, day)} ELSE {}
<1>0. /\ r.source \in {"himawari9", "fy4b", "gk2a", "mtg", "cma_radar", "mlcast"}
      /\ Archives!IsRequest(r.doc) /\ Archives!ValidRequest(r)
  BY DEF IsLoadRequest, Accepted, Archives!Sources, Archives!Satellites
<1>1. CASE r.source = "himawari9"
  <2>1. Archives!Load(r, TRUE, archive, day) = Archives!LoadHimawari(r, archive)
    BY <1>0, <1>1 DEF Archives!Load
  <2>. QED
    BY <1>1, <2>1 DEF Archives!LoadHimawari, Archives!Bundle, Archives!Only, Whole, Loaded, Stops,
       ChannelsOf, FieldOf, TimesOf
<1>2. CASE r.source = "fy4b"
  <2>1. Archives!Load(r, TRUE, archive, day) = Archives!LoadFy4b(r, archive)
    BY <1>0, <1>2 DEF Archives!Load
  <2>. QED
    BY <1>2, <2>1 DEF Archives!LoadFy4b, Archives!Bundle, Archives!Only, Whole, Loaded, Stops,
       ChannelsOf, FieldOf, TimesOf
<1>3. CASE r.source = "gk2a"
  <2>1. Archives!Load(r, TRUE, archive, day) = Archives!LoadGk2a(r, archive)
    BY <1>0, <1>3 DEF Archives!Load
  <2>. QED
    BY <1>3, <2>1 DEF Archives!LoadGk2a, Archives!Bundle, Archives!Only, Whole, Loaded, Stops,
       ChannelsOf, FieldOf, TimesOf
<1>4. CASE r.source = "mtg"
  <2>1. Archives!Load(r, TRUE, archive, day) = Archives!LoadMtg(r, archive, day)
    BY <1>0, <1>4 DEF Archives!Load
  <2>. QED
    BY <1>4, <2>1 DEF Archives!LoadMtg, Archives!Bundle, Archives!Only, Whole, Loaded, Stops,
       ChannelsOf, FieldOf, TimesOf
<1>5. CASE r.source = "cma_radar"
  <2> DEFINE packed == {f \in archive : f.packed /\ f.onTop}
  <2>1. Archives!Load(r, TRUE, archive, day)
          = IF packed # {} THEN Archives!LoadNpz(r, packed)
            ELSE Archives!LoadCref(r, {f \in archive : ~f.packed})
    BY <1>0, <1>5 DEF Archives!Load, Archives!LoadCma
  <2>2. MosaicsRead(archive) = IF packed # {} THEN packed ELSE Archives!Named({f \in archive : ~f.packed})
    BY DEF MosaicsRead
  <2>3. Stops(r, archive) = IF packed # {} THEN packed # Archives!Named(packed) ELSE Len(r.channels) # 1
    BY <1>5 DEF Stops
  <2> HIDE DEF packed
  <2>4. CASE packed # {}
    BY <1>5, <2>1, <2>2, <2>3, <2>4 DEF Archives!LoadNpz, Archives!Bundle, Archives!Only, Whole,
       Loaded, ChannelsOf, FieldOf, TimesOf
  <2>5. CASE packed = {}
    BY <1>5, <2>1, <2>2, <2>3, <2>5 DEF Archives!LoadCref, Archives!Bundle, Archives!Only, Whole,
       Loaded, ChannelsOf, FieldOf, TimesOf
  <2>. QED
    BY <2>4, <2>5
<1>6. CASE r.source = "mlcast"
  <2> DEFINE store == Archives!One(archive)
             times == TimesOf(r)
             frame(t) == Archives!Cropped(store, t, r.bbox)
             field(t) == Archives!Only(\E c \in DOMAIN frame(t) : frame(t)[c] # {}, frame(t))
             there == store.declared /\ times \subseteq DOMAIN store.frames /\ Archives!Covers(store.grid, r.bbox)
             all == \A t \in times : field(t) # {}
             bundle == [t \in times |-> [c \in {Archives!Declared.id} |-> Archives!One(field(t))]]
  <2>1. Archives!Load(r, TRUE, archive, day) = Archives!LoadStore(r, archive)
    BY <1>0, <1>6 DEF Archives!Load
  <2>2. Archives!LoadStore(r, archive)
          = IF Cardinality(archive) = 1 /\ there /\ all THEN {bundle} ELSE {}
    <3> DEFINE From(s) ==
                 IF s.declared /\ times \subseteq DOMAIN s.frames /\ Archives!Covers(s.grid, r.bbox)
                 THEN Archives!Bundle(times, {Archives!Declared.id}, LAMBDA t, c :
                        LET f == Archives!Cropped(s, t, r.bbox)
                        IN Archives!Only(\E e \in DOMAIN f : f[e] # {}, f))
                 ELSE {}
    <3>1. Archives!LoadStore(r, archive) = UNION {From(s) : s \in Archives!LocateStore(archive)}
      BY DEF Archives!LoadStore, TimesOf
    <3>2. Archives!LocateStore(archive) = IF Cardinality(archive) = 1 THEN {store} ELSE {}
      BY SameCardinality DEF Archives!LocateStore, Archives!Only
    <3>3. From(store) = IF there /\ all THEN {bundle} ELSE {}
      BY DEF Archives!Bundle, Archives!Only
    <3> HIDE DEF From, there, all, bundle
    <3>. QED
      BY <3>1, <3>2, <3>3
  <2>3. \A t : FieldOf(r, archive, t, Archives!Declared.id, day) = IF t \in DOMAIN store.frames THEN field(t) ELSE {}
    BY <1>6 DEF FieldOf, FrameOf, Archives!Only
  <2>4. Stops(r, archive) <=> Cardinality(archive) # 1 \/ ~store.declared \/ ~Archives!Covers(store.grid, r.bbox)
    BY <1>6 DEF Stops
  <2>5. ChannelsOf(r) = {Archives!Declared.id}
    BY <1>6 DEF ChannelsOf
  <2>6. Whole(r, archive, day) <=> Cardinality(archive) = 1 /\ there /\ all
    BY <2>3, <2>4, <2>5 DEF Whole
  <2>7. there => Loaded(r, archive, day) = bundle
    BY <2>3, <2>5 DEF Loaded
  <2> HIDE DEF there, all, bundle
  <2>. QED
    BY <2>1, <2>2, <2>6, <2>7
<1>. QED
  BY <1>0, <1>1, <1>2, <1>3, <1>4, <1>5, <1>6

\* Coordinates of rows or columns run one way.
IsCoordinates(a) ==
  \E n \in Nat :
    /\ a \in [1..n -> Int]
    /\ \/ \A i, j \in 1..n : i <= j => a[i] <= a[j]
       \/ \A i, j \in 1..n : i <= j => a[j] <= a[i]

\* A file as its source's decoder makes it (ObservedAt tells the satellites apart by
\* what their names say), and an archive of such files: of SEVIR the rows of a catalog.
IsFileOf(source, f) ==
  CASE source = "mtg" -> "cycle" \in DOMAIN f /\ "product" \notin DOMAIN f
    [] source = "fy4b" -> "cycle" \notin DOMAIN f /\ "product" \in DOMAIN f
    [] source \in {"himawari9", "gk2a"} -> "cycle" \notin DOMAIN f /\ "product" \notin DOMAIN f
    [] source = "cma_radar" ->
         f.generation \in Int /\ IsCoordinates(f.longitude) /\ IsCoordinates(f.latitude)
    [] OTHER -> TRUE
IsArchive(source, archive) ==
  /\ source # "sevir" => \A f \in archive : IsFileOf(source, f)
  /\ source \in {"himawari9", "mlcast"} => IsFiniteSet(archive)
  /\ source = "sevir" => \E n \in Nat :
       DOMAIN archive = 1..n /\ \A i \in 1..n : archive[i].start \in Int

LEMMA OneOf == \A S : S # {} => Archives!One(S) \in S
BY DEF Archives!One

\* A slice from the first to the last place in a range has the places between.
LEMMA SliceIsBetween ==
  ASSUME NEW axis, IsCoordinates(axis), NEW from \in Int, NEW to \in Int,
         Archives!Between(axis, from, to) # {}
  PROVE  Archives!Slice(Archives!Between(axis, from, to)) = Archives!Between(axis, from, to)
<1> DEFINE B == Archives!Between(axis, from, to)
<1>1. PICK n \in Nat :
        /\ axis \in [1..n -> Int]
        /\ \/ \A i, j \in 1..n : i <= j => axis[i] <= axis[j]
           \/ \A i, j \in 1..n : i <= j => axis[j] <= axis[i]
  BY DEF IsCoordinates
<1>2. B = {i \in 1..n : from <= axis[i] /\ axis[i] <= to}
  BY <1>1 DEF Archives!Between
<1>3. B \in SUBSET (1..n) /\ B # {}
  BY <1>2
<1> HIDE DEF B
<1>4. PICK lo \in B : \A j \in B : lo <= j
  BY <1>3, FirstPlace
<1>5. PICK hi \in B : \A j \in B : j <= hi
  BY <1>3, LastPlace
<1>6. Archives!Min(B) = lo
  <2>1. \A x \in B : (\A y \in B : x <= y) => x = lo
    BY <1>3, <1>4
  <2>. QED
    BY <1>4, <2>1 DEF Archives!Min
<1>7. Archives!Max(B) = hi
  <2>1. \A x \in B : (\A y \in B : x >= y) => x = hi
    BY <1>3, <1>5
  <2>2. \A y \in B : hi >= y
    BY <1>3, <1>5
  <2>. QED
    BY <1>5, <2>1, <2>2 DEF Archives!Max
<1>8. lo..hi \subseteq B
  <2> SUFFICES ASSUME NEW i \in lo..hi PROVE i \in B
    OBVIOUS
  <2>1. lo \in 1..n /\ hi \in 1..n /\ i \in 1..n /\ lo <= i /\ i <= hi
    BY <1>3
  <2>2. axis[lo] \in Int /\ axis[hi] \in Int /\ axis[i] \in Int
    BY <1>1, <2>1
  <2>3. from <= axis[lo] /\ axis[lo] <= to /\ from <= axis[hi] /\ axis[hi] <= to
    BY <1>2
  <2>4. \/ axis[lo] <= axis[i] /\ axis[i] <= axis[hi]
        \/ axis[hi] <= axis[i] /\ axis[i] <= axis[lo]
    BY <1>1, <2>1
  <2>5. from <= axis[i] /\ axis[i] <= to
    BY <2>2, <2>3, <2>4
  <2>. QED
    BY <1>2, <2>1, <2>5
<1>9. B \subseteq lo..hi
  BY <1>3, <1>4, <1>5
<1>. QED
  BY <1>6, <1>7, <1>8, <1>9 DEF Archives!Slice, B

\* A field that there is is of its time and channel.
LEMMA FieldsOfTheirTime ==
  ASSUME NEW r, IsLoadRequest(r), r.source # "sevir", NEW archive, IsArchive(r.source, archive),
         NEW day, NEW t, NEW c, FieldOf(r, archive, t, c, day) # {}
  PROVE  Archives!OfItsTime(r, Archives!One(FieldOf(r, archive, t, c, day)), t, c, day)
<1> DEFINE field == Archives!One(FieldOf(r, archive, t, c, day))
           named == Archives!Named(archive)
<1>0. /\ r.source \in {"himawari9", "fy4b", "gk2a", "mtg", "cma_radar", "mlcast"}
      /\ r.source \in Archives!Satellites <=> r.source \in {"himawari9", "fy4b", "gk2a", "mtg"}
  BY DEF IsLoadRequest, Archives!Sources, Archives!Satellites
<1>1. field \in FieldOf(r, archive, t, c, day)
  BY OneOf
<1>2. \A f \in archive : IsFileOf(r.source, f)
  BY DEF IsArchive
<1>3. named \subseteq archive
  BY DEF Archives!Named
<1> HIDE DEF field
<1>4. CASE r.source = "himawari9"
  <2> DEFINE mine == {f \in named : f.satellite = "H09" /\ f.start = Archives!WholeMinute(t) /\ f.channel = c}
             disk == {f \in mine : f.area = "FLDK"}
             used == IF disk # {} THEN disk ELSE mine
             totals == {f.total : f \in used}
  <2>1. /\ field = used /\ Archives!Cardinality(totals) = 1
        /\ 1..Archives!One(totals) \subseteq {f.segment : f \in used}
    <3>1. FieldOf(r, archive, t, c, day) = Archives!HimawariFiles(named, t, c)
      BY <1>4 DEF FieldOf
    <3>2. Archives!HimawariFiles(named, t, c)
            = Archives!Only(Archives!Cardinality(totals) = 1
                            /\ 1..Archives!One(totals) \subseteq {f.segment : f \in used}, used)
      BY DEF Archives!HimawariFiles
    <3> HIDE DEF totals, used
    <3>. QED
      BY <1>1, <3>1, <3>2 DEF Archives!Only
  <2>2. PICK total : totals = {total}
    <3>1. IsFiniteSet(used)
      <4>1. IsFiniteSet(archive) /\ used \in SUBSET archive
        BY <1>3, <1>4 DEF IsArchive
      <4>. QED
        BY <4>1, FS_Subset
    <3>2. [f \in used |-> f.total] \in Surjection(used, totals)
      BY DEF Surjection
    <3>3. IsFiniteSet(totals)
      BY <3>1, <3>2, FS_Surjection
    <3>. QED
      BY <2>1, <3>3, SameCardinality, FS_Singleton
  <2>3. used # {} /\ \A f \in used : f.total = total
    BY <2>2
  <2>4. Archives!One(totals) = total
    BY <2>2 DEF Archives!One
  <2>5. \A f \in field : 1..f.total \subseteq {g.segment : g \in field}
    BY <2>1, <2>3, <2>4
  <2>6. /\ \A f \in field : f.channel = c /\ f.start = Archives!WholeMinute(t) /\ f \in archive
        /\ (\E f \in field : f.area = "FLDK") => \A f \in field : f.area = "FLDK"
    BY <1>3, <2>1
  <2>7. \A f \in field : Archives!ObservedAt(f, t, day)
    BY <1>2, <1>4, <2>6 DEF IsFileOf, Archives!ObservedAt
  <2> HIDE DEF used
  <2>. QED
    BY <1>4, <2>1, <2>3, <2>5, <2>6, <2>7 DEF Archives!OfItsTime, Archives!Satellites, field
<1>5. CASE r.source = "fy4b"
  <2>1. /\ field = {f \in named : f.start = t} /\ \E f \in field : f.product = "FDI"
        /\ \E f \in field : c \in f.holds
    BY <1>1, <1>5 DEF FieldOf, Archives!Fy4bFiles, Archives!AgriDecodes, Archives!Only
  <2>2. \A f \in field : Archives!ObservedAt(f, t, day)
    BY <1>2, <1>3, <1>5, <2>1 DEF IsFileOf, Archives!ObservedAt
  <2>. QED
    BY <1>5, <2>1, <2>2 DEF Archives!OfItsTime, Archives!Satellites, field
<1>6. CASE r.source = "gk2a"
  <2> DEFINE at == {f \in named : f.start = Archives!WholeMinute(t) /\ f.channel = c}
  <2>1. field = at /\ Archives!Cardinality(at) = 1
    BY <1>1, <1>6 DEF FieldOf, Archives!Gk2aFile, Archives!Only
  <2>2. at # {}
    BY <2>1, SameCardinality, FS_EmptySet
  <2>3. \A f \in field : f.channel = c /\ Archives!ObservedAt(f, t, day)
    BY <1>2, <1>3, <1>6, <2>1 DEF IsFileOf, Archives!ObservedAt
  <2>. QED
    BY <1>6, <2>1, <2>2, <2>3 DEF Archives!OfItsTime, Archives!Satellites, field
<1>7. CASE r.source = "mtg"
  <2>1. /\ field # {} /\ \E f \in field : c \in f.holds
        /\ \A f \in field : f \in named /\ Archives!NominalStart(f, day) = Archives!WholeMinute(t)
    BY <1>1, <1>7 DEF FieldOf, Archives!MtgFiles, Archives!FciDecodes, Archives!Only
  <2>2. \A f \in field : Archives!ObservedAt(f, t, day)
    BY <1>2, <1>3, <1>7, <2>1 DEF IsFileOf, Archives!ObservedAt
  <2>. QED
    BY <1>7, <2>1, <2>2 DEF Archives!OfItsTime, Archives!Satellites, field
<1>8. CASE r.source = "cma_radar"
  <2> DEFINE read == MosaicsRead(archive)
             picked == Archives!One(Archives!Newest(read, t))
             columns == Archives!Between(picked.longitude, r.bbox.west, r.bbox.east)
             rows == Archives!Between(picked.latitude, r.bbox.south, r.bbox.north)
  <2>1. /\ Archives!Newest(read, t) # {} /\ columns # {} /\ rows # {}
        /\ field = [file |-> picked, rows |-> Archives!Slice(rows), columns |-> Archives!Slice(columns)]
    <3>1. field \in Archives!ReadMosaic(read, t, r.bbox)
      BY <1>1, <1>8 DEF FieldOf
    <3>2. Archives!Newest(read, t) # {} /\ field \in Archives!Crop(picked, r.bbox)
      BY <3>1 DEF Archives!ReadMosaic
    <3>. QED
      BY <3>2 DEF Archives!Crop, Archives!Only
  <2>2. picked \in archive /\ picked.time = t
    <3>1. picked \in Archives!Newest(read, t)
      BY <2>1, OneOf
    <3>. QED
      BY <3>1 DEF Archives!Newest, MosaicsRead, Archives!Named
  <2>3. IsCoordinates(picked.longitude) /\ IsCoordinates(picked.latitude)
    BY <1>2, <1>8, <2>2 DEF IsFileOf
  <2>4. \A e \in {"west", "south", "east", "north"} : r.bbox[e] \in Int
    BY DEF IsLoadRequest
  <2>5. Archives!Slice(rows) = rows /\ Archives!Slice(columns) = columns
    BY <2>1, <2>3, <2>4, SliceIsBetween
  <2> HIDE DEF picked
  <2>6. field.file = picked /\ field.rows = rows /\ field.columns = columns
    BY <2>1, <2>5
  <2>7. \A i \in DOMAIN picked.latitude, j \in DOMAIN picked.longitude :
          (i \in rows /\ j \in columns)
            <=> Archives!InBox([lon |-> picked.longitude[j], lat |-> picked.latitude[i]], r.bbox)
    BY DEF Archives!InBox, Archives!Between
  <2>. QED
    BY <1>8, <2>2, <2>6, <2>7 DEF Archives!OfItsTime, Archives!Satellites, field
<1>9. CASE r.source = "mlcast"
  BY <1>9 DEF Archives!OfItsTime, Archives!Satellites
<1>. QED
  BY <1>0, <1>4, <1>5, <1>6, <1>7, <1>8, <1>9

\* What is loaded is what was asked for: each time that leads up to the initial one
\* and each channel once, each field read from files of its time and channel; a
\* longer history holds the shorter one, and a request that gives nothing lacks
\* something at one of its times (adapters/__main__.py and each source's load).
THEOREM LoadsTheRequestHolds ==
  ASSUME NEW r, IsLoadRequest(r), NEW archive, IsArchive(r.source, archive), NEW day
  PROVE  Archives!LoadsTheRequest(r, archive, day)
<1> DEFINE loaded == Archives!Load(r, TRUE, archive, day)
           p == [r EXCEPT !.steps = @ - 1]
           shorter == Archives!Load(p, TRUE, archive, day)
           Alone(t) == [r EXCEPT !.initial = t, !.steps = 1]
           times == TimesOf(r)
<1>1. CASE ~Accepted(r)
  <2>1. loaded = {} /\ ~(Archives!IsRequest(r.doc) /\ Archives!ValidRequest(r))
    BY <1>1 DEF Accepted, Archives!Load
  <2>. QED
    BY <2>1 DEF Archives!LoadsTheRequest
<1>2. CASE Accepted(r) /\ r.source # "sevir"
  <2>1. r.steps >= 1 /\ r.interval >= 1 /\ r.initial \in Int /\ r.steps \in Int /\ r.interval \in Int
    BY <1>2 DEF Accepted, Archives!ValidRequest, IsLoadRequest
  <2>2. loaded = IF Whole(r, archive, day) THEN {Loaded(r, archive, day)} ELSE {}
    BY <1>2, LoadsTheWhole
  <2>3. /\ IsLoadRequest(p) /\ Like(p, r) /\ p.initial = r.initial /\ p.steps = r.steps - 1
        /\ \A t \in Int : IsLoadRequest(Alone(t)) /\ Like(Alone(t), r) /\ Alone(t).initial = t /\ Alone(t).steps = 1
    <3>1. IsLoadRequest(p) /\ Like(p, r) /\ p.initial = r.initial /\ p.steps = r.steps - 1
      BY LikeShorter
    <3>2. ASSUME NEW t \in Int
          PROVE  IsLoadRequest(Alone(t)) /\ Like(Alone(t), r) /\ Alone(t).initial = t /\ Alone(t).steps = 1
      BY LikeAlone
    <3> HIDE DEF p, Alone
    <3>. QED
      BY <3>1, <3>2
  <2>4. /\ times = {r.initial - Archives!Minutes(r.interval) * (r.steps - i) : i \in 1..r.steps}
        /\ times \subseteq Int /\ r.initial \in times
        /\ Archives!Max(times) = r.initial /\ Cardinality(times) = r.steps
        /\ \A t \in times : t # r.initial => t + Archives!Minutes(r.interval) \in times
    BY <2>1, TimesLeadUp
  <2> HIDE DEF p, Alone, times
  \* The channels that are read are those that were asked for.
  <2>5. ChannelsOf(r) # {} => ChannelsOf(r) = Archives!Ids(r)
    <3>1. CASE r.source \in {"cma_radar", "mlcast"}
      <4>1. Archives!ToSet(r.channels) \subseteq {Archives!Declared} /\ r.channels # <<>>
        BY <1>2, <3>1 DEF Accepted, Archives!ValidRequest, Archives!Satellites
      <4>2. PICK C : r.channels \in Seq(C)
        BY DEF IsLoadRequest
      <4>3. 1 \in DOMAIN r.channels
        BY <4>1, <4>2
      <4>4. Archives!ToSet(r.channels) = {Archives!Declared}
        BY <4>1, <4>3 DEF Archives!ToSet
      <4>5. Archives!Ids(r) = {Archives!Declared.id}
        BY <4>4 DEF Archives!Ids
      <4>. QED
        BY <3>1, <4>5 DEF ChannelsOf
    <3>2. CASE r.source \in {"himawari9", "fy4b", "gk2a", "mtg"}
      BY <3>2 DEF ChannelsOf, Archives!AhiChannels, Archives!AgriChannels, Archives!FciChannels
    <3>. QED
      BY <1>2, <3>1, <3>2 DEF IsLoadRequest, Archives!Sources, Archives!Satellites
  \* A request like it reads the same fields.
  <2>6. ASSUME NEW q, Like(q, r)
        PROVE  /\ ChannelsOf(q) = ChannelsOf(r) /\ Stops(q, archive) = Stops(r, archive)
               /\ \A t, c : FieldOf(q, archive, t, c, day) = FieldOf(r, archive, t, c, day)
    <3>1. Archives!Ids(q) = Archives!Ids(r)
      BY <2>6 DEF Like, Archives!Ids
    <3>2. ChannelsOf(q) = ChannelsOf(r)
      BY <2>6, <3>1 DEF ChannelsOf, Like, Archives!AhiChannels, Archives!AgriChannels, Archives!FciChannels
    <3>3. Stops(q, archive) = Stops(r, archive)
      BY <2>6 DEF Stops, Like
    <3>4. \A t, c : FieldOf(q, archive, t, c, day) = FieldOf(r, archive, t, c, day)
      BY <2>6 DEF FieldOf, FrameOf, Like
    <3>. QED
      BY <3>2, <3>3, <3>4
  <2>7. ASSUME Whole(r, archive, day)
        PROVE  \A t \in times : \A c \in Archives!Ids(r) :
                 Archives!OfItsTime(r, Loaded(r, archive, day)[t][c], t, c, day)
    <3>1. ChannelsOf(r) = Archives!Ids(r)
      BY <2>5, <2>7 DEF Whole
    <3>2. \A t \in times, c \in Archives!Ids(r) : FieldOf(r, archive, t, c, day) # {}
      BY <2>7, <3>1 DEF Whole, times
    <3>3. \A t \in times : \A c \in Archives!Ids(r) :
            Loaded(r, archive, day)[t][c] = Archives!One(FieldOf(r, archive, t, c, day))
      BY <3>1 DEF Loaded, times
    <3>. QED
      BY <1>2, <3>2, <3>3, FieldsOfTheirTime
  <2>8. ASSUME Whole(r, archive, day)
        PROVE  /\ DOMAIN Loaded(r, archive, day) = times
               /\ \A t \in times : DOMAIN Loaded(r, archive, day)[t] = Archives!Ids(r)
    BY <2>5, <2>8 DEF Whole, Loaded, times
  <2>9. ASSUME Whole(r, archive, day), r.steps > 1
        PROVE  \E s \in shorter : \A t \in DOMAIN s : Loaded(r, archive, day)[t] = s[t]
    <3>1. p.steps >= 1 /\ p.interval = r.interval /\ p.source # "sevir"
      BY <1>2, <2>1, <2>3, <2>9 DEF Like
    <3>2. Accepted(p)
      BY <1>2, <2>3, <3>1, LikeAccepted
    <3>3. shorter = IF Whole(p, archive, day) THEN {Loaded(p, archive, day)} ELSE {}
      BY <2>3, <3>1, <3>2, LoadsTheWhole
    <3>4. TimesOf(p) \subseteq times
      <4>1. TimesOf(p) = {r.initial - Archives!Minutes(r.interval) * (p.steps - i) : i \in 1..p.steps}
        BY <2>1, <2>3, <3>1, TimesLeadUp
      <4>2. \A i \in 1..p.steps : i + 1 \in 1..r.steps /\ p.steps - i = r.steps - (i + 1)
        BY <2>1, <2>3
      <4>. QED
        BY <2>4, <4>1, <4>2
    <3>5. Whole(p, archive, day)
      BY <2>3, <2>6, <2>9, <3>4 DEF Whole, times
    <3>6. \A t \in TimesOf(p) : Loaded(p, archive, day)[t] = Loaded(r, archive, day)[t]
      BY <2>3, <2>6, <3>4 DEF Loaded, times
    <3>7. DOMAIN Loaded(p, archive, day) = TimesOf(p)
      BY DEF Loaded
    <3>. QED
      BY <3>3, <3>5, <3>6, <3>7
  <2>10. ASSUME ~Whole(r, archive, day)
         PROVE  \E t \in times : Archives!Load(Alone(t), TRUE, archive, day) = {}
    <3>1. \A t \in times : TimesOf(Alone(t)) = {t}
      <4> SUFFICES ASSUME NEW t \in times PROVE TimesOf(Alone(t)) = {t}
        OBVIOUS
      <4>1. /\ Alone(t).initial = t /\ Alone(t).steps = 1 /\ Alone(t).interval = r.interval /\ t \in Int
        BY <2>3, <2>4 DEF Like
      <4>2. TimesOf(Alone(t)) = {t - Archives!Minutes(r.interval) * (1 - i) : i \in 1..1}
        BY <2>1, <4>1, TimesLeadUp
      <4>3. \A i \in 1..1 : t - Archives!Minutes(r.interval) * (1 - i) = t
        BY <2>1, <4>1 DEF Archives!Minutes
      <4>. QED
        BY <4>2, <4>3
    <3>2. PICK t \in times : \/ Stops(r, archive) \/ ChannelsOf(r) = {}
                             \/ \E c \in ChannelsOf(r) : FieldOf(r, archive, t, c, day) = {}
      BY <2>4, <2>10 DEF Whole, times
    <3>3. Like(Alone(t), r) /\ IsLoadRequest(Alone(t)) /\ Alone(t).source # "sevir" /\ Accepted(Alone(t))
      <4>1. Like(Alone(t), r) /\ IsLoadRequest(Alone(t)) /\ Alone(t).steps = 1
        BY <2>3, <2>4, t \in Int, Zenon
      <4>. QED
        BY <1>2, <4>1, LikeAccepted DEF Like
    <3>4. ~Whole(Alone(t), archive, day)
      BY <2>6, <3>1, <3>2, <3>3 DEF Whole
    <3>5. Archives!Load(Alone(t), TRUE, archive, day) = {}
      BY <3>3, <3>4, LoadsTheWhole
    <3>. QED
      BY <3>5
  <2>11. CASE Whole(r, archive, day)
    <3>1. loaded = {Loaded(r, archive, day)}
      BY <2>2, <2>11
    <3> DEFINE b == Loaded(r, archive, day)
    <3>2. /\ Archives!Max(DOMAIN b) = r.initial /\ Archives!Cardinality(DOMAIN b) = r.steps
          /\ \A t \in DOMAIN b : t # r.initial => t + Archives!Minutes(r.interval) \in DOMAIN b
          /\ \A t \in DOMAIN b : \A c \in DOMAIN b[t] : Archives!OfItsTime(r, b[t][c], t, c, day)
          /\ \A t \in DOMAIN b : DOMAIN b[t] = Archives!Ids(r)
          /\ r.steps > 1 => \E s \in shorter : \A t \in DOMAIN s : b[t] = s[t]
      BY <2>4, <2>7, <2>8, <2>9, <2>11, SameCardinality
    <3> HIDE DEF b
    <3>. QED
      BY <3>1, <3>2 DEF Archives!LoadsTheRequest, b, p
  <2>12. CASE ~Whole(r, archive, day)
    <3>1. loaded = {} /\ times = Archives!ToSet(Archives!RequestedTimes(r))
      BY <2>2, <2>12 DEF times, TimesOf
    <3>. QED
      BY <2>10, <2>12, <3>1 DEF Archives!LoadsTheRequest, Alone
  <2>. QED
    BY <2>11, <2>12
<1>3. CASE Accepted(r) /\ r.source = "sevir"
  <2>1. loaded = Archives!LoadSevir(r, archive)
    BY <1>3 DEF Accepted, Archives!Load
  <2>2. shorter \subseteq Archives!LoadSevir(r, archive) /\ (r.steps > 1 => shorter = Archives!LoadSevir(r, archive))
    <3>1. IsLoadRequest(p) /\ Like(p, r) /\ p.initial = r.initial /\ p.steps = r.steps - 1
          /\ r.steps \in Int /\ r.initial \in Int
      BY LikeShorter DEF IsLoadRequest
    <3> HIDE DEF p
    <3>2. Archives!LoadSevir(p, archive) = Archives!LoadSevir(r, archive)
      BY <3>1 DEF Archives!LoadSevir
    <3>3. p.source = "sevir"
      BY <1>3, <3>1 DEF Like
    <3>4. shorter \in {{}, Archives!LoadSevir(p, archive)}
      BY <3>3 DEF Archives!Load
    <3>5. r.steps > 1 => Accepted(p)
      BY <1>3, <3>1, LikeAccepted
    <3>6. Accepted(p) => shorter = Archives!LoadSevir(p, archive)
      BY <3>3 DEF Accepted, Archives!Load
    <3>. QED
      BY <3>2, <3>4, <3>5, <3>6
  <2>3. Archives!Ids(r) = {Archives!Declared.id}
    <3>1. Archives!ToSet(r.channels) \subseteq {Archives!Declared} /\ r.channels # <<>>
      BY <1>3 DEF Accepted, Archives!ValidRequest, Archives!Satellites
    <3>2. PICK C : r.channels \in Seq(C)
      BY DEF IsLoadRequest
    <3>3. 1 \in DOMAIN r.channels
      BY <3>1, <3>2
    <3>4. Archives!ToSet(r.channels) = {Archives!Declared}
      BY <3>1, <3>3 DEF Archives!ToSet
    <3>. QED
      BY <3>4 DEF Archives!Ids
  <2>4. \A b \in loaded : \A t \in DOMAIN b : DOMAIN b[t] = {Archives!Declared.id}
    <3> DEFINE row == Archives!MatchRow(archive, r.initial)
               starts == {r.initial + Archives!Minutes(Archives!Cadence("sevir")) * i :
                            i \in 0..Archives!ContextFrames - 1}
               frames == [t \in starts |-> [c \in {Archives!Declared.id} |->
                            [row |-> Archives!One(row),
                             frame |-> (t - r.initial) \div Archives!Minutes(Archives!Cadence("sevir")) + 1]]]
    <3>1. Archives!LoadSevir(r, archive)
            = IF row = {} \/ ~archive[Archives!One(row)].shaped THEN {} ELSE {frames}
      BY DEF Archives!LoadSevir
    <3>2. \A t \in DOMAIN frames : DOMAIN frames[t] = {Archives!Declared.id}
      OBVIOUS
    <3> HIDE DEF frames
    <3>. QED
      BY <2>1, <3>1, <3>2
  <2>5. \A field, t, c : Archives!OfItsTime(r, field, t, c, day)
    BY <1>3 DEF Archives!OfItsTime, Archives!Satellites
  <2>6. \A b \in loaded : r.steps > 1 => \E s \in shorter : \A t \in DOMAIN s : b[t] = s[t]
    BY <2>1, <2>2
  <2> HIDE DEF loaded
  <2>. QED
    BY <1>3, <2>3, <2>4, <2>5, <2>6 DEF Archives!LoadsTheRequest, loaded
<1>. QED
  BY <1>1, <1>2, <1>3

\* The six frames of a row.
FramesFrom(r, row) ==
  [t \in {r.initial + Archives!Minutes(Archives!Cadence("sevir")) * i : i \in 0..Archives!ContextFrames - 1} |->
     [c \in {Archives!Declared.id} |->
        [row |-> row, frame |-> (t - r.initial) \div Archives!Minutes(Archives!Cadence("sevir")) + 1]]]

LEMMA SevirLoads ==
  ASSUME NEW r, NEW archive
  PROVE  LET matching == {i \in DOMAIN archive : archive[i].start = r.initial}
         IN Archives!LoadSevir(r, archive)
              = IF Archives!Cardinality(matching) = 1 /\ archive[Archives!One(matching)].shaped
                THEN {FramesFrom(r, Archives!One(matching))} ELSE {}
<1> DEFINE matching == {i \in DOMAIN archive : archive[i].start = r.initial}
           found == Archives!MatchRow(archive, r.initial)
<1>1. Archives!LoadSevir(r, archive)
        = IF found = {} \/ ~archive[Archives!One(found)].shaped THEN {}
          ELSE {FramesFrom(r, Archives!One(found))}
  BY DEF Archives!LoadSevir, FramesFrom
<1>2. found = IF Archives!Cardinality(matching) = 1 THEN {Archives!One(matching)} ELSE {}
  BY DEF Archives!MatchRow, Archives!Only
<1> HIDE DEF found, matching
<1>3. \A x : Archives!One({x}) = x
  BY DEF Archives!One
<1>. QED
  BY <1>1, <1>2, <1>3 DEF matching

\* A SEVIR load gives the one window that starts at the initial time, each frame at
\* its own; an mlcast frame has the stored values in the box and none outside
\* (sevir/source.py, mlcast_common.py).
THEOREM WindowIsItsHolds ==
  ASSUME NEW r, IsLoadRequest(r), NEW archive, IsArchive(r.source, archive)
  PROVE  Archives!WindowIsIts(r, archive)
<1> DEFINE loaded == Archives!Load(r, TRUE, archive, 1)
<1>1. CASE ~Accepted(r)
  BY <1>1 DEF Accepted, Archives!Load, Archives!WindowIsIts
<1>2. CASE Accepted(r) /\ r.source = "sevir"
  <2> DEFINE matching == {i \in DOMAIN archive : archive[i].start = r.initial}
             row == Archives!One(matching)
             frames == FramesFrom(r, row)
  <2>1. PICK n \in Nat : DOMAIN archive = 1..n /\ \A i \in 1..n : archive[i].start \in Int
    BY <1>2 DEF IsArchive
  <2>3. loaded = Archives!LoadSevir(r, archive)
    BY <1>2 DEF Accepted, Archives!Load
  <2>4. loaded \subseteq {frames} /\ (loaded # {} => Archives!Cardinality(matching) = 1)
    BY <2>3, SevirLoads
  <2>5. ASSUME loaded # {}
        PROVE  archive[row].start = r.initial /\ \A i \in DOMAIN archive : archive[i].start = r.initial => i = row
    <3>1. IsFiniteSet(matching)
      <4>1. IsFiniteSet(1..n) /\ matching \in SUBSET (1..n)
        BY <2>1, FS_Interval
      <4>. QED
        BY <4>1, FS_Subset
    <3>2. PICK k : matching = {k}
      BY <2>4, <2>5, <3>1, SameCardinality, FS_Singleton
    <3>3. row = k
      BY <3>2 DEF Archives!One
    <3>. QED
      BY <3>2, <3>3
  <2>6. SUFFICES ASSUME NEW b \in loaded, NEW t \in DOMAIN b
                 PROVE  LET field == b[t][Archives!Declared.id] IN
                        /\ archive[field.row].start + Archives!Minutes(Archives!Cadence("sevir")) * (field.frame - 1) = t
                        /\ \A i \in DOMAIN archive : archive[i].start = r.initial => i = field.row
    BY <1>2 DEF Archives!WindowIsIts
  <2>7. b = frames
    BY <2>4
  <2>8. r.initial \in Int /\ Archives!Minutes(Archives!Cadence("sevir")) = 10
    BY DEF IsLoadRequest, Archives!Minutes, Archives!Cadence
  <2>9. PICK i \in 0..5 : t = r.initial + 10 * i
    BY <2>7, <2>8 DEF FramesFrom, Archives!ContextFrames
  <2> DEFINE field == b[t][Archives!Declared.id]
             minutes == Archives!Minutes(Archives!Cadence("sevir"))
  <2>10. field.row = row /\ field.frame = (t - r.initial) \div 10 + 1
    BY <2>7, <2>8 DEF FramesFrom
  <2>11. (t - r.initial) \div 10 = i
    BY <2>8, <2>9
  <2>12. field.frame - 1 = i
    BY <2>10, <2>11
  <2>13. minutes = 10
    BY <2>8
  <2> HIDE DEF frames, row, field, minutes
  <2>14. archive[field.row].start + minutes * (field.frame - 1) = t
    BY <2>5, <2>8, <2>9, <2>10, <2>12, <2>13
  <2>15. \A k \in DOMAIN archive : archive[k].start = r.initial => k = field.row
    BY <2>5, <2>10
  <2>. QED
    BY <2>14, <2>15 DEF field, minutes
<1>3. CASE Accepted(r) /\ r.source = "mlcast"
  <2> DEFINE store == Archives!One(archive)
  <2>1. loaded = IF Whole(r, archive, 1) THEN {Loaded(r, archive, 1)} ELSE {}
    BY <1>3, LoadsTheWhole
  <2>2. ASSUME Whole(r, archive, 1)
        PROVE  archive = {store}
    <3>1. Cardinality(archive) = 1 /\ IsFiniteSet(archive)
      BY <1>3, <2>2 DEF Whole, Stops, IsArchive
    <3>. QED
      BY <3>1, FS_Singleton DEF Archives!One
  <2>3. ASSUME Whole(r, archive, 1), NEW t \in TimesOf(r)
        PROVE  Loaded(r, archive, 1)[t][Archives!Declared.id] = Archives!Cropped(store, t, r.bbox)
    <3>1. ChannelsOf(r) = {Archives!Declared.id}
      BY <1>3 DEF ChannelsOf
    <3>2. /\ FieldOf(r, archive, t, Archives!Declared.id, 1) # {}
          /\ FieldOf(r, archive, t, Archives!Declared.id, 1) \subseteq {Archives!Cropped(store, t, r.bbox)}
      <4>1. FieldOf(r, archive, t, Archives!Declared.id, 1) = FrameOf(r, archive, t)
        BY <1>3 DEF FieldOf
      <4>2. FieldOf(r, archive, t, Archives!Declared.id, 1) # {}
        BY <2>3, <3>1 DEF Whole
      <4>. QED
        BY <4>1, <4>2 DEF FrameOf, Archives!Only
    <3>3. Archives!One(FieldOf(r, archive, t, Archives!Declared.id, 1)) = Archives!Cropped(store, t, r.bbox)
      BY <3>2, OneOf
    <3>. QED
      BY <3>1, <3>3 DEF Loaded
  <2>4. \A t : \A c \in DOMAIN store.grid :
          /\ Archives!Cropped(store, t, r.bbox)[c] # {} => Archives!InBox(store.grid[c], r.bbox)
          /\ Archives!InBox(store.grid[c], r.bbox) => Archives!Cropped(store, t, r.bbox)[c] = store.frames[t][c]
    BY DEF Archives!Cropped, Archives!Inside
  <2>5. Whole(r, archive, 1) => DOMAIN Loaded(r, archive, 1) = TimesOf(r)
    BY DEF Loaded
  <2>6. SUFFICES ASSUME NEW b \in loaded, NEW t \in DOMAIN b, NEW s \in archive, NEW c \in DOMAIN s.grid
                 PROVE  /\ b[t][Archives!Declared.id][c] # {} => Archives!InBox(s.grid[c], r.bbox)
                        /\ Archives!InBox(s.grid[c], r.bbox) => b[t][Archives!Declared.id][c] = s.frames[t][c]
    BY <1>3 DEF Archives!WindowIsIts
  <2> HIDE DEF store
  <2>7. Whole(r, archive, 1) /\ b = Loaded(r, archive, 1)
    BY <2>1
  <2>8. s = store /\ b[t][Archives!Declared.id] = Archives!Cropped(store, t, r.bbox)
    BY <2>2, <2>3, <2>5, <2>7
  <2>. QED
    BY <2>4, <2>8
<1>4. CASE r.source \notin {"sevir", "mlcast"}
  BY <1>4 DEF Archives!WindowIsIts
<1>. QED
  BY <1>1, <1>2, <1>3, <1>4

\* A file that was not observed at a time changes no field of it.
LEMMA OtherFieldsStay ==
  ASSUME NEW r, r.source \in Archives!Satellites, NEW archive, NEW f, IsFileOf(r.source, f), NEW day,
         NEW t, NEW c, ~Archives!ObservedAt(f, t, day)
  PROVE  FieldOf(r, archive \cup {f}, t, c, day) = FieldOf(r, archive, t, c, day)
<1> DEFINE more == archive \cup {f}
<1>0. r.source \in {"himawari9", "fy4b", "gk2a", "mtg"}
  BY DEF Archives!Satellites
<1>1. CASE r.source = "himawari9"
  <2>1. f.start # Archives!WholeMinute(t)
    BY <1>1 DEF IsFileOf, Archives!ObservedAt
  <2>2. {g \in Archives!Named(more) : g.satellite = "H09" /\ g.start = Archives!WholeMinute(t) /\ g.channel = c}
        = {g \in Archives!Named(archive) : g.satellite = "H09" /\ g.start = Archives!WholeMinute(t) /\ g.channel = c}
    BY <2>1 DEF Archives!Named
  <2>. QED
    BY <1>1, <2>2 DEF FieldOf, Archives!HimawariFiles
<1>2. CASE r.source = "fy4b"
  <2>1. f.start # t
    BY <1>2 DEF IsFileOf, Archives!ObservedAt
  <2>2. {g \in Archives!Named(more) : g.start = t} = {g \in Archives!Named(archive) : g.start = t}
    BY <2>1 DEF Archives!Named
  <2>3. Archives!Fy4bFiles(Archives!Named(more), t) = Archives!Fy4bFiles(Archives!Named(archive), t)
    BY <2>2 DEF Archives!Fy4bFiles
  <2>. QED
    BY <1>2, <2>3 DEF FieldOf
<1>3. CASE r.source = "gk2a"
  <2>1. f.start # Archives!WholeMinute(t)
    BY <1>3 DEF IsFileOf, Archives!ObservedAt
  <2>2. {g \in Archives!Named(more) : g.start = Archives!WholeMinute(t) /\ g.channel = c}
        = {g \in Archives!Named(archive) : g.start = Archives!WholeMinute(t) /\ g.channel = c}
    BY <2>1 DEF Archives!Named
  <2>3. Archives!Gk2aFile(Archives!Named(more), t, c) = Archives!Gk2aFile(Archives!Named(archive), t, c)
    BY <2>2 DEF Archives!Gk2aFile
  <2>. QED
    BY <1>3, <2>3 DEF FieldOf
<1>4. CASE r.source = "mtg"
  <2>1. Archives!NominalStart(f, day) # Archives!WholeMinute(t)
    BY <1>4 DEF IsFileOf, Archives!ObservedAt
  <2>2. {g \in Archives!Named(more) : Archives!NominalStart(g, day) = Archives!WholeMinute(t) /\ g.role = "BODY"}
        = {g \in Archives!Named(archive) : Archives!NominalStart(g, day) = Archives!WholeMinute(t) /\ g.role = "BODY"}
    BY <2>1 DEF Archives!Named
  <2>3. Archives!MtgFiles(Archives!Named(more), t, day) = Archives!MtgFiles(Archives!Named(archive), t, day)
    BY <2>2 DEF Archives!MtgFiles
  <2>. QED
    BY <1>4, <2>3 DEF FieldOf
<1>. QED
  BY <1>0, <1>1, <1>2, <1>3, <1>4

\* A mosaic that joins those that are read replaces at its own time only one that is
\* not newer.
LEMMA MosaicsStay ==
  ASSUME NEW files, \A g \in files : g.generation \in Int, NEW f, f.generation \in Int, NEW t, NEW box,
         NEW was, was = Archives!ReadMosaic(files, t, box), was # {},
         NEW more, \A g : g \in more <=> g \in files \/ g = f,
         NEW is, is = Archives!ReadMosaic(more, t, box), is # {}
  PROVE  \/ Archives!One(is) = Archives!One(was)
         \/ /\ Archives!One(was).file.time = f.time /\ Archives!One(was).file.generation <= f.generation
            /\ Archives!One(is).file.generation = f.generation
<1> DEFINE Read(fs) == Archives!ReadMosaic(fs, t, box)
           Picked1(fs) == Archives!One(Archives!Newest(fs, t))
<1>1. ASSUME NEW fs, Read(fs) # {}
      PROVE  Archives!Newest(fs, t) # {} /\ Archives!One(Read(fs)).file = Picked1(fs) /\ Picked1(fs) \in Archives!Newest(fs, t)
  <2>1. Archives!Newest(fs, t) # {} /\ Read(fs) = Archives!Crop(Picked1(fs), box)
    BY <1>1 DEF Archives!ReadMosaic
  <2>2. Archives!One(Read(fs)) \in Archives!Crop(Picked1(fs), box)
    BY <1>1, <2>1, OneOf
  <2> HIDE DEF Read, Picked1
  <2>3. Archives!One(Read(fs)).file = Picked1(fs)
    BY <2>2 DEF Archives!Crop, Archives!Only
  <2>. QED
    BY <2>1, <2>3, OneOf DEF Picked1
<1>2. CASE Archives!Newest(more, t) = Archives!Newest(files, t)
  BY <1>2 DEF Archives!ReadMosaic
<1>3. CASE Archives!Newest(more, t) # Archives!Newest(files, t)
  <2> DEFINE old == Picked1(files)
             new == Picked1(more)
  <2>1. /\ old \in files /\ old.time = t /\ \A g \in files : g.time = t => g.generation <= old.generation
        /\ new \in more /\ new.time = t /\ \A g \in more : g.time = t => g.generation <= new.generation
    <3>1. old \in Archives!Newest(files, t) /\ new \in Archives!Newest(more, t)
      BY <1>1
    <3> HIDE DEF old, new
    <3>. QED
      BY <3>1 DEF Archives!Newest
  <2> HIDE DEF old, new
  <2>2. f.time = t /\ old.generation <= f.generation
    <3>1. ASSUME f.time # t \/ f.generation < old.generation
          PROVE  Archives!Newest(more, t) = Archives!Newest(files, t)
      BY <2>1, <3>1 DEF Archives!Newest
    <3>2. f.generation \in Int /\ old.generation \in Int
      BY <2>1
    <3>. QED
      BY <1>3, <3>1, <3>2
  <2>3. new.generation = f.generation
    <3>1. new.generation \in Int /\ f.generation <= new.generation
      BY <2>1, <2>2
    <3>2. new = f \/ new.generation <= old.generation
      BY <2>1
    <3>. QED
      BY <2>1, <2>2, <3>1, <3>2
  <2>4. Archives!One(Read(files)).file = old /\ Archives!One(Read(more)).file = new
    BY <1>1 DEF old, new
  <2>. QED
    BY <2>1, <2>2, <2>3, <2>4
<1>. QED
  BY <1>2, <1>3

\* A file that arrives changes no field of a time it was not observed at; among
\* mosaics of one time only a newer one takes a place (adapters/*/source.py).
THEOREM ArrivalsKeepHolds ==
  ASSUME NEW r, IsLoadRequest(r), NEW archive, IsArchive(r.source, archive),
         NEW f, IsFileOf(r.source, f), NEW day
  PROVE  Archives!ArrivalsKeep(r, archive, f, day)
<1> DEFINE more == archive \cup {f}
           before == Archives!Load(r, TRUE, archive, day)
           after == Archives!Load(r, TRUE, more, day)
           Kept(a, b, t) ==
             \/ b[t] = a[t]
             \/ /\ b[t][Archives!Declared.id].file.time = f.time
                /\ b[t][Archives!Declared.id].file.generation <= f.generation
                /\ a[t][Archives!Declared.id].file.generation = f.generation
<1>0. Archives!ArrivalsKeep(r, archive, f, day) <=>
        ( /\ (r.source \in Archives!Satellites
                /\ \A t \in Archives!ToSet(Archives!RequestedTimes(r)) : ~Archives!ObservedAt(f, t, day)) =>
               before = after
          /\ (r.source = "cma_radar" /\ f.named /\ \A g \in archive : g.packed = f.packed) =>
               \A b \in before, a \in after : \A t \in DOMAIN b : Kept(a, b, t) )
  BY DEF Archives!ArrivalsKeep
<1>1. CASE ~Accepted(r)
  <2>1. before = {} /\ after = {}
    BY <1>1 DEF Accepted, Archives!Load
  <2>. QED
    BY <1>0, <2>1
<1>2. CASE Accepted(r) /\ r.source \in Archives!Satellites
  <2> SUFFICES ASSUME \A t \in TimesOf(r) : ~Archives!ObservedAt(f, t, day)
               PROVE  before = after
    BY <1>0, <1>2 DEF TimesOf, Archives!Satellites
  <2>1. r.source # "sevir" /\ r.source \notin {"cma_radar", "mlcast"}
    BY <1>2 DEF Archives!Satellites
  <2>2. \A t \in TimesOf(r) : \A c : FieldOf(r, more, t, c, day) = FieldOf(r, archive, t, c, day)
    BY <1>2, OtherFieldsStay
  <2>3. ~Stops(r, archive) /\ ~Stops(r, more)
    BY <2>1 DEF Stops
  <2>4. Whole(r, archive, day) <=> Whole(r, more, day)
    BY <2>2, <2>3 DEF Whole
  <2>5. Loaded(r, archive, day) = Loaded(r, more, day)
    BY <2>2 DEF Loaded
  <2>6. /\ before = IF Whole(r, archive, day) THEN {Loaded(r, archive, day)} ELSE {}
        /\ after = IF Whole(r, more, day) THEN {Loaded(r, more, day)} ELSE {}
    BY <1>2, <2>1, LoadsTheWhole
  <2>. QED
    BY <2>4, <2>5, <2>6
<1>3. CASE Accepted(r) /\ r.source = "cma_radar"
  <2> SUFFICES ASSUME f.named, \A g \in archive : g.packed = f.packed,
                      NEW b \in before, NEW a \in after, NEW t \in DOMAIN b
               PROVE  Kept(a, b, t)
    BY <1>0, <1>3 DEF Archives!Satellites
  <2>1. /\ Whole(r, archive, day) /\ b = Loaded(r, archive, day)
        /\ Whole(r, more, day) /\ a = Loaded(r, more, day)
    <3>1. \A stored : Archives!Load(r, TRUE, stored, day)
                        = IF Whole(r, stored, day) THEN {Loaded(r, stored, day)} ELSE {}
      BY <1>3, LoadsTheWhole
    <3>. QED
      BY <3>1
  <2>2. t \in TimesOf(r) /\ ChannelsOf(r) = {Archives!Declared.id}
    BY <1>3, <2>1 DEF Loaded, ChannelsOf
  <2> DEFINE read == MosaicsRead(archive)
             id == Archives!Declared.id
             was == Archives!ReadMosaic(read, t, r.bbox)
             is == Archives!ReadMosaic(MosaicsRead(more), t, r.bbox)
  <2>3. \A x : FieldOf(r, archive, t, x, day) = was /\ FieldOf(r, more, t, x, day) = is
    BY <1>3 DEF FieldOf
  <2> HIDE DEF was, is
  <2>4. /\ was # {} /\ is # {}
        /\ b[t] = [x \in {id} |-> Archives!One(was)] /\ a[t] = [x \in {id} |-> Archives!One(is)]
    <3>1. b[t] = [x \in {id} |-> Archives!One(FieldOf(r, archive, t, x, day))]
          /\ a[t] = [x \in {id} |-> Archives!One(FieldOf(r, more, t, x, day))]
      BY <2>1, <2>2 DEF Loaded
    <3>2. FieldOf(r, archive, t, id, day) # {} /\ FieldOf(r, more, t, id, day) # {}
      BY <2>1, <2>2 DEF Whole
    <3>. QED
      BY <2>3, <3>1, <3>2
  <2>5. MosaicsRead(more) \in {read, read \cup {f}}
    <3> DEFINE packed(fs) == {g \in fs : g.packed /\ g.onTop}
    <3>1. CASE packed(archive) # {}
      BY <3>1 DEF MosaicsRead
    <3>2. CASE packed(archive) = {}
      <4>1. read = Archives!Named({g \in archive : ~g.packed})
        BY <3>2 DEF MosaicsRead
      <4>2. CASE f.packed
        <5>1. read = {}
          BY <4>1, <4>2 DEF Archives!Named
        <5>2. was = {}
          BY <5>1 DEF was, Archives!ReadMosaic, Archives!Newest
        <5>. QED
          BY <2>4, <5>2
      <4>3. CASE ~f.packed
        <5>1. packed(more) = {}
          BY <3>2, <4>3
        <5>2. MosaicsRead(more) = Archives!Named({g \in more : ~g.packed})
          BY <5>1 DEF MosaicsRead
        <5>. QED
          BY <4>1, <4>3, <5>2 DEF Archives!Named
      <4>. QED
        BY <4>2, <4>3
    <3>. QED
      BY <3>1, <3>2
  <2>6. f.generation \in Int /\ \A g \in read : g.generation \in Int
    <3>1. read \subseteq archive
      BY DEF MosaicsRead, Archives!Named
    <3>2. \A g \in archive : IsFileOf("cma_radar", g)
      BY <1>3 DEF IsArchive
    <3>3. \A g : IsFileOf("cma_radar", g) => g.generation \in Int
      BY DEF IsFileOf
    <3>4. IsFileOf("cma_radar", f)
      BY <1>3
    <3>. QED
      BY <3>1, <3>2, <3>3, <3>4
  <2>7. \/ Archives!One(is) = Archives!One(was)
        \/ /\ Archives!One(was).file.time = f.time /\ Archives!One(was).file.generation <= f.generation
           /\ Archives!One(is).file.generation = f.generation
    <3>1. CASE MosaicsRead(more) = read
      BY <3>1 DEF was, is
    <3>2. CASE MosaicsRead(more) = read \cup {f}
      <4> DEFINE joined == MosaicsRead(more)
      <4>1. \A g : g \in joined <=> g \in read \/ g = f
        BY <3>2
      <4>2. /\ was = Archives!ReadMosaic(read, t, r.bbox) /\ was # {}
            /\ is = Archives!ReadMosaic(joined, t, r.bbox) /\ is # {}
        BY <2>4 DEF was, is
      <4> HIDE DEF read, joined
      <4>. QED
        BY <2>6, <4>1, <4>2, MosaicsStay
    <3>. QED
      BY <2>5, <3>1, <3>2
  <2>8. b[t][id] = Archives!One(was) /\ a[t][id] = Archives!One(is)
    BY <2>4
  <2>. QED
    BY <2>4, <2>7, <2>8
<1>. QED
  BY <1>0, <1>1, <1>2, <1>3

------------------------------------------------------------------------------
(***************************************************************************)
(* The runs of MC_Algorithms: every input they pick is one of those that   *)
(* the laws above are of.                                                  *)
(***************************************************************************)
PickedFrom(p, S) == Picked(p) => \E i \in S : input = <<i>>
InputInv ==
  /\ PickedFrom("pairs", DataPackages \X ModelPackages)
  /\ PickedFrom("ruler", Rulers \X DataPackages)
  /\ PickedFrom("plan", Configs \X Catalogs \X UpTo2(Runs))
  /\ PickedFrom("query", Tables \X Queries1 \X Expansions)
  /\ PickedFrom("fields", Fields({"low", "high", "nan", "masked"}) \X Fields({"low", "masked"}) \X Targets)
  /\ PickedFrom("access", Access!Providing)
  /\ PickedFrom("load", UNION {Archives!Loads(source) : source \in Archives!Sources \cup {"anywhere"}})

LEMMA InputInvHolds == MC_Spec => []InputInv
<1>1. MC_Init => InputInv
  BY DEF MC_Init, InputInv, PickedFrom, Picked
<1>2. InputInv /\ [MC_Next]_<<part, input>> => InputInv'
  <2> SUFFICES ASSUME InputInv, [MC_Next]_<<part, input>> PROVE InputInv'
    OBVIOUS
  <2>1. ASSUME UNCHANGED <<part, input>>
        PROVE  InputInv'
    BY <2>1 DEF InputInv, PickedFrom, Picked
  <2>2. ASSUME MC_Next
        PROVE  /\ input = <<>> /\ input' # <<>> /\ part' = part
               /\ part = "pairs" => \E i \in DataPackages \X ModelPackages : input' = <<i>>
               /\ part = "ruler" => \E i \in Rulers \X DataPackages : input' = <<i>>
               /\ part = "plan" => \E i \in Configs \X Catalogs \X UpTo2(Runs) : input' = <<i>>
               /\ part = "query" => \E i \in Tables \X Queries1 \X Expansions : input' = <<i>>
               /\ part = "fields" => \E i \in Fields({"low", "high", "nan", "masked"})
                                               \X Fields({"low", "masked"}) \X Targets : input' = <<i>>
               /\ part = "access" => \E i \in Access!Providing : input' = <<i>>
               /\ part = "load" => \E i \in UNION {Archives!Loads(source) :
                                      source \in Archives!Sources \cup {"anywhere"}} : input' = <<i>>
    BY <2>2 DEF MC_Next, PicksInput
  <2>3. ASSUME MC_Next
        PROVE  InputInv'
    BY <2>2, <2>3 DEF InputInv, PickedFrom, Picked
  <2>. QED
    BY <2>1, <2>3
<1>. QED
  BY <1>1, <1>2, PTL DEF MC_Spec

LEMMA ShortLists ==
  ASSUME NEW S, NEW T, S \subseteq T, NEW l \in UpTo2(S)
  PROVE  l \in Seq(T)
<1>1. CASE l = <<>>
  BY <1>1
<1>2. CASE \E a \in S : l = <<a>>
  BY <1>2
<1>3. CASE \E a \in S, b \in S : l = <<a, b>>
  <2>1. PICK a \in S, b \in S : l = <<a, b>>
    BY <1>3
  <2>2. a \in T /\ b \in T
    OBVIOUS
  <2>. QED
    BY <2>1, <2>2
<1>. QED
  BY <1>1, <1>2, <1>3 DEF UpTo2

\* The packages of the run list field specs.
LEMMA RunPackages ==
  ASSUME NEW p, p \in DataPackages \/ p \in ModelPackages
  PROVE  SpecsIn(p, Specs \cup {Blank})
<1> DEFINE F == Specs \cup {Blank}
<1>1. /\ \A l \in UpTo2(FewSpecs) : l \in Seq(F)
      /\ \A l \in UpTo2({s \in Specs : s.cadence = {}}) : l \in Seq(F)
      /\ \A l \in UpTo2({s \in Specs : s.cadence = {5}}) : l \in Seq(F)
      /\ \A l \in UpTo2({Blank}) : l \in Seq(F)
  BY ShortLists DEF FewSpecs
<1>2. <<>> \in Seq(F)
  OBVIOUS
<1> HIDE DEF F
<1>3. CASE p \in DataPackages
  <2>1. PICK f \in UpTo2(FewSpecs), c \in {{}, {5}, {10}} : p = Data(f, c)
    BY <1>3 DEF DataPackages
  <2>2. p.fields = f /\ p.input = <<>> /\ p.output = <<>>
    BY <2>1 DEF Data, Package
  <2>. QED
    BY <1>1, <1>2, <2>2 DEF SpecsIn, F
<1>4. CASE p \in ModelPackages
  <2>1. CASE \E f \in OneCadence, c \in {{}, {5}} : p = Model(f, c)
    <3>1. PICK f \in OneCadence, c \in {{}, {5}} : p = Model(f, c)
      BY <2>1
    <3>2. p.fields = <<>> /\ p.input = <<>> /\ p.output = f
      BY <3>1 DEF Model, Package
    <3>. QED
      BY <1>1, <1>2, <3>2 DEF SpecsIn, F, OneCadence
  <2>2. CASE \E f \in UpTo2({Blank}) : p = BareModel(f)
    <3>1. PICK f \in UpTo2({Blank}) : p = BareModel(f)
      BY <2>2
    <3>2. p.fields = <<>> /\ p.input = <<>> /\ p.output = f
      BY <3>1 DEF BareModel, Package
    <3>. QED
      BY <1>1, <1>2, <3>2 DEF SpecsIn, F
  <2>. QED
    BY <1>4, <2>1, <2>2 DEF ModelPackages
<1>. QED
  BY <1>3, <1>4

\* In every run the page and the planner judge the pairs alike, these fit their
\* ruler, and filling keeps what is said (matching.py, planner.py): no package of
\* a run is outside what the laws are of, whatever names and units are.
THEOREM RunPairsFitRuler == MC_Spec => []PairsFitRuler
<1>1. InputInv => PairsFitRuler
  <2> SUFFICES ASSUME InputInv PROVE PairsFitRuler
    OBVIOUS
  <2>1. ASSUME Picked("pairs"), NEW ps \in PairCatalogs(given[1], given[2])
        PROVE  PairFitsRuler(ps)
    <3> DEFINE other == [given[1] EXCEPT !.cadence = {10}]
               P == {given[1], other, given[2]}
    <3>1. given[1] \in DataPackages /\ given[2] \in ModelPackages
      BY <2>1 DEF InputInv, PickedFrom, given
    <3>2. SpecsIn(given[1], Specs \cup {Blank}) /\ SpecsIn(given[2], Specs \cup {Blank})
      BY <3>1, RunPackages
    <3>3. SpecsIn(other, Specs \cup {Blank})
      <4>1. PICK f \in UpTo2(FewSpecs), c \in {{}, {5}, {10}} : given[1] = Data(f, c)
        BY <3>1 DEF DataPackages
      <4>2. other.fields = given[1].fields /\ other.input = given[1].input
            /\ other.output = given[1].output
        BY <4>1 DEF Data, Package
      <4>. QED
        BY <3>2, <4>2 DEF SpecsIn
    <3>4. \A p \in P : SpecsIn(p, Specs \cup {Blank})
      BY <3>2, <3>3
    <3>5. ps = <<given[1], given[2]>> \/ ps = <<other, given[1], given[2]>>
      BY <2>1 DEF PairCatalogs
    <3> HIDE DEF other
    <3>6. ps \in Seq(P)
      <4>1. \A a \in P, b \in P, c \in P : <<a, b>> \in Seq(P) /\ <<a, b, c>> \in Seq(P)
        OBVIOUS
      <4>2. given[1] \in P /\ other \in P /\ given[2] \in P
        OBVIOUS
      <4> HIDE DEF P
      <4>. QED
        BY <3>5, <4>1, <4>2
    <3> HIDE DEF P
    <3>. QED
      BY <3>4, <3>6, PairFitsRulerHolds
  <2>2. ASSUME Picked("ruler") PROVE FillingKeeps(given[1], given[2])
    <3>1. given[1] \in Rulers
      BY <2>2 DEF InputInv, PickedFrom, given
    <3>2. given[1] \in [Blanks -> Opt({u1}) \cup Opt({10}) \cup Opt({u2})]
      BY <3>1 DEF Rulers, Blanks
    <3>. QED
      BY <3>2, FillingKeepsHolds
  <2>. QED
    BY <2>1, <2>2 DEF PairsFitRuler
<1>. QED
  BY <1>1, InputInvHolds, PTL

\* The configs, catalogs and runs that are picked are such as files can hold.
LEMMA RunPlans ==
  ASSUME NEW g, g \in Configs \X Catalogs \X UpTo2(Runs)
  PROVE  /\ g[1] \in Config({m1, m2}, {d1, d2})
         /\ \E P : g[2] \in Seq(P)
         /\ g[3] \in Seq(RunConfig({m1, m2}, {d1, d2}))
<1>1. g[1] \in Configs /\ g[2] \in Catalogs /\ g[3] \in UpTo2(Runs)
  OBVIOUS
<1>2. g[1] \in Config({m1, m2}, {d1, d2})
  <2>1. PICK m \in Member1 : g[1] = [truth |-> d1, step |-> 2, roster |-> [n \in {m1} |-> m]]
    BY <1>1 DEF Configs
  <2>2. m \in [leads : SUBSET (Nat \ {0}), from : SUBSET Int, to : SUBSET Int]
    BY DEF Member1
  <2>3. [n \in {m1} |-> m] \in [{m1} -> [leads : SUBSET (Nat \ {0}), from : SUBSET Int, to : SUBSET Int]]
    BY <2>2
  <2> DEFINE R == [leads : SUBSET (Nat \ {0}), from : SUBSET Int, to : SUBSET Int]
             roster == [n \in {m1} |-> m]
  <2>4. roster \in UNION {[S -> R] : S \in SUBSET {m1, m2}}
    <3>1. {m1} \in SUBSET {m1, m2} /\ roster \in [{m1} -> R]
      BY <2>3
    <3> HIDE DEF R, roster
    <3>. QED
      BY <3>1
  <2> HIDE DEF roster
  <2>5. d1 \in {d1, d2} /\ 2 \in Nat \ {0} /\ g[1] = [truth |-> d1, step |-> 2, roster |-> roster]
    BY <2>1 DEF roster
  <2> DEFINE Of(d, s, r) == [truth |-> d, step |-> s, roster |-> r]
             Rosters == UNION {[S -> R] : S \in SUBSET {m1, m2}}
  <2>6. Config({m1, m2}, {d1, d2}) = {Of(d, s, r) : d \in {d1, d2}, s \in Nat \ {0}, r \in Rosters}
    BY DEF Config
  <2>7. g[1] = Of(d1, 2, roster) /\ roster \in Rosters
    BY <2>4, <2>5
  <2> HIDE DEF Of, Rosters
  <2>. QED
    BY <2>5, <2>6, <2>7
<1>3. ASSUME NEW ps \in Catalogs PROVE \E P : ps \in Seq(P)
  <2> DEFINE a == [Package EXCEPT !.offers = {prof}, !.cadence = {2}]
             b == [Package EXCEPT !.id = m1, !.requires = {prof}, !.cadence = {3}]
  <2>1. ps \in {<<>>, <<a>>, <<a, b>>}
    BY DEF Catalogs
  <2> HIDE DEF a, b
  <2>2. ps \in UpTo2({a, b})
    BY <2>1 DEF UpTo2
  <2>. QED
    BY <2>2, ShortLists
<1>4. Runs \subseteq RunConfig({m1, m2}, {d1, d2})
  <2> SUFFICES ASSUME NEW doc \in Documents, ValidRun(doc)
               PROVE  RunOf(doc) \in RunConfig({m1, m2}, {d1, d2})
    BY DEF Runs
  <2>1. /\ doc.model \in {{}, {m1}, {m2}} /\ doc.data \in {{}, {d1}, {d2}}
        /\ doc.start \in {{}, {<<1, 0>>}, {<<2, 0>>}} /\ doc.horizon \in {{}, {0}, {1}, {3}}
    BY DEF Documents
  <2>2. The(doc.model) \in {m1, m2} /\ The(doc.data) \in {d1, d2}
    BY <2>1 DEF ValidRun, The
  <2>3. doc.horizon \in SUBSET (Nat \ {0})
    BY <2>1 DEF ValidRun
  <2>4. doc.start \in SUBSET (Int \X Int) /\ \A t, u \in doc.start : t = u
    BY <2>1
  <2>5. \A h, k \in doc.horizon : h = k
    BY <2>1
  <2>. QED
    BY <2>2, <2>3, <2>4, <2>5 DEF RunOf, RunConfig
<1>. QED
  BY <1>1, <1>2, <1>3, <1>4, ShortLists

\* In every run plan, offer, execution and coverage agree (planning.py, reports).
THEOREM RunPlanIsExecuted == MC_Spec => []PlanIsExecuted
<1>1. InputInv => PlanIsExecuted
  <2> SUFFICES ASSUME InputInv, Picked("plan")
               PROVE  /\ ExecutesThePlan(given[1], given[2], given[3])
                      /\ OfferedIsPlanned(given[1], given[2], given[3])
                      /\ \A observed \in {{22}, {21, 42}, 0..60} :
                           CoverageIsExact(given[1], given[2], given[3], observed, 20, 6)
    BY DEF PlanIsExecuted
  <2>1. given \in Configs \X Catalogs \X UpTo2(Runs)
    BY DEF InputInv, PickedFrom, given
  <2> DEFINE M == {m1, m2}
             D == {d1, d2}
  <2>2. /\ given[1] \in Config(M, D)
        /\ \E P : given[2] \in Seq(P)
        /\ given[3] \in Seq(RunConfig(M, D))
    BY <2>1, RunPlans
  <2> HIDE DEF M, D
  <2>3. \A observed \in {{22}, {21, 42}, 0..60} : observed \in SUBSET Int
    OBVIOUS
  <2>4. ExecutesThePlan(given[1], given[2], given[3])
    BY <2>2, ExecutesThePlanHolds
  <2>5. OfferedIsPlanned(given[1], given[2], given[3])
    BY <2>2, OfferedIsPlannedHolds
  <2>6. \A observed \in {{22}, {21, 42}, 0..60} :
          CoverageIsExact(given[1], given[2], given[3], observed, 20, 6)
    BY <2>2, <2>3, CoverageIsExactHolds
  <2>. QED
    BY <2>4, <2>5, <2>6
<1>. QED
  BY <1>1, InputInvHolds, PTL

\* In every run the records of an answer sum each row that was asked for, once
\* (query/service.py, store/db.py).
THEOREM RunAnswerIsTheSelection == MC_Spec => []AnswerIsTheSelection
<1>1. InputInv => AnswerIsTheSelection
  <2> SUFFICES ASSUME InputInv, Picked("query")
               PROVE  AnswersTheQuestion(given[1], Reviewed, given[2], given[3])
    BY DEF AnswerIsTheSelection
  <2>1. given[1] \in Tables /\ given[2] \in Queries1 /\ given[3] \in Expansions
    BY DEF InputInv, PickedFrom, given
  <2>2. \A r \in given[1] : IsRow(r)
    <3>1. \A r \in Universe : IsRow(r)
      BY DEF Universe, Row, IsRow, Ever
    <3>. QED
      BY <2>1, <3>1 DEF Tables
  <2>3. IsQuery(given[2])
    <3> DEFINE opts == {{}, {1}, {2}, {3}}
    <3>1. ASSUME NEW q, \A e \in Ranges : q[e] \in opts, q.lead = <<>>, q.half_window = <<>>
          PROVE  IsQuery(q)
      <4>1. \A o \in opts : o \in SUBSET Int /\ \A a, b \in o : a = b
        OBVIOUS
      <4>. QED
        BY <3>1, <4>1 DEF IsQuery
    <3>2. CASE \E lf, lt, if, it \in opts : \E lv, m : given[2] = Ask(lf, lt, if, it, lv, m)
      <4>1. PICK lf \in opts, lt \in opts, if \in opts, it \in opts :
              \E lv, m : given[2] = Ask(lf, lt, if, it, lv, m)
        BY <3>2
      <4>2. PICK lv, m : given[2] = Ask(lf, lt, if, it, lv, m)
        BY <4>1
      <4> DEFINE q == Ask(lf, lt, if, it, lv, m)
      <4>3. (\A e \in Ranges : q[e] \in opts) /\ q.lead = <<>> /\ q.half_window = <<>>
        BY DEF Ask, NoQuery, Ranges
      <4> HIDE DEF q, opts
      <4>4. IsQuery(q)
        BY <3>1, <4>3
      <4>. QED
        BY <4>2, <4>4 DEF q
    <3>3. CASE \E tf, tt \in opts : given[2] = During(tf, tt)
      <4>1. PICK tf \in opts, tt \in opts : given[2] = During(tf, tt)
        BY <3>3
      <4> DEFINE q == During(tf, tt)
      <4>2. (\A e \in Ranges : q[e] \in opts) /\ q.lead = <<>> /\ q.half_window = <<>>
        BY DEF During, NoQuery, Ranges
      <4> HIDE DEF q, opts
      <4>3. IsQuery(q)
        BY <3>1, <4>2
      <4>. QED
        BY <4>1, <4>3 DEF q
    <3>4. \/ \E lf, lt, if, it \in opts : \E lv, m : given[2] = Ask(lf, lt, if, it, lv, m)
          \/ \E tf, tt \in opts : given[2] = During(tf, tt)
      BY <2>1 DEF Queries1
    <3>. QED
      BY <3>2, <3>3, <3>4
  <2>4. \E D : given[3] \in Seq(D)
    <3>1. given[3] \in UpTo2({"hour", "member", "init_time", "valid_time", "level", "half_window"})
      BY <2>1 DEF Expansions, UpTo2
    <3>. QED
      BY <3>1, ShortLists
  <2>. QED
    BY <2>2, <2>3, <2>4, AnswersTheQuestionHolds
<1>. QED
  BY <1>1, InputInvHolds, PTL

\* In every run a hole stays one, through wire and common grid (core/grid.py).
THEOREM RunHoleStaysHole == MC_Spec => []HoleStaysHole
<1>1. ASSUME NEW S, NEW f \in Fields(S)
      PROVE  IsFrame(f) /\ f.time = 0 /\ f.variable = n1 /\ f.unit = u1
  <2>1. PICK states \in [(1..2) \X (1..2) -> S] : f = Field(states)
    BY DEF Fields
  <2> DEFINE all == (1..2) \X (1..2)
             data == [c \in all |-> CASE states[c] = "low" -> {0} [] states[c] = "nan" -> {}
                                      [] OTHER -> {8}]
             hidden == {c \in all : states[c] = "masked"}
             mask == IF hidden = {} THEN {} ELSE {hidden}
  <2>2. f = [lon |-> Axis2, lat |-> Axis2, data |-> data, mask |-> mask,
             unit |-> u1, variable |-> n1, time |-> 0]
    BY <2>1 DEF Field
  <2>3. DOMAIN data = all /\ \A m \in mask : m \subseteq all
    OBVIOUS
  <2> HIDE DEF data, mask
  <2>4. IsAxis(Axis2) /\ Len(Axis2) = 2
    BY DEF IsAxis, Axis2, Increasing
  <2>5. Cells(f) = all
    BY <2>2, <2>4 DEF Cells, Rows, Columns
  <2>. QED
    BY <2>2, <2>3, <2>4, <2>5 DEF IsFrame, ValidField, IsAxis
<1>2. \A target \in Targets : IsGrid(target)
  <2>1. /\ <<0, 0, 2, 2>> \in [1..4 -> Int] /\ <<1, -1, 3, 1>> \in [1..4 -> Int]
        /\ 1 \in Nat \ {0} /\ 2 \in Nat \ {0}
    OBVIOUS
  <2>. QED
    BY <2>1, TargetsAreGrids DEF Targets
<1>3. InputInv => HoleStaysHole
  <2> SUFFICES ASSUME InputInv, Picked("fields")
               PROVE  HolesStay(given[1], given[2], given[3])
    BY DEF HoleStaysHole
  <2>1. /\ given[1] \in Fields({"low", "high", "nan", "masked"})
        /\ given[2] \in Fields({"low", "masked"}) /\ given[3] \in Targets
    BY DEF InputInv, PickedFrom, given
  <2>2. IsFrame(given[1]) /\ IsFrame(given[2]) /\ IsGrid(given[3]) /\ Aligns(given[1], given[2])
    BY <1>1, <1>2, <2>1 DEF Aligns
  <2>. QED
    BY <2>2, HolesStayHolds
<1>. QED
  BY <1>3, InputInvHolds, PTL

\* In every run a provider answers through the service as it does directly.
THEOREM RunRemoteIsDirect == MC_Spec => []RemoteIsDirect
<1>1. \A p \in Access!Providing : p.kind \in ProviderKinds /\ p.geographic \in BOOLEAN
  <2>1. \A p \in Access!Mocks : p.kind = "mock" /\ p.geographic = TRUE
    BY DEF Access!Mocks, Access!Builds
  <2>2. \A p \in Access!Replays : p.kind = "replay" /\ p.geographic = TRUE
    BY DEF Access!Replays
  <2>3. \A p \in Access!StoredRuns : p.kind = "run" /\ p.geographic \in BOOLEAN
    BY DEF Access!StoredRuns
  <2>4. \A p \in Access!Platforms : p.kind = "platform" /\ p.geographic \in BOOLEAN
    BY DEF Access!Platforms
  <2>. QED
    BY <2>1, <2>2, <2>3, <2>4 DEF Access!Providing, ProviderKinds
<1>2. \A q \in Access!Requests : q.op \in Operations
  BY DEF Access!Requests, Access!Times, Access!Observation, Access!Leads, Access!Prediction, Operations
<1>3. InputInv => RemoteIsDirect
  <2> SUFFICES ASSUME InputInv, Picked("access"), NEW q \in Access!Requests
               PROVE  Access!RemoteAgrees(given, q)
    BY DEF RemoteIsDirect
  <2>1. given \in Access!Providing
    BY DEF InputInv, PickedFrom, given
  <2>. QED
    BY <1>1, <1>2, <2>1, RemoteAgreesHolds
<1>. QED
  BY <1>3, InputInvHolds, PTL

\* The requests and archives of MC_Adapters are such.
LEMMA AskedIsRequest ==
  ASSUME NEW source \in Archives!Sources
  PROVE  IsLoadRequest(Archives!Asked(source)) /\ Archives!Asked(source).source = source
<1> DEFINE r == Archives!Asked(source)
<1>1. /\ r.source = source /\ r.initial = 10 /\ r.steps = 1 /\ r.interval \in {4, 5}
      /\ r.channels = <<Archives!Declared>> /\ r.bbox = Archives!World
      /\ DOMAIN r = RequestFields
  BY DEF Archives!Asked, RequestFields
<1> HIDE DEF r
<1>2. \A e \in {"west", "south", "east", "north"} : r.bbox[e] \in Int
  BY <1>1 DEF Archives!World
<1>3. r.channels \in Seq({Archives!Declared})
  BY <1>1
<1>4. r.initial \in Int /\ r.steps \in Int /\ r.interval \in Int
  BY <1>1
<1>5. IsLoadRequest(r)
  BY <1>1, <1>2, <1>3, <1>4 DEF IsLoadRequest
<1>. QED
  BY <1>1, <1>5 DEF r

\* A field of a request becomes another value of its kind.
LEMMA StepsGiven ==
  ASSUME NEW r, IsLoadRequest(r), NEW n \in Int
  PROVE  LET q == [r EXCEPT !.steps = n] IN IsLoadRequest(q) /\ q.source = r.source
BY DEF IsLoadRequest, RequestFields

LEMMA InitialGiven ==
  ASSUME NEW r, IsLoadRequest(r), NEW t \in Int
  PROVE  LET q == [r EXCEPT !.initial = t] IN IsLoadRequest(q) /\ q.source = r.source
BY DEF IsLoadRequest, RequestFields

LEMMA ChannelsGiven ==
  ASSUME NEW r, IsLoadRequest(r), NEW C, NEW l \in Seq(C)
  PROVE  LET q == [r EXCEPT !.channels = l] IN IsLoadRequest(q) /\ q.source = r.source
BY DEF IsLoadRequest, RequestFields

LEMMA IntervalGiven ==
  ASSUME NEW r, IsLoadRequest(r), NEW i \in Int
  PROVE  LET q == [r EXCEPT !.interval = i] IN IsLoadRequest(q) /\ q.source = r.source
BY DEF IsLoadRequest, RequestFields

LEMMA BoxGiven ==
  ASSUME NEW r, IsLoadRequest(r), NEW b, \A e \in {"west", "south", "east", "north"} : b[e] \in Int
  PROVE  LET q == [r EXCEPT !.bbox = b] IN IsLoadRequest(q) /\ q.source = r.source
BY DEF IsLoadRequest, RequestFields

LEMMA PlaceGiven ==
  ASSUME NEW r, IsLoadRequest(r), NEW d, NEW root
  PROVE  LET q == [r EXCEPT !.dir = d, !.root = root] IN IsLoadRequest(q) /\ q.source = r.source
BY DEF IsLoadRequest, RequestFields

\* The files of each satellite, one of them under a name that is not its source's.
FilesOf(source) ==
  CASE source = "himawari9" -> Archives!AhiFiles [] source = "fy4b" -> Archives!AgriFiles
    [] source = "gk2a" -> Archives!AmiFiles [] OTHER -> Archives!FciFiles

LEMMA SatelliteFiles ==
  ASSUME NEW source \in Archives!Satellites, NEW f \in FilesOf(source)
  PROVE  IsFileOf(source, f) /\ "named" \in DOMAIN f
<1>1. CASE source = "himawari9"
  <2>1. DOMAIN f = {"named", "satellite", "start", "channel", "area", "segment", "total"}
    BY <1>1 DEF FilesOf, Archives!AhiFiles, Archives!Ahi
  <2>. QED
    BY <1>1, <2>1 DEF IsFileOf
<1>2. CASE source = "fy4b"
  <2>1. DOMAIN f = {"named", "start", "product", "holds"}
    BY <1>2 DEF FilesOf, Archives!AgriFiles, Archives!Agri
  <2>. QED
    BY <1>2, <2>1 DEF IsFileOf
<1>3. CASE source = "gk2a"
  <2>1. DOMAIN f = {"named", "start", "channel", "pixels", "says"}
    BY <1>3 DEF FilesOf, Archives!AmiFiles, Archives!Ami
  <2>. QED
    BY <1>3, <2>1 DEF IsFileOf
<1>4. CASE source = "mtg"
  <2>1. DOMAIN f = {"named", "start", "cycle", "role", "holds"}
    BY <1>4 DEF FilesOf, Archives!FciFiles, Archives!Fci
  <2>. QED
    BY <1>4, <2>1 DEF IsFileOf
<1>. QED
  BY <1>1, <1>2, <1>3, <1>4 DEF Archives!Satellites

LEMMA AlsoUnnamed ==
  ASSUME NEW source \in Archives!Satellites,
         NEW f \in FilesOf(source) \cup {[Archives!One(FilesOf(source)) EXCEPT !.named = FALSE]}
  PROVE  IsFileOf(source, f)
<1>1. FilesOf(source) # {}
  BY DEF FilesOf, Archives!AhiFiles, Archives!AgriFiles, Archives!AmiFiles, Archives!FciFiles
<1>2. CASE f \in FilesOf(source)
  BY <1>2, SatelliteFiles
<1>3. CASE f = [Archives!One(FilesOf(source)) EXCEPT !.named = FALSE]
  <2> DEFINE g == Archives!One(FilesOf(source))
  <2>1. g \in FilesOf(source)
    BY <1>1, OneOf
  <2>2. IsFileOf(source, g)
    BY <2>1, SatelliteFiles
  <2>3. DOMAIN f = DOMAIN g
    BY <1>3
  <2> HIDE DEF g
  <2>. QED
    BY <2>2, <2>3 DEF IsFileOf, Archives!Satellites
<1>. QED
  BY <1>2, <1>3

LEMMA FiniteAhi ==
  IsFiniteSet(FilesOf("himawari9") \cup {[Archives!One(FilesOf("himawari9")) EXCEPT !.named = FALSE]})
<1>1. \A S, x : IsFiniteSet(S) => IsFiniteSet(S \cup {x})
  BY FS_AddElement
<1>2. \A a, b, c, d, e, f, g : IsFiniteSet({a, b, c, d, e, f, g})
  <2> SUFFICES ASSUME NEW a, NEW b, NEW c, NEW d, NEW e, NEW f, NEW g
               PROVE  IsFiniteSet({a, b, c, d, e, f, g})
    OBVIOUS
  <2>1. IsFiniteSet({} \cup {a})
    BY <1>1, FS_EmptySet
  <2>2. IsFiniteSet(({} \cup {a}) \cup {b})
    BY <1>1, <2>1
  <2>3. IsFiniteSet((({} \cup {a}) \cup {b}) \cup {c})
    BY <1>1, <2>2
  <2>4. IsFiniteSet(((({} \cup {a}) \cup {b}) \cup {c}) \cup {d})
    BY <1>1, <2>3
  <2>5. IsFiniteSet((((({} \cup {a}) \cup {b}) \cup {c}) \cup {d}) \cup {e})
    BY <1>1, <2>4
  <2>6. IsFiniteSet(((((({} \cup {a}) \cup {b}) \cup {c}) \cup {d}) \cup {e}) \cup {f})
    BY <1>1, <2>5
  <2>7. IsFiniteSet((((((({} \cup {a}) \cup {b}) \cup {c}) \cup {d}) \cup {e}) \cup {f}) \cup {g})
    BY <1>1, <2>6
  <2>8. {a, b, c, d, e, f, g} = (((((({} \cup {a}) \cup {b}) \cup {c}) \cup {d}) \cup {e}) \cup {f}) \cup {g}
    OBVIOUS
  <2>. QED
    BY <2>7, <2>8
<1>3. IsFiniteSet(FilesOf("himawari9"))
  BY <1>2 DEF FilesOf, Archives!AhiFiles
<1>. QED
  BY <1>1, <1>3

LEMMA MosaicFiles ==
  ASSUME NEW f \in Archives!Mosaics \cup {[m EXCEPT !.named = FALSE] :
                      m \in {Archives!Mosaic(FALSE, TRUE, 10, 3, TRUE), Archives!Mosaic(TRUE, TRUE, 0, 3, TRUE)}}
  PROVE  IsFileOf("cma_radar", f)
<1>1. f.generation \in Int /\ f.longitude = <<0, 2, 4>> /\ f.latitude = <<2, 0>>
  BY DEF Archives!Mosaics, Archives!Mosaic
<1>2. IsCoordinates(<<0, 2, 4>>)
  <2> DEFINE a == <<0, 2, 4>>
  <2>1. a \in [1..3 -> Int] /\ \A i, j \in 1..3 : i <= j => a[i] <= a[j]
    OBVIOUS
  <2> HIDE DEF a
  <2>2. IsCoordinates(a)
    BY <2>1 DEF IsCoordinates
  <2>. QED
    BY <2>2 DEF a
<1>3. IsCoordinates(<<2, 0>>)
  <2> DEFINE a == <<2, 0>>
  <2>1. a \in [1..2 -> Int] /\ \A i, j \in 1..2 : i <= j => a[j] <= a[i]
    OBVIOUS
  <2> HIDE DEF a
  <2>2. IsCoordinates(a)
    BY <2>1 DEF IsCoordinates
  <2>. QED
    BY <2>2 DEF a
<1>. QED
  BY <1>1, <1>2, <1>3 DEF IsFileOf

LEMMA CatalogRows ==
  ASSUME NEW w \in Archives!Windows
  PROVE  IsArchive("sevir", w)
<1>1. \E n \in Nat : DOMAIN w = 1..n /\ \A i \in 1..n : w[i].start \in Int
  <2>1. CASE w = <<>>
    <3>1. DOMAIN w = 1..0 /\ \A i \in 1..0 : w[i].start \in Int
      BY <2>1
    <3>. QED
      BY <3>1
  <2>2. CASE \E n \in 1..3 : w \in [1..n -> [start : {0, 10}, shaped : BOOLEAN]]
    <3>1. PICK n \in 1..3 : w \in [1..n -> [start : {0, 10}, shaped : BOOLEAN]]
      BY <2>2
    <3>2. DOMAIN w = 1..n /\ \A i \in 1..n : w[i] \in [start : {0, 10}, shaped : BOOLEAN]
      BY <3>1
    <3>3. \A i \in 1..n : w[i].start \in Int
      BY <3>2
    <3>4. n \in Nat
      BY <3>1
    <3>. QED
      BY <3>2, <3>3, <3>4
  <2>. QED
    BY <2>1, <2>2 DEF Archives!Windows
<1>. QED
  BY <1>1 DEF IsArchive

LEMMA FinitePair == \A a, b : IsFiniteSet({a, b})
<1> SUFFICES ASSUME NEW a, NEW b PROVE IsFiniteSet({a, b})
  OBVIOUS
<1>1. IsFiniteSet({a} \cup {b})
  BY FS_Singleton, FS_AddElement
<1>2. {a, b} = {a} \cup {b}
  OBVIOUS
<1>. QED
  BY <1>1, <1>2

\* The stores that are declared have a grid and two frames, each one of a few.
LEMMA FiniteStores == IsFiniteSet(Archives!Stores)
<1> DEFINE G == Archives!Turned
           E == {[c \in 1..4 |-> {c}], [c \in 1..4 |-> {}], [c \in 1..4 |-> IF c > 2 THEN {} ELSE {c}]}
           T == {[declared |-> d, grid |-> g, frames |-> f] : d \in {TRUE}, g \in G, f \in [{2, 10} -> E]}
           S == G \X (E \X E)
           TwoFrames(p) == [t \in {2, 10} |-> IF t = 2 THEN p[1] ELSE p[2]]
           Store(g, f) == [declared |-> TRUE, grid |-> g, frames |-> f]
           F == [x \in S |-> Store(x[1], TwoFrames(x[2]))]
<1>1. IsFiniteSet(G)
  BY FinitePair DEF Archives!Turned
<1>2. IsFiniteSet(E)
  <2>1. \A a, b, c : IsFiniteSet({a, b, c})
    <3> SUFFICES ASSUME NEW a, NEW b, NEW c PROVE IsFiniteSet({a, b, c})
      OBVIOUS
    <3>1. IsFiniteSet({a, b} \cup {c})
      BY FinitePair, FS_AddElement
    <3>2. {a, b, c} = {a, b} \cup {c}
      OBVIOUS
    <3>. QED
      BY <3>1, <3>2
  <2>. QED
    BY <2>1
<1>3. Archives!Stores = T \cup {[declared |-> FALSE, grid |-> Archives!One(Archives!Turned),
                                 frames |-> Archives!:>(10, [c \in 1..4 |-> {c}])]}
  BY DEF Archives!Stores
<1> HIDE DEF G, E
<1>4. IsFiniteSet(S)
  BY <1>1, <1>2, FS_Product
<1>5. \A x \in S : x[1] \in G /\ x[2] \in E \X E
  OBVIOUS
<1>6. \A p \in E \X E : TwoFrames(p) \in [{2, 10} -> E]
  OBVIOUS
<1>7. \A f \in [{2, 10} -> E] : <<f[2], f[10]>> \in E \X E /\ TwoFrames(<<f[2], f[10]>>) = f
  OBVIOUS
<1>8. \A x \in S : F[x] = Store(x[1], TwoFrames(x[2]))
  OBVIOUS
<1>9. \A g \in G, p \in E \X E : <<g, p>> \in S /\ <<g, p>>[1] = g /\ <<g, p>>[2] = p
  OBVIOUS
<1>10. T = {Store(g, f) : g \in G, f \in [{2, 10} -> E]}
  OBVIOUS
<1>11. DOMAIN F = S /\ F = [x \in S |-> F[x]]
  OBVIOUS
<1> HIDE DEF T, TwoFrames, Store, S, F
<1>12. F \in [S -> T]
  <2>1. \A x \in S : F[x] \in T
    BY <1>5, <1>6, <1>8, <1>10
  <2>. QED
    BY <1>11, <2>1
<1>13. \A s \in T : \E x \in S : F[x] = s
  <2> SUFFICES ASSUME NEW g \in G, NEW f \in [{2, 10} -> E]
               PROVE  \E x \in S : F[x] = Store(g, f)
    BY <1>10
  <2> DEFINE p == <<f[2], f[10]>>
             x == <<g, p>>
  <2>1. p \in E \X E /\ TwoFrames(p) = f
    BY <1>7
  <2> HIDE DEF p
  <2>2. x \in S /\ x[1] = g /\ x[2] = p
    BY <1>9, <2>1
  <2> HIDE DEF x
  <2>3. F[x] = Store(g, f)
    BY <1>8, <2>1, <2>2
  <2>. QED
    BY <2>2, <2>3
<1>14. IsFiniteSet(T)
  <2>1. F \in Surjection(S, T)
    BY <1>12, <1>13 DEF Surjection
  <2>. QED
    BY <1>4, <2>1, FS_Surjection
<1>. QED
  BY <1>3, <1>14, FS_AddElement

\* What is asked, and of what.
IsCase(i) ==
  /\ IsLoadRequest(i.r) /\ IsArchive(i.r.source, i.archive)
  /\ \A f \in i.arrivals : IsFileOf(i.r.source, f)

LEMMA CaseOf ==
  ASSUME NEW r, IsLoadRequest(r), NEW archive, IsArchive(r.source, archive),
         NEW arrivals, \A f \in arrivals : IsFileOf(r.source, f)
  PROVE  IsCase(Archives!Case(r, archive, arrivals))
BY DEF IsCase, Archives!Case

LEMMA OneOrTwo ==
  ASSUME NEW C, NEW a \in C, NEW b \in C
  PROVE  <<a>> \in Seq(C) /\ <<a, b>> \in Seq(C)
OBVIOUS

\* What MC_Adapters loads, source by source.
SatelliteAsk(source, t, n, l) == [Archives!Asked(source) EXCEPT !.initial = t, !.steps = n, !.channels = l]
RadarAsk(n, b, l) == [Archives!Asked("cma_radar") EXCEPT !.steps = n, !.bbox = b, !.channels = l]
StoreAsk(n, i, b) == [Archives!Asked("mlcast") EXCEPT !.steps = n, !.interval = i, !.bbox = b]
PlaceAsk(d, root) ==
  [Archives!Asked("fy4b") EXCEPT !.dir = d, !.root = root, !.channels = <<Archives!Channel(1)>>]
AllFiles(source) == FilesOf(source) \cup {[Archives!One(FilesOf(source)) EXCEPT !.named = FALSE]}
AllMosaics ==
  Archives!Mosaics \cup {[m EXCEPT !.named = FALSE] :
    m \in {Archives!Mosaic(FALSE, TRUE, 10, 3, TRUE), Archives!Mosaic(TRUE, TRUE, 0, 3, TRUE)}}
OfStore(n, c, b, s) == Archives!Case(StoreAsk(n, c, b), {s}, {})
OfStores ==
  {OfStore(n, c, b, s) :
     n \in {1, 2}, c \in {3, 4}, b \in Archives!Boxes, s \in Archives!Stores}
OfNotOne ==
  {Archives!Case(Archives!Asked("mlcast"), s, {}) :
     s \in {t \in SUBSET Archives!Stores : Archives!Cardinality(t) \in {0, 2}}}
Places == {"empty", "foreign absolute", "absolute", "inside", "has a parent step", "leaves by a link"}
Twice == {<<Archives!Declared>>, <<Archives!Declared, Archives!Declared>>}

LEMMA SatelliteLoads ==
  ASSUME NEW source \in Archives!Satellites
  PROVE  Archives!Loads(source)
           = {Archives!Case(r, a, AllFiles(source)) :
                r \in Archives!SatelliteRequests(source), a \in SUBSET AllFiles(source)}
<1> DEFINE WithOne(files) == files \cup {[Archives!One(files) EXCEPT !.named = FALSE]}
           From(all) == {Archives!Case(r, a, all) : r \in Archives!SatelliteRequests(source), a \in SUBSET all}
<1>1. source \in Archives!Satellites
  OBVIOUS
<1>2. CASE source = "himawari9"
  <2>1. Archives!Loads(source) = From(WithOne(Archives!AhiFiles))
    BY <1>1, <1>2 DEF Archives!Loads
  <2>2. FilesOf(source) = Archives!AhiFiles
    BY <1>2 DEF FilesOf
  <2>. QED
    BY <2>1, <2>2 DEF AllFiles
<1>3. CASE source = "fy4b"
  <2>1. Archives!Loads(source) = From(WithOne(Archives!AgriFiles))
    BY <1>1, <1>3 DEF Archives!Loads
  <2>2. FilesOf(source) = Archives!AgriFiles
    BY <1>3 DEF FilesOf
  <2>. QED
    BY <2>1, <2>2 DEF AllFiles
<1>4. CASE source = "gk2a"
  <2>1. Archives!Loads(source) = From(WithOne(Archives!AmiFiles))
    BY <1>1, <1>4 DEF Archives!Loads
  <2>2. FilesOf(source) = Archives!AmiFiles
    BY <1>4 DEF FilesOf
  <2>. QED
    BY <2>1, <2>2 DEF AllFiles
<1>5. CASE source = "mtg"
  <2>1. Archives!Loads(source) = From(WithOne(Archives!FciFiles))
    BY <1>1, <1>5 DEF Archives!Loads
  <2>2. FilesOf(source) = Archives!FciFiles
    BY <1>5 DEF FilesOf
  <2>. QED
    BY <2>1, <2>2 DEF AllFiles
<1>. QED
  BY <1>2, <1>3, <1>4, <1>5 DEF Archives!Satellites

LEMMA SatellitesAsk ==
  ASSUME NEW source
  PROVE  Archives!SatelliteRequests(source)
           = {SatelliteAsk(source, t, n, l) : t \in {10, 11}, n \in {1, 2}, l \in Archives!Lists}
BY DEF Archives!SatelliteRequests, SatelliteAsk

LEMMA RadarLoads ==
  Archives!Loads("cma_radar")
    = {Archives!Case(RadarAsk(n, b, l), a, Archives!Mosaics) :
         n \in {1, 2}, b \in Archives!Boxes, l \in Twice,
         a \in {s \in SUBSET AllMosaics : Archives!Cardinality(s) < 5}}
<1>1. "cma_radar" \notin Archives!Satellites
  BY DEF Archives!Satellites
<1>. QED
  BY <1>1 DEF Archives!Loads, RadarAsk, AllMosaics, Twice

LEMMA StoreLoads == Archives!Loads("mlcast") = OfStores \cup OfNotOne
<1>1. "mlcast" \notin Archives!Satellites
  BY DEF Archives!Satellites
<1>. QED
  BY <1>1 DEF Archives!Loads, StoreAsk, OfStore, OfStores, OfNotOne

LEMMA PlaceLoads ==
  Archives!Loads("anywhere")
    = {Archives!Case(PlaceAsk(d, root), Archives!AgriFiles, {}) :
         d \in Places, root \in BOOLEAN}
<1>1. "anywhere" \notin Archives!Satellites
  BY DEF Archives!Satellites
<1>. QED
  BY <1>1 DEF Archives!Loads, PlaceAsk, Places

LEMMA SatelliteAsked ==
  ASSUME NEW source \in Archives!Satellites, NEW t \in {10, 11}, NEW n \in {1, 2}, NEW l \in Archives!Lists
  PROVE  LET r == SatelliteAsk(source, t, n, l) IN IsLoadRequest(r) /\ r.source = source
<1> DEFINE r0 == Archives!Asked(source)
           r1 == [r0 EXCEPT !.initial = t]
           r2 == [r1 EXCEPT !.steps = n]
           r3 == [r2 EXCEPT !.channels = l]
<1>1. IsLoadRequest(r0) /\ r0.source = source
  BY AskedIsRequest DEF Archives!Sources
<1>2. t \in Int /\ n \in Int
  OBVIOUS
<1>3. PICK C : l \in Seq(C)
  <2>1. (\E c : l = <<c>>) \/ (\E c, e : l = <<c, e>>)
    BY DEF Archives!Lists
  <2>2. CASE \E c : l = <<c>>
    <3>1. PICK c : l = <<c>>
      BY <2>2
    <3>2. l \in Seq({c})
      BY <3>1, OneOrTwo
    <3>. QED
      BY <3>2
  <2>3. CASE \E c, e : l = <<c, e>>
    <3>1. PICK c, e : l = <<c, e>>
      BY <2>3
    <3>2. l \in Seq({c, e})
      BY <3>1, OneOrTwo
    <3>. QED
      BY <3>2
  <2>. QED
    BY <2>1, <2>2, <2>3
<1>4. SatelliteAsk(source, t, n, l) = r3
  BY DEF SatelliteAsk
<1> HIDE DEF r0
<1>5. IsLoadRequest(r1) /\ r1.source = source
  BY <1>1, <1>2, InitialGiven
<1> HIDE DEF r1
<1>6. IsLoadRequest(r2) /\ r2.source = source
  BY <1>2, <1>5, StepsGiven
<1> HIDE DEF r2
<1>7. IsLoadRequest(r3) /\ r3.source = source
  BY <1>3, <1>6, ChannelsGiven
<1>. QED
  BY <1>4, <1>7

LEMMA BoxesHaveEdges ==
  ASSUME NEW b \in Archives!Boxes
  PROVE  \A e \in {"west", "south", "east", "north"} : b[e] \in Int
BY DEF Archives!Boxes, Archives!Box, Archives!World

LEMMA RadarAsked ==
  ASSUME NEW n \in {1, 2}, NEW b \in Archives!Boxes, NEW l \in Twice
  PROVE  LET r == RadarAsk(n, b, l) IN IsLoadRequest(r) /\ r.source = "cma_radar"
<1> DEFINE r0 == Archives!Asked("cma_radar")
           r1 == [r0 EXCEPT !.steps = n]
           r2 == [r1 EXCEPT !.bbox = b]
           r3 == [r2 EXCEPT !.channels = l]
<1>1. IsLoadRequest(r0) /\ r0.source = "cma_radar"
  BY AskedIsRequest DEF Archives!Sources
<1>2. n \in Int
  OBVIOUS
<1>3. l \in Seq({Archives!Declared})
  BY OneOrTwo DEF Twice
<1>4. RadarAsk(n, b, l) = r3
  BY DEF RadarAsk
<1> HIDE DEF r0
<1>5. IsLoadRequest(r1) /\ r1.source = "cma_radar"
  BY <1>1, <1>2, StepsGiven
<1> HIDE DEF r1
<1>6. IsLoadRequest(r2) /\ r2.source = "cma_radar"
  BY <1>5, BoxesHaveEdges, BoxGiven
<1> HIDE DEF r2
<1>7. IsLoadRequest(r3) /\ r3.source = "cma_radar"
  BY <1>3, <1>6, ChannelsGiven
<1>. QED
  BY <1>4, <1>7

LEMMA StoreAsked ==
  ASSUME NEW n \in {1, 2}, NEW i \in {3, 4}, NEW b \in Archives!Boxes
  PROVE  LET r == StoreAsk(n, i, b) IN IsLoadRequest(r) /\ r.source = "mlcast"
<1> DEFINE r0 == Archives!Asked("mlcast")
           r1 == [r0 EXCEPT !.steps = n]
           r2 == [r1 EXCEPT !.interval = i]
           r3 == [r2 EXCEPT !.bbox = b]
<1>1. IsLoadRequest(r0) /\ r0.source = "mlcast"
  BY AskedIsRequest DEF Archives!Sources
<1>2. n \in Int /\ i \in Int
  OBVIOUS
<1>3. StoreAsk(n, i, b) = r3
  BY DEF StoreAsk
<1> HIDE DEF r0
<1>4. IsLoadRequest(r1) /\ r1.source = "mlcast"
  BY <1>1, <1>2, StepsGiven
<1> HIDE DEF r1
<1>5. IsLoadRequest(r2) /\ r2.source = "mlcast"
  BY <1>2, <1>4, IntervalGiven
<1> HIDE DEF r2
<1>6. IsLoadRequest(r3) /\ r3.source = "mlcast"
  BY <1>5, BoxesHaveEdges, BoxGiven
<1>. QED
  BY <1>3, <1>6

LEMMA PlaceAsked ==
  ASSUME NEW d, NEW root
  PROVE  LET r == PlaceAsk(d, root) IN IsLoadRequest(r) /\ r.source = "fy4b"
<1> DEFINE r0 == Archives!Asked("fy4b")
           r1 == [r0 EXCEPT !.dir = d, !.root = root]
           l == <<Archives!Channel(1)>>
           r2 == [r1 EXCEPT !.channels = l]
<1>1. IsLoadRequest(r0) /\ r0.source = "fy4b"
  BY AskedIsRequest DEF Archives!Sources, Archives!Satellites
<1>2. l \in Seq({Archives!Channel(1)})
  BY OneOrTwo
<1>3. PlaceAsk(d, root) = r2
  BY DEF PlaceAsk
<1> HIDE DEF r0, l
<1>4. IsLoadRequest(r1) /\ r1.source = "fy4b"
  BY <1>1, PlaceGiven
<1> HIDE DEF r1
<1>5. IsLoadRequest(r2) /\ r2.source = "fy4b"
  BY <1>2, <1>4, ChannelsGiven
<1>. QED
  BY <1>3, <1>5

\* All that is loaded is a request of an archive of files.
LEMMA SatelliteCases ==
  ASSUME NEW source \in Archives!Satellites, NEW i \in Archives!Loads(source)
  PROVE  IsCase(i)
<1>1. PICK r \in Archives!SatelliteRequests(source), a \in SUBSET AllFiles(source) :
        i = Archives!Case(r, a, AllFiles(source))
  BY SatelliteLoads
<1>2. IsLoadRequest(r) /\ r.source = source
  BY SatellitesAsk, SatelliteAsked
<1>3. \A f \in AllFiles(source) : IsFileOf(source, f)
  BY AlsoUnnamed DEF AllFiles
<1>4. source = "himawari9" => IsFiniteSet(a)
  BY FiniteAhi, FS_Subset DEF AllFiles
<1>5. source # "sevir" /\ source # "mlcast"
  BY DEF Archives!Satellites
<1>6. IsArchive(source, a)
  BY <1>3, <1>4, <1>5 DEF IsArchive
<1>. QED
  BY <1>1, <1>2, <1>3, <1>6, CaseOf

LEMMA RadarCases ==
  ASSUME NEW i \in Archives!Loads("cma_radar")
  PROVE  IsCase(i)
<1>1. PICK n \in {1, 2}, b \in Archives!Boxes, l \in Twice,
           a \in {s \in SUBSET AllMosaics : Archives!Cardinality(s) < 5} :
        i = Archives!Case(RadarAsk(n, b, l), a, Archives!Mosaics)
  BY RadarLoads
<1>2. IsLoadRequest(RadarAsk(n, b, l)) /\ RadarAsk(n, b, l).source = "cma_radar"
  BY RadarAsked
<1>3. \A f \in AllMosaics : IsFileOf("cma_radar", f)
  BY MosaicFiles DEF AllMosaics
<1>4. a \subseteq AllMosaics /\ Archives!Mosaics \subseteq AllMosaics
  BY DEF AllMosaics
<1>5. IsArchive("cma_radar", a)
  BY <1>3, <1>4 DEF IsArchive
<1>. QED
  BY <1>1, <1>2, <1>3, <1>4, <1>5, CaseOf

LEMMA SevirCases ==
  ASSUME NEW i \in Archives!Loads("sevir")
  PROVE  IsCase(i)
<1> DEFINE r0 == Archives!Asked("sevir")
<1>1. PICK n \in {1, 3}, c \in {5, 10}, w \in Archives!Windows :
        i = Archives!Case([r0 EXCEPT !.steps = n, !.interval = c], w, {})
  BY DEF Archives!Loads, Archives!Satellites
<1> DEFINE r1 == [r0 EXCEPT !.steps = n]
           r == [r1 EXCEPT !.interval = c]
<1>2. IsLoadRequest(r0) /\ r0.source = "sevir"
  BY AskedIsRequest DEF Archives!Sources
<1>3. i = Archives!Case(r, w, {})
  BY <1>1
<1> HIDE DEF r0
<1>4. n \in Int /\ c \in Int
  OBVIOUS
<1>5. IsLoadRequest(r1) /\ r1.source = "sevir"
  BY <1>2, <1>4, StepsGiven
<1> HIDE DEF r1
<1>6. IsLoadRequest(r) /\ r.source = "sevir"
  BY <1>4, <1>5, IntervalGiven
<1> HIDE DEF r
<1>7. IsArchive("sevir", w)
  BY CatalogRows
<1>. QED
  BY <1>3, <1>6, <1>7, CaseOf

LEMMA StoreCases ==
  ASSUME NEW i \in Archives!Loads("mlcast")
  PROVE  IsCase(i)
<1>1. \A a : IsFiniteSet(a) => IsArchive("mlcast", a)
  BY DEF IsArchive, IsFileOf
<1>2. CASE \E n \in {1, 2}, c \in {3, 4}, b \in Archives!Boxes, s \in Archives!Stores :
             i = OfStore(n, c, b, s)
  <2>1. PICK n \in {1, 2}, c \in {3, 4}, b \in Archives!Boxes, s \in Archives!Stores :
             i = OfStore(n, c, b, s)
    BY <1>2
  <2>2. IsLoadRequest(StoreAsk(n, c, b)) /\ StoreAsk(n, c, b).source = "mlcast"
    BY StoreAsked
  <2>3. IsArchive("mlcast", {s})
    BY <1>1, FS_Singleton
  <2>. QED
    BY <2>1, <2>2, <2>3, CaseOf DEF OfStore
<1>3. CASE \E a \in SUBSET Archives!Stores : i = Archives!Case(Archives!Asked("mlcast"), a, {})
  <2>1. PICK a \in SUBSET Archives!Stores : i = Archives!Case(Archives!Asked("mlcast"), a, {})
    BY <1>3
  <2>2. IsArchive("mlcast", a)
    BY <1>1, FiniteStores, FS_Subset
  <2>3. IsLoadRequest(Archives!Asked("mlcast")) /\ Archives!Asked("mlcast").source = "mlcast"
    BY AskedIsRequest DEF Archives!Sources
  <2>. QED
    BY <2>1, <2>2, <2>3, CaseOf
<1>. QED
  <2>1. i \in OfStores \/ i \in OfNotOne
    BY StoreLoads
  <2>2. CASE i \in OfStores
    <3>1. \E n \in {1, 2}, c \in {3, 4}, b \in Archives!Boxes, s \in Archives!Stores :
             i = OfStore(n, c, b, s)
      BY <2>2 DEF OfStores
    <3>. QED
      BY <1>2, <3>1
  <2>3. CASE i \in OfNotOne
    <3>1. \E a \in SUBSET Archives!Stores : i = Archives!Case(Archives!Asked("mlcast"), a, {})
      BY <2>3 DEF OfNotOne
    <3>. QED
      BY <1>3, <3>1
  <2>. QED
    BY <2>1, <2>2, <2>3

LEMMA PlaceCases ==
  ASSUME NEW i \in Archives!Loads("anywhere")
  PROVE  IsCase(i)
<1>1. PICK d \in Places, root \in BOOLEAN :
        i = Archives!Case(PlaceAsk(d, root), Archives!AgriFiles, {})
  BY PlaceLoads
<1>2. IsLoadRequest(PlaceAsk(d, root)) /\ PlaceAsk(d, root).source = "fy4b"
  BY PlaceAsked
<1>3. \A f \in Archives!AgriFiles : IsFileOf("fy4b", f)
  BY SatelliteFiles DEF FilesOf, Archives!Satellites
<1>4. IsArchive("fy4b", Archives!AgriFiles)
  BY <1>3 DEF IsArchive
<1>. QED
  BY <1>1, <1>2, <1>4, CaseOf

\* In every run a load reads the files of its own times, channels and generation,
\* and a late file changes no other time (the adapters under adapters/).
THEOREM RunLoadFits == MC_Spec => []LoadFits
<1>1. \A source \in Archives!Sources \cup {"anywhere"} : \A i \in Archives!Loads(source) : IsCase(i)
  BY SatelliteCases, RadarCases, SevirCases, StoreCases, PlaceCases DEF Archives!Sources
<1>2. InputInv => LoadFits
  <2> SUFFICES ASSUME InputInv, Picked("load")
               PROVE  /\ Archives!LoadsTheRequest(given.r, given.archive, Archives!DayTicks)
                      /\ Archives!WindowIsIts(given.r, given.archive)
                      /\ \A f \in given.arrivals :
                           Archives!ArrivalsKeep(given.r, given.archive, f, Archives!DayTicks)
    BY DEF LoadFits
  <2>1. given \in UNION {Archives!Loads(source) : source \in Archives!Sources \cup {"anywhere"}}
    BY DEF InputInv, PickedFrom, given
  <2>2. IsCase(given)
    BY <1>1, <2>1
  <2>. QED
    BY <2>2, LoadsTheRequestHolds, WindowIsItsHolds, ArrivalsKeepHolds DEF IsCase
<1>. QED
  BY <1>2, InputInvHolds, PTL
==============================================================================

------------------------- MODULE StoredRun_proofs --------------------------
(***************************************************************************)
(* The directory of a run, for any number of models, windows and requests: *)
(* what a manifest registers is there, each report is exact, and nothing   *)
(* on record is lost.                                                      *)
(***************************************************************************)
EXTENDS StoredRun, FiniteSetTheorems, WellFoundedInduction, TLAPS

-----------------------------------------------------------------------------
(***************************************************************************)
(* The inductive invariant.                                                *)
(***************************************************************************)
Job == [kind : {"verification", "visualization"}, model : SUBSET Model, window : Dir]

StageBox == [what : {"ingest", "model"}, step : {"read", "opened", "filled"}, dir : Dir,
             name : Input \cup Model, held : SUBSET Manifest]
RequestBox == [what : {"diagnose"}, step : {"read", "job", "made", "written"}, op : 1..MaxOps,
               held : SUBSET Manifest, jobs : Seq(Job), results : Seq(Record)]

OneAtMost(S) == \A x, y \in S : x = y

\* One container at a time, of one of two sorts.
BoxTypeOK ==
  /\ box \subseteq StageBox \cup RequestBox /\ OneAtMost(box)
  /\ \A b \in box : OneAtMost(b.held)

RunTyped == StoredRunTypeOK /\ BoxTypeOK /\ Len(ops) <= MaxOps

\* The containers still to run: an ingestion finds an empty directory.
StagesInv ==
  /\ \A k \in DOMAIN stages :
       /\ stages[k].dir \in Windows
       /\ stages[k].name = "context" => manifest[stages[k].dir] = {}
  /\ \A j, k \in DOMAIN stages :
       stages[j].name = "context" /\ stages[k].name = "context" /\ stages[j].dir = stages[k].dir
         => j = k
  /\ \A i \in DOMAIN fit : fit[i] \in Windows /\ manifest[fit[i]] # {}
  /\ \A i, j \in DOMAIN fit : fit[i] = fit[j] => i = j
  /\ batch /\ manifest[Root] # {} => stages = <<>>

Whole(d, n) == files[<<d, n>>] = "whole"

\* What a container of a stage has done already.
StageBoxInv ==
  \A b \in box \cap StageBox :
    /\ stages # <<>> /\ b.dir = stages[1].dir
    /\ b.what = "ingest" =>
         /\ stages[1].name = "context" /\ b.name \in Input
         /\ b.step = "filled" => b.name = "target"
         /\ b.name = "target" => Whole(b.dir, "context")
    /\ b.what = "model" =>
         /\ b.name \in Model /\ b.held = manifest[b.dir]
         /\ b.step # "read" => b.held # {}
    /\ b.step = "filled" => Whole(b.dir, b.name)

ArraysWhole ==
  \A d \in Windows : \A m \in manifest[d] : \A n \in m.inputs \cup m.forecasts : Whole(d, n)

\* Every record names the request that made it, and a product that is good is
\* there.
RecordOK(r) ==
  /\ r.id[1] \in 1..Len(ops)
  /\ IF r.kind = "report" THEN r.id[2] = 0 /\ r.op = {r.id[1]}
     ELSE /\ r.id[2] # 0 /\ r.op \subseteq {r.id[1]}
          /\ r.id \in Attempt
          /\ r.status \in Good => made[r.id] = "whole"

Mine(s, op) == {k \in DOMAIN s : s[k].kind # "report" /\ s[k].op = op}

ExactAt(s, i) ==
  s[i].kind = "report" =>
    /\ s[i].ids = {s[k].id : k \in Mine(s, s[i].op)}
    /\ Cardinality(Mine(s, s[i].op)) = Len(Jobs(ops[s[i].id[1]]))
    /\ s[i].status = "succeeded" <=> \A k \in Mine(s, s[i].op) : s[k].status = "succeeded"

RecordsOK(s) ==
  /\ \A i \in DOMAIN s : RecordOK(s[i]) /\ ExactAt(s, i)
  /\ \A i, j \in DOMAIN s : s[i].kind # "report" /\ s[j].kind # "report" /\ s[i].id = s[j].id => i = j

RecordsInv == \A m \in manifest[Root] : RecordsOK(m.diagnostics)

\* The results of a request so far.
ResultsInv(b) ==
  /\ b.op = Len(ops) /\ stages = <<>> /\ manifest[Root] # {}
  /\ IF b.step = "read" THEN b.results = <<>>
     ELSE b.jobs = Jobs(ops[b.op]) /\ Len(b.results) <= Len(b.jobs)
  /\ b.step \in {"made", "written"} => Len(b.results) < Len(b.jobs)
  /\ b.step = "written" => made[<<b.op, Len(b.results) + 1>>] = "whole"
  /\ \A k \in DOMAIN b.results :
       LET r == b.results[k]
       IN /\ r.id = <<b.op, k>> /\ r.kind # "report" /\ r.op = {} /\ r.id \in Attempt
          /\ r.status \in Good => made[r.id] = "whole"

\* Of this request there is on record what is among its results; a run that is
\* no batch has all of them.
OnRecord(b, s) ==
  /\ \A i \in DOMAIN s : s[i].id[1] = b.op =>
       s[i].id[2] \in DOMAIN b.results /\ s[i] = b.results[s[i].id[2]]
  /\ ~batch => \A k \in DOMAIN b.results : \E i \in DOMAIN s : s[i] = b.results[k]

\* A batch's request works on the manifest it read first.
Extends(m, h) ==
  /\ h.inputs = m.inputs /\ h.forecasts = m.forecasts
  /\ Len(m.diagnostics) <= Len(h.diagnostics)
  /\ \A i \in DOMAIN m.diagnostics : h.diagnostics[i] = m.diagnostics[i]

RequestInv ==
  \A b \in box \cap RequestBox :
    /\ ResultsInv(b)
    /\ batch => /\ b.held # {}
                /\ \A h \in b.held : /\ RecordsOK(h.diagnostics) /\ OnRecord(b, h.diagnostics)
                                     /\ \A m \in manifest[Root] : Extends(m, h)
    /\ ~batch => \A m \in manifest[Root] : OnRecord(b, m.diagnostics)

RunInv ==
  RunTyped /\ StagesInv /\ StageBoxInv /\ ArraysWhole /\ RecordsInv /\ RequestInv
-----------------------------------------------------------------------------
(***************************************************************************)
(* Sequences, places and sets.                                             *)
(***************************************************************************)
LEMMA Listed ==
  ASSUME NEW S, NEW n \in Nat, NEW f \in [1..n -> S]
  PROVE  f \in Seq(S) /\ Len(f) = n
OBVIOUS

LEMMA Concatenated ==
  ASSUME NEW S, NEW s \in Seq(S), NEW t \in Seq(S)
  PROVE  /\ s \o t \in Seq(S) /\ Len(s \o t) = Len(s) + Len(t)
         /\ \A k \in 1..Len(s \o t) :
              (s \o t)[k] = IF k <= Len(s) THEN s[k] ELSE t[k - Len(s)]
OBVIOUS

\* A non-empty set of places has a last one.
LEMMA LastPlace ==
  ASSUME NEW n \in Nat, NEW I \in SUBSET (1..n), I # {}
  PROVE  Max(I) \in I /\ \A i \in I : i <= Max(I)
<1> DEFINE T == {n - i : i \in I}
<1>0. PICK e \in I : TRUE
  OBVIOUS
<1>1. T \subseteq Nat /\ n - e \in T
  OBVIOUS
<1>2. PICK x \in T : \A y \in T : ~(<<y, x>> \in OpToRel(<, Nat))
  BY <1>1, NatLessThanWellFounded, WFMin, Zenon
<1>3. \A y \in T : ~(y < x)
  BY <1>1, <1>2 DEF OpToRel
<1>4. PICK i \in I : x = n - i
  OBVIOUS
<1>5. ASSUME NEW j \in I
      PROVE  i >= j
  <2>1. n - j \in T
    OBVIOUS
  <2>2. ~(n - j < n - i)
    BY <1>3, <1>4, <2>1
  <2>. QED
    BY <2>2
<1>6. \E k \in I : \A j \in I : k >= j
  BY <1>5
<1>7. Max(I) \in I /\ \A j \in I : Max(I) >= j
  BY <1>6 DEF Max
<1>. QED
  BY <1>7

\* SetToSeq lists a finite set.
LEMMA ListOfSet ==
  ASSUME NEW S, IsFiniteSet(S)
  PROVE  SetToSeq(S) \in Seq(S) /\ Len(SetToSeq(S)) = Cardinality(S) /\ Cardinality(S) \in Nat
<1>1. Cardinality(S) \in Nat /\ ExistsBijection(1..Cardinality(S), S)
  BY FS_CardinalityType
<1>2. \E f \in [1..Cardinality(S) -> S] : IsInjective(f)
  BY <1>1 DEF ExistsBijection, Bijection, Injection, IsInjective
<1>3. SetToSeq(S) \in [1..Cardinality(S) -> S]
  BY <1>2 DEF SetToSeq
<1>. QED
  BY <1>1, <1>3

\* A sequence that repeats nothing is no longer than the set it is taken from.
LEMMA NoRepeats ==
  ASSUME NEW S, IsFiniteSet(S), NEW s \in Seq(S), \A i, j \in DOMAIN s : s[i] = s[j] => i = j
  PROVE  Len(s) <= Cardinality(S)
<1>1. s \in [1..Len(s) -> S] /\ DOMAIN s = 1..Len(s) /\ Len(s) \in Nat
  OBVIOUS
<1>2. s \in Injection(1..Len(s), S)
  BY <1>1 DEF Injection, IsInjective
<1>3. Cardinality(1..Len(s)) <= Cardinality(S)
  BY <1>2, FS_Injection
<1>4. Cardinality(1..Len(s)) = IF 1 > Len(s) THEN 0 ELSE Len(s) - 1 + 1
  BY <1>1, FS_Interval
<1>. QED
  BY <1>1, <1>3, <1>4

\* Each of a set of places is its k-th for one k.
LEMMA PlaceInOrder ==
  ASSUME NEW n \in Nat, NEW P \in SUBSET (1..n)
  PROVE  /\ Cardinality(P) \in Nat
         /\ \A k \in 1..Cardinality(P) : Place(P, k) \in P
         /\ \A k, l \in 1..Cardinality(P) : Place(P, k) = Place(P, l) => k = l
         /\ \A i \in P : \E k \in 1..Cardinality(P) : Place(P, k) = i
<1> DEFINE Upto(i) == {j \in P : j <= i}
           rank == [i \in P |-> Cardinality(Upto(i))]
<1>0. IsFiniteSet(1..n)
  BY FS_Interval
<1>1. IsFiniteSet(P) /\ Cardinality(P) \in Nat
  BY <1>0, FS_Subset, FS_CardinalityType
<1>2. ASSUME NEW i \in P
      PROVE  rank[i] \in 1..Cardinality(P)
  <2>1. IsFiniteSet(Upto(i)) /\ Cardinality(Upto(i)) <= Cardinality(P) /\ Cardinality(Upto(i)) \in Nat
    BY <1>1, FS_Subset, FS_CardinalityType
  <2>2. Upto(i) # {}
    OBVIOUS
  <2>3. Cardinality(Upto(i)) # 0
    BY <2>1, <2>2, FS_EmptySet
  <2>. QED
    BY <1>1, <2>1, <2>3
<1>3. ASSUME NEW i \in P, NEW j \in P, rank[i] = rank[j], i < j
      PROVE  FALSE
  <2>0. Upto(j) \in SUBSET P
    OBVIOUS
  <2>1. IsFiniteSet(Upto(j))
    BY <1>1, <2>0, FS_Subset, Zenon
  <2>2. Upto(i) \in SUBSET Upto(j)
    <3>1. \A k \in P : k <= i => k <= j
      BY <1>3
    <3>. QED
      BY <3>1
  <2>3. j \in Upto(j) /\ j \notin Upto(i)
    BY <1>3
  <2>4. Cardinality(Upto(i)) = Cardinality(Upto(j))
    BY <1>3
  <2>. HIDE DEF Upto
  <2>5. Upto(i) = Upto(j)
    BY <2>1, <2>2, <2>4, FS_Subset
  <2>. QED
    BY <2>3, <2>5
<1>4. rank \in Injection(P, 1..Cardinality(P))
  <2>1. ASSUME NEW i \in P, NEW j \in P, rank[i] = rank[j]
        PROVE  i = j
    <3>1. ~(i < j) /\ ~(j < i)
      BY <2>1, <1>3
    <3>. QED
      BY <3>1
  <2>2. rank \in [P -> 1..Cardinality(P)]
    BY <1>2
  <2>. HIDE DEF rank
  <2>. QED
    BY <2>1, <2>2 DEF Injection, IsInjective
<1>5. rank \in Surjection(P, 1..Cardinality(P))
  <2>1. Cardinality(1..Cardinality(P)) = Cardinality(P)
    BY <1>1, FS_Interval
  <2>. QED
    BY <1>1, <1>4, <2>1, FS_Injection, FS_Interval
<1>6. ASSUME NEW k \in 1..Cardinality(P)
      PROVE  Place(P, k) \in P /\ rank[Place(P, k)] = k
  <2>1. \E i \in P : rank[i] = k
    BY <1>5 DEF Surjection
  <2>2. \E i \in P : Cardinality({j \in P : j <= i}) = k
    BY <2>1
  <2>. QED
    BY <2>2 DEF Place
<1>7. ASSUME NEW i \in P
      PROVE  Place(P, rank[i]) = i
  <2>1. Place(P, rank[i]) \in P /\ rank[Place(P, rank[i])] = rank[i]
    BY <1>2, <1>6
  <2>2. rank[i] = rank[Place(P, rank[i])]
    BY <2>1
  <2>. HIDE DEF rank
  <2>. QED
    BY <1>4, <2>1, <2>2 DEF Injection, IsInjective
<1>. QED
  BY <1>1, <1>2, <1>6, <1>7

\* Division with rest.
LEMMA Divided ==
  ASSUME NEW a \in Nat, NEW l \in Nat, l > 0
  PROVE  a % l \in 0..(l - 1) /\ a \div l \in Nat /\ a = l * (a \div l) + (a % l)
<1>1. a % l \in Int /\ a \div l \in Int
  OBVIOUS
<1>2. a % l < l
  OBVIOUS
<1>3. a % l >= 0
  OBVIOUS
<1>4. a \div l >= 0
  OBVIOUS
<1>5. a = l * (a \div l) + (a % l)
  OBVIOUS
<1>. QED
  BY <1>1, <1>2, <1>3, <1>4, <1>5

\* The places of a table of d rows of l fields, written row by row.
LEMMA InTable ==
  ASSUME NEW d \in Nat, NEW l \in Nat, NEW k \in 1..(d * l)
  PROVE  ((k - 1) % l) + 1 \in 1..l /\ ((k - 1) \div l) + 1 \in 1..d
<1> DEFINE q == (k - 1) \div l
           r == (k - 1) % l
<1>1. l > 0 /\ k - 1 \in Nat
  OBVIOUS
<1>2. r \in 0..(l - 1) /\ q \in Nat /\ k - 1 = l * q + r
  BY <1>1, Divided
<1>. HIDE DEF q, r
<1>3. q < d
  <2>1. ASSUME q >= d
        PROVE  FALSE
    <3>1. l * q >= l * d
      BY <1>2, <2>1
    <3>. QED
      BY <1>2, <3>1
  <2>. QED
    BY <1>2, <2>1
<1>. QED
  BY <1>2, <1>3 DEF q, r

LEMMA ProductGrows ==
  ASSUME NEW a \in Nat, NEW b \in Nat, NEW c \in Nat, NEW d \in Nat, a <= c, b <= d
  PROVE  a * b <= c * d
<1>1. a * b <= c * b
  OBVIOUS
<1>2. c * b <= c * d
  OBVIOUS
<1>. QED
  BY <1>1, <1>2
-----------------------------------------------------------------------------
(***************************************************************************)
(* The one container, the manifest of a directory, the plan of a request.  *)
(***************************************************************************)
LEMMA TheBox ==
  ASSUME RunTyped, NEW b \in box
  PROVE  box = {b} /\ Box = b /\ b \in StageBox \cup RequestBox
BY DEF RunTyped, BoxTypeOK, OneAtMost, Box

\* Which sort it is follows from what it does.
LEMMA BoxSort ==
  ASSUME RunTyped, NEW b \in box
  PROVE  /\ b.what = "diagnose" => b \in RequestBox
         /\ b.what # "diagnose" => b \in StageBox
         /\ b \in RequestBox => b.what = "diagnose"
         /\ b \in StageBox => b.what \in {"ingest", "model"}
BY DEF RunTyped, BoxTypeOK, StageBox, RequestBox

LEMMA TheManifest ==
  ASSUME RunTyped, NEW d \in Dir, manifest[d] # {}
  PROVE  manifest[d] = {ManifestOf(d)} /\ ManifestOf(d) \in Manifest
BY DEF RunTyped, StoredRunTypeOK, ManifestOf

LEMMA TheHeld ==
  ASSUME RunTyped, NEW b \in box, b.held # {}
  PROVE  /\ b.held = {CHOOSE m \in b.held : TRUE}
         /\ (CHOOSE m \in b.held : TRUE) \in Manifest
<1>1. b.held \subseteq Manifest /\ OneAtMost(b.held)
  BY DEF RunTyped, BoxTypeOK, StageBox, RequestBox
<1>. QED
  BY <1>1 DEF OneAtMost

LEMMA WindowsAreDirs == Windows \subseteq Dir /\ Root \in Dir /\ (batch => Root \notin Windows)
BY StoredRunAssumption DEF Windows, Dir, Root

\* The windows of a request are directories with a manifest, as many as the
\* bound allows.
LEMMA DrawnWindows ==
  ASSUME RunTyped, StagesInv, manifest[Root] # {}
  PROVE  /\ Drawn \in Seq(Dir) /\ Len(Drawn) <= MaxWindows + 1
         /\ \A i \in DOMAIN Drawn : Drawn[i] \in Windows /\ manifest[Drawn[i]] # {}
<1>. USE StoredRunAssumption DEF Drawn
<1>1. CASE batch
  <2>1. fit \in Seq(1..MaxWindows)
    BY <1>1 DEF RunTyped, StoredRunTypeOK, StagesInv, Windows
  <2>2. IsFiniteSet(1..MaxWindows) /\ Cardinality(1..MaxWindows) <= MaxWindows
    <3>1. 1 \in Int /\ MaxWindows \in Int
      OBVIOUS
    <3>. QED
      BY <3>1, FS_Interval
  <2>3. Len(fit) <= Cardinality(1..MaxWindows)
    BY <2>1, <2>2, NoRepeats DEF StagesInv
  <2>4. Cardinality(1..MaxWindows) \in Nat
    BY <2>2, FS_CardinalityType
  <2>. QED
    BY <1>1, <2>2, <2>3, <2>4 DEF RunTyped, StoredRunTypeOK, StagesInv
<1>2. CASE ~batch
  BY <1>2 DEF Windows, Root, Dir
<1>. QED
  BY <1>1, <1>2 DEF RunTyped, StoredRunTypeOK

AnyRequest == [metrics : BOOLEAN, maps : SUBSET Model]

\* The attempts of a request: where each one goes, and how many there are.
LEMMA JobsOfRequest ==
  ASSUME RunTyped, StagesInv, manifest[Root] # {}, NEW request \in AnyRequest
  PROVE  /\ Jobs(request) \in Seq(Job)
         /\ Len(Jobs(request)) <= Cardinality(Model) * (MaxWindows + 1) + 1
         /\ \A k \in DOMAIN Jobs(request) :
              LET j == Jobs(request)[k]
              IN /\ manifest[j.window] # {}
                 /\ j.kind = "verification" => j.window = Root
                 /\ j.kind # "verification" => j.window \in Windows
<1> DEFINE maps == SetToSeq(request.maps)
           n == Len(Drawn)
           l == Len(maps)
           row(k) == Drawn[((k - 1) \div l) + 1]
           Map(k) == [kind |-> "visualization", model |-> {maps[((k - 1) % l) + 1]}, window |-> row(k)]
           first == IF request.metrics
                    THEN <<[kind |-> "verification", model |-> {}, window |-> Root]>> ELSE <<>>
           rest == [k \in 1..(n * l) |-> Map(k)]
<1>1. /\ Drawn \in Seq(Dir) /\ n \in Nat /\ n <= MaxWindows + 1
      /\ \A i \in 1..n : Drawn[i] \in Windows /\ manifest[Drawn[i]] # {}
  BY DrawnWindows
<1>2. IsFiniteSet(request.maps) /\ Cardinality(request.maps) <= Cardinality(Model)
  BY StoredRunAssumption, FS_Subset DEF AnyRequest
<1>3. maps \in Seq(Model) /\ l \in Nat /\ l <= Cardinality(Model) /\ Cardinality(Model) \in Nat
  <2>1. maps \in Seq(request.maps) /\ l = Cardinality(request.maps) /\ l \in Nat
    BY <1>2, ListOfSet
  <2>2. request.maps \subseteq Model
    BY DEF AnyRequest
  <2>3. Cardinality(Model) \in Nat
    BY StoredRunAssumption, FS_CardinalityType
  <2>. QED
    BY <1>2, <2>1, <2>2, <2>3
<1>. HIDE DEF maps, n, l
<1>4. n * l \in Nat
  BY <1>1, <1>3
<1>5. ASSUME NEW k \in 1..(n * l)
      PROVE  /\ Map(k) \in Job /\ row(k) \in Windows /\ manifest[row(k)] # {}
             /\ Map(k).window = row(k) /\ Map(k).kind = "visualization"
  <2>1. ((k - 1) % l) + 1 \in 1..l /\ ((k - 1) \div l) + 1 \in 1..n
    BY <1>1, <1>3, InTable
  <2>2. maps[((k - 1) % l) + 1] \in Model
    BY <1>3, <2>1 DEF l
  <2>3. row(k) \in Windows /\ manifest[row(k)] # {} /\ row(k) \in Dir
    BY <1>1, <2>1, WindowsAreDirs
  <2>. QED
    BY <2>2, <2>3 DEF Job
<1>6. rest \in Seq(Job) /\ Len(rest) = n * l /\ \A k \in 1..(n * l) : rest[k] = Map(k)
  <2>1. rest \in [1..(n * l) -> Job]
    BY <1>5
  <2>2. \A k \in 1..(n * l) : rest[k] = Map(k)
    OBVIOUS
  <2>. HIDE DEF rest
  <2>. QED
    BY <1>4, <2>1, <2>2, Listed
<1>7. /\ first \in Seq(Job) /\ Len(first) \in 0..1
      /\ \A k \in 1..Len(first) : first[k].kind = "verification" /\ first[k].window = Root
  <2>1. [kind |-> "verification", model |-> {}, window |-> Root] \in Job
    BY WindowsAreDirs DEF Job
  <2>. QED
    BY <2>1
<1>8. Jobs(request) = first \o rest
  BY DEF Jobs, maps, n, l
<1>9. n * l <= Cardinality(Model) * (MaxWindows + 1)
  <2>1. MaxWindows + 1 \in Nat
    BY StoredRunAssumption
  <2>2. n * l <= (MaxWindows + 1) * Cardinality(Model)
    BY <1>1, <1>3, <2>1, ProductGrows, Zenon
  <2>. QED
    BY <1>3, <2>1, <2>2
<1>. HIDE DEF first, rest, row
<1>10. /\ first \o rest \in Seq(Job) /\ Len(first \o rest) = Len(first) + n * l
       /\ \A k \in 1..Len(first \o rest) :
            (first \o rest)[k] = IF k <= Len(first) THEN first[k] ELSE rest[k - Len(first)]
  BY <1>6, <1>7, Concatenated
<1>11. ASSUME NEW k \in 1..Len(first \o rest)
       PROVE  LET j == (first \o rest)[k]
              IN /\ manifest[j.window] # {}
                 /\ j.kind = "verification" => j.window = Root
                 /\ j.kind # "verification" => j.window \in Windows
  <2>1. CASE k <= Len(first)
    <3>1. k \in 1..Len(first) /\ (first \o rest)[k] = first[k]
      BY <1>7, <1>10, <2>1
    <3>. QED
      BY <1>7, <3>1
  <2>2. CASE k > Len(first)
    <3>1. k - Len(first) \in 1..(n * l)
      BY <1>4, <1>7, <1>10, <2>2
    <3>2. (first \o rest)[k] = rest[k - Len(first)]
      BY <1>7, <1>10, <2>2
    <3>. HIDE DEF Map
    <3>3. rest[k - Len(first)] = Map(k - Len(first))
      BY <1>6, <3>1
    <3>. QED
      BY <1>5, <3>1, <3>2, <3>3
  <2>. QED
    BY <1>7, <2>1, <2>2
<1>12. Cardinality(Model) * (MaxWindows + 1) \in Nat
  BY <1>3, StoredRunAssumption
<1>13. DOMAIN Jobs(request) = 1..Len(first \o rest)
  BY <1>8, <1>10
<1>14. Len(Jobs(request)) <= Cardinality(Model) * (MaxWindows + 1) + 1
  <2>1. \A a, b, c \in Nat : a \in 0..1 /\ b <= c => a + b <= c + 1
    OBVIOUS
  <2>2. Len(first) \in Nat
    BY <1>7
  <2>3. Len(first) + n * l <= Cardinality(Model) * (MaxWindows + 1) + 1
    BY <1>4, <1>7, <1>9, <1>12, <2>1, <2>2, Zenon
  <2>4. Len(Jobs(request)) = Len(first) + n * l
    BY <1>8, <1>10
  <2>. QED
    BY <2>3, <2>4, Zenon
<1>. QED
  BY <1>8, <1>10, <1>11, <1>13, <1>14

\* Of each directory there is one ingestion to run at first.
LEMMA StagesAtFirst ==
  ASSUME batch \in BOOLEAN
  PROVE  /\ Stages \in Seq([dir : Dir, name : {"context"} \cup Model])
         /\ \A k \in DOMAIN Stages : Stages[k].dir \in Windows
         /\ \A j, k \in DOMAIN Stages :
              Stages[j].name = "context" /\ Stages[k].name = "context" /\ Stages[j].dir = Stages[k].dir
                => j = k
<1> DEFINE list == SetToSeq(Model)
           names == <<"context">> \o list
           windows == IF batch THEN [w \in 1..MaxWindows |-> w] ELSE <<Root>>
           n == Len(windows)
           l == Len(names)
           At(k) == [dir |-> windows[((k - 1) \div l) + 1], name |-> names[((k - 1) % l) + 1]]
<1>1. list \in Seq(Model) /\ "context" \notin Model
  BY StoredRunAssumption, ListOfSet DEF Input
<1>2. /\ names \in Seq({"context"} \cup Model) /\ l \in Nat
      /\ \A i \in 1..l : names[i] = "context" => i = 1
  <2>1. <<"context">> \in Seq({"context"} \cup Model) /\ list \in Seq({"context"} \cup Model)
    BY <1>1
  <2>. HIDE DEF list
  <2>2. /\ names \in Seq({"context"} \cup Model)
        /\ \A i \in 1..l : names[i] = IF i <= 1 THEN <<"context">>[i] ELSE list[i - 1]
        /\ l = 1 + Len(list)
    BY <2>1, Concatenated
  <2>3. ASSUME NEW i \in 1..l, i > 1
        PROVE  names[i] # "context"
    <3>1. i - 1 \in 1..Len(list)
      BY <1>1, <2>2, <2>3
    <3>2. names[i] = list[i - 1]
      BY <2>2, <2>3
    <3>. QED
      BY <1>1, <3>1, <3>2
  <2>4. l \in Nat
    BY <2>2
  <2>. HIDE DEF names
  <2>. QED
    BY <2>2, <2>3, <2>4
<1>3. /\ windows \in Seq(Dir) /\ n \in Nat /\ \A i \in 1..n : windows[i] \in Windows
      /\ \A i, j \in 1..n : windows[i] = windows[j] => i = j
  <2>1. CASE batch
    <3>1. windows \in [1..MaxWindows -> Dir] /\ \A i \in 1..MaxWindows : windows[i] = i
      BY <2>1, StoredRunAssumption DEF Dir
    <3>. HIDE DEF windows
    <3>2. windows \in Seq(Dir) /\ n = MaxWindows
      BY <3>1, StoredRunAssumption, Listed
    <3>. QED
      BY <2>1, <3>1, <3>2, StoredRunAssumption DEF Windows
  <2>2. CASE ~batch
    BY <2>2, StoredRunAssumption DEF Windows, Dir, Root
  <2>. QED
    BY <2>1, <2>2
<1>4. Stages = [k \in 1..(n * l) |-> At(k)]
  BY DEF Stages
<1>. HIDE DEF names, windows, n, l
<1>5. n * l \in Nat
  BY <1>2, <1>3
<1>6. ASSUME NEW k \in 1..(n * l)
      PROVE  ((k - 1) % l) + 1 \in 1..l /\ ((k - 1) \div l) + 1 \in 1..n
  BY <1>2, <1>3, InTable
<1>7. ASSUME NEW k \in 1..(n * l)
      PROVE  At(k) \in [dir : Dir, name : {"context"} \cup Model] /\ At(k).dir \in Windows
  BY <1>2, <1>3, <1>6 DEF n, l
<1>8. ASSUME NEW j \in 1..(n * l), NEW k \in 1..(n * l),
             At(j).name = "context", At(k).name = "context", At(j).dir = At(k).dir
      PROVE  j = k
  <2>1. ((j - 1) % l) + 1 = 1 /\ ((k - 1) % l) + 1 = 1
    BY <1>2, <1>6, <1>8
  <2>2. ((j - 1) \div l) + 1 = ((k - 1) \div l) + 1
    BY <1>3, <1>6, <1>8
  <2>3. l > 0 /\ j - 1 \in Nat /\ k - 1 \in Nat
    BY <1>2, <1>6
  <2>4. (j - 1) \div l \in Nat /\ (j - 1) % l \in Nat /\ j - 1 = l * ((j - 1) \div l) + ((j - 1) % l)
    BY <1>2, <2>3, Divided
  <2>5. (k - 1) \div l \in Nat /\ (k - 1) % l \in Nat /\ k - 1 = l * ((k - 1) \div l) + ((k - 1) % l)
    BY <1>2, <2>3, Divided
  <2>6. (j - 1) \div l = (k - 1) \div l /\ (j - 1) % l = (k - 1) % l
    BY <2>1, <2>2, <2>4, <2>5
  <2>7. j - 1 = k - 1
    BY <2>4, <2>5, <2>6
  <2>. QED
    BY <2>7
<1>. HIDE DEF At
<1>9. Stages \in [1..(n * l) -> [dir : Dir, name : {"context"} \cup Model]]
  BY <1>4, <1>7
<1>10. DOMAIN Stages = 1..(n * l) /\ \A k \in 1..(n * l) : Stages[k] = At(k)
  BY <1>4
<1>11. Stages \in Seq([dir : Dir, name : {"context"} \cup Model])
  BY <1>5, <1>9, Listed
<1>. QED
  BY <1>7, <1>8, <1>10, <1>11

-----------------------------------------------------------------------------
(***************************************************************************)
(* Type correctness.                                                       *)
(***************************************************************************)
Stage == [dir : Dir, name : {"context"} \cup Model]

\* A stage that ends takes one or more of the stages away, from the front.
LEMMA StageEndsEffect ==
  ASSUME RunTyped, NEW b \in box \cap StageBox, NEW ok \in BOOLEAN, StageEnds(ok)
  PROVE  /\ box' = {} /\ batch' = batch /\ ops' = ops
         /\ fit' = IF ok /\ b.what = "ingest" THEN Append(fit, b.dir) ELSE fit
         /\ fit' \in Seq(Dir)
         /\ stages' \in Seq(Stage)
         /\ \E n \in Nat \ {0} : \A k \in DOMAIN stages' :
              k + n \in DOMAIN stages /\ stages'[k] = stages[k + n]
<1>1. Box = b /\ b.dir \in Dir
  BY TheBox DEF StageBox
<1>2. /\ box' = {} /\ batch' = batch /\ ops' = ops
      /\ fit' = IF ok /\ b.what = "ingest" THEN Append(fit, b.dir) ELSE fit
  BY <1>1 DEF StageEnds
<1>3. fit' \in Seq(Dir)
  BY <1>1, <1>2 DEF RunTyped, StoredRunTypeOK
<1> DEFINE next == IF ~ok /\ b.what = "ingest" THEN Cardinality(Model) + 2 ELSE 2
<1>4. next \in Nat /\ next >= 2
  BY StoredRunAssumption, FS_CardinalityType
<1>5. stages' = (IF ok \/ batch THEN SubSeq(stages, next, Len(stages)) ELSE <<>>)
  BY <1>1 DEF StageEnds
<1>6. stages \in Seq(Stage)
  BY DEF RunTyped, StoredRunTypeOK, Stage
<1>. HIDE DEF next
<1>7. /\ SubSeq(stages, next, Len(stages)) \in Seq(Stage)
      /\ \A k \in DOMAIN SubSeq(stages, next, Len(stages)) :
           /\ k + (next - 1) \in DOMAIN stages
           /\ SubSeq(stages, next, Len(stages))[k] = stages[k + (next - 1)]
  <2>1. SubSeq(stages, next, Len(stages)) = [k \in 1..(Len(stages) - next + 1) |-> stages[k + next - 1]]
    BY <1>4, <1>6
  <2>. QED
    BY <1>4, <1>6
<1>8. next - 1 \in Nat \ {0}
  BY <1>4
<1>9. stages' \in Seq(Stage)
  BY <1>5, <1>7
<1>10. \A k \in DOMAIN stages' : k + (next - 1) \in DOMAIN stages /\ stages'[k] = stages[k + (next - 1)]
  <2>1. CASE ok \/ batch
    BY <1>5, <1>7, <2>1
  <2>2. CASE ~(ok \/ batch)
    <3>1. DOMAIN stages' = {}
      BY <1>5, <2>2
    <3>. QED
      BY <3>1
  <2>. QED
    BY <2>1, <2>2
<1>. QED
  BY <1>2, <1>3, <1>8, <1>9, <1>10

FilesTyped ==
  /\ files \in [Dir \X (Input \cup Model) -> {"none", "torn", "whole"}]
  /\ made \in [Attempt -> {"none", "torn", "whole"}]
  /\ manifest \in [Dir -> SUBSET Manifest] /\ \A d \in Dir : OneAtMost(manifest[d])

PlanTyped ==
  /\ batch \in BOOLEAN
  /\ stages \in Seq(Stage) /\ fit \in Seq(Dir)
  /\ ops \in Seq(AnyRequest) /\ Len(ops) <= MaxOps

LEMMA TypeParts == RunTyped <=> FilesTyped /\ PlanTyped /\ BoxTypeOK
BY DEF RunTyped, StoredRunTypeOK, FilesTyped, PlanTyped, Stage, AnyRequest, OneAtMost

\* What is saved is a manifest.
LEMMA SavesTyped ==
  ASSUME FilesTyped, NEW d \in Dir, NEW m \in Manifest, Saves(d, m)
  PROVE  /\ manifest' \in [Dir -> SUBSET Manifest] /\ \A e \in Dir : OneAtMost(manifest'[e])
         /\ manifest'[d] = {m} /\ \A e \in Dir \ {d} : manifest'[e] = manifest[e]
<1>1. manifest' = [manifest EXCEPT ![d] = {m}]
  BY DEF Saves
<1>2. manifest'[d] = {m} /\ \A e \in Dir \ {d} : manifest'[e] = manifest[e]
  BY <1>1 DEF FilesTyped
<1>3. manifest' \in [Dir -> SUBSET Manifest]
  BY <1>1 DEF FilesTyped
<1>4. \A e \in Dir : OneAtMost(manifest'[e])
  BY <1>2 DEF FilesTyped, OneAtMost
<1>. QED
  BY <1>2, <1>3, <1>4

LEMMA NoBoxTyped == ASSUME box' = {} PROVE BoxTypeOK'
BY DEF BoxTypeOK, OneAtMost

LEMMA OneBoxTyped ==
  ASSUME NEW b \in StageBox \cup RequestBox, OneAtMost(b.held), box' = {b}
  PROVE  BoxTypeOK'
BY DEF BoxTypeOK, OneAtMost, StageBox, RequestBox

\* What the containers make of a manifest is a manifest.
LEMMA ManifestsMade ==
  ASSUME NEW m \in Manifest
  PROVE  /\ \A s \in {"ingested", "failed", "partial", "succeeded"} : [m EXCEPT !.status = s] \in Manifest
         /\ \A n \in Model : [m EXCEPT !.forecasts = @ \cup {n}] \in Manifest
         /\ \A r \in Record : WithRecord(m, r) \in Manifest
         /\ [m EXCEPT !.status = "ingested", !.diagnostics = <<>>] \in Manifest
         /\ \A s \in {"ingested", "failed", "partial", "succeeded"}, ds \in Seq(Record) :
              [m EXCEPT !.status = s, !.diagnostics = ds] \in Manifest
<1>1. \A r \in Record : Append(m.diagnostics, r) \in Seq(Record)
  BY DEF Manifest
<1>2. \A r \in Record : WithRecord(m, r) \in Manifest
  BY <1>1 DEF Manifest, WithRecord
<1>3. \A s \in {"ingested", "failed", "partial", "succeeded"} : [m EXCEPT !.status = s] \in Manifest
  BY DEF Manifest
<1>4. \A n \in Model : [m EXCEPT !.forecasts = @ \cup {n}] \in Manifest
  BY DEF Manifest
<1>5. \A s \in {"ingested", "failed", "partial", "succeeded"}, ds \in Seq(Record) :
        [m EXCEPT !.status = s, !.diagnostics = ds] \in Manifest
  BY DEF Manifest
<1>6. <<>> \in Seq(Record)
  OBVIOUS
<1>. QED
  BY <1>2, <1>3, <1>4, <1>5, <1>6

LEMMA NewManifests ==
  ASSUME NEW s \in {"ingested", "failed"}, NEW i \in SUBSET Input
  PROVE  NewManifest(s, i) \in Manifest
BY DEF NewManifest, Manifest

\* The result of the attempt that is under way.
LEMMA ResultsMade ==
  ASSUME RunTyped, NEW b \in box \cap RequestBox, Len(b.results) < Len(b.jobs), NEW s \in Good \cup {"failed"}
  PROVE  /\ ThisJob = b.jobs[Len(b.results) + 1] /\ ThisJob \in Job
         /\ Current = <<b.op, Len(b.results) + 1>> /\ Current \in Nat \X Nat
         /\ Result(s) \in Record
         /\ Result(s).kind = ThisJob.kind /\ Result(s).id = Current /\ Result(s).status = s
         /\ Result(s).op = {} /\ Result(s).model = ThisJob.model /\ Result(s).window = ThisJob.window
<1>1. Box = b
  BY TheBox
<1>2. b.jobs \in Seq(Job) /\ b.results \in Seq(Record) /\ b.op \in Nat
  BY StoredRunAssumption DEF RequestBox
<1>3. Len(b.results) + 1 \in 1..Len(b.jobs)
  BY <1>2
<1>4. ThisJob = b.jobs[Len(b.results) + 1] /\ ThisJob \in Job
  BY <1>1, <1>2, <1>3 DEF ThisJob
<1>5. Current = <<b.op, Len(b.results) + 1>> /\ Current \in Nat \X Nat
  BY <1>1, <1>2, <1>3 DEF Current
<1>6. ThisJob.kind \in {"verification", "visualization"} /\ ThisJob.model \in SUBSET Model /\ ThisJob.window \in Dir
  BY <1>4 DEF Job
<1>7. Result(s) \in Record
  BY <1>5, <1>6 DEF Result, Record
<1>. QED
  BY <1>4, <1>5, <1>7 DEF Result

\* In StageTyped and RequestTyped: the containers, one operation at a time.
LEMMA StageTyped ==
  ASSUME RunInv,
         \/ StageStarts \/ BatchPublished \/ HandlerDies \/ StageDeclines \/ CubeOpened
         \/ CubeFilled \/ CubeFails \/ RunCreated \/ ForecastAdded
  PROVE  RunTyped'
<1>1. RunTyped /\ FilesTyped /\ PlanTyped /\ BoxTypeOK
  BY TypeParts DEF RunInv
<1>2. SUFFICES FilesTyped' /\ PlanTyped' /\ BoxTypeOK'
  BY DEF RunTyped, StoredRunTypeOK, FilesTyped, PlanTyped, Stage, AnyRequest, OneAtMost
<1>3. ASSUME UNCHANGED <<files, made, manifest>>
      PROVE  FilesTyped'
  BY <1>1, <1>3 DEF FilesTyped
<1>4. ASSUME UNCHANGED <<batch, stages, fit, ops>>
      PROVE  PlanTyped'
  BY <1>1, <1>4 DEF PlanTyped
<1>5. ASSUME NEW b \in box \cap StageBox, NEW ok \in BOOLEAN, StageEnds(ok)
      PROVE  PlanTyped' /\ BoxTypeOK'
  BY <1>1, <1>5, StageEndsEffect, NoBoxTyped DEF PlanTyped
<1>6. ASSUME NEW d \in Dir, NEW m \in Manifest, Saves(d, m), UNCHANGED <<files, made>>
      PROVE  FilesTyped'
  BY <1>1, <1>6, SavesTyped DEF FilesTyped
<1>7. ASSUME NEW what \in {"ingest", "model"}, NEW step, Runs(what, step)
      PROVE  /\ \E b \in box \cap StageBox : b = Box /\ b.what = what /\ b.step = step
             /\ Box \in box \cap StageBox
  BY <1>1, <1>7, TheBox, BoxSort DEF Runs
<1>8. CASE StageStarts
  <2>1. Head(stages) \in Stage
    BY <1>1, <1>8 DEF StageStarts, PlanTyped
  <2>2. PICK b : b = [what |-> IF Head(stages).name = "context" THEN "ingest" ELSE "model", step |-> "read",
                      dir |-> Head(stages).dir, name |-> Head(stages).name,
                      held |-> manifest[Head(stages).dir]]
    OBVIOUS
  <2>3. box' = {b}
    BY <1>8, <2>2 DEF StageStarts
  <2>4. b \in StageBox /\ OneAtMost(b.held)
    BY <1>1, <2>1, <2>2 DEF Stage, StageBox, FilesTyped, Input
  <2>. QED
    BY <1>3, <1>4, <1>8, <2>3, <2>4, OneBoxTyped DEF StageStarts, runFiles, handlerVars
<1>9. CASE BatchPublished
  <2>1. manifest[Head(fit)] # {} /\ Head(fit) \in Dir
    BY <1>1, <1>9 DEF BatchPublished, PlanTyped, RunInv, StagesInv
  <2>2. ManifestOf(Head(fit)) \in Manifest
    BY <1>1, <2>1, TheManifest
  <2>3. [ManifestOf(Head(fit)) EXCEPT !.status = "ingested", !.diagnostics = <<>>] \in Manifest
    BY <2>2, ManifestsMade
  <2>4. FilesTyped'
    BY <1>6, <1>9, <2>3, WindowsAreDirs DEF BatchPublished
  <2>. QED
    BY <1>1, <1>4, <1>9, <2>4 DEF BatchPublished, handlerVars, BoxTypeOK
<1>10. CASE HandlerDies
  BY <1>1, <1>3, <1>10, NoBoxTyped DEF HandlerDies, runFiles, PlanTyped
<1>11. CASE StageDeclines
  BY <1>3, <1>5, <1>7, <1>11 DEF StageDeclines, runFiles
<1>12. CASE CubeOpened
  <2>1. PICK b \in box \cap StageBox : b = Box
    BY <1>7, <1>12 DEF CubeOpened
  <2>2. /\ files' = [files EXCEPT ![<<b.dir, b.name>>] = "torn"]
        /\ box' = {[b EXCEPT !.step = "opened"]}
        /\ UNCHANGED <<batch, stages, fit, ops, manifest, made>>
    BY <1>12, <2>1 DEF CubeOpened, Becomes, handlerVars
  <2>3. FilesTyped'
    BY <1>1, <2>2 DEF FilesTyped
  <2>4. [b EXCEPT !.step = "opened"] \in StageBox /\ [b EXCEPT !.step = "opened"].held = b.held
    BY DEF StageBox
  <2>. QED
    BY <1>1, <1>4, <2>2, <2>3, <2>4, OneBoxTyped DEF BoxTypeOK
<1>13. CASE CubeFilled
  <2>1. PICK b \in box \cap StageBox : b = Box
    BY <1>7, <1>13 DEF CubeFilled
  <2>2. /\ files' = [files EXCEPT ![<<b.dir, b.name>>] = "whole"]
        /\ box' = {IF b.name = "context" THEN [b EXCEPT !.step = "read", !.name = "target"]
                   ELSE [b EXCEPT !.step = "filled"]}
        /\ UNCHANGED <<batch, stages, fit, ops, manifest, made>>
    BY <1>13, <2>1 DEF CubeFilled, Becomes, handlerVars
  <2>3. FilesTyped'
    BY <1>1, <2>2 DEF FilesTyped
  <2>4. /\ [b EXCEPT !.step = "filled"] \in StageBox /\ [b EXCEPT !.step = "filled"].held = b.held
        /\ [b EXCEPT !.step = "read", !.name = "target"] \in StageBox
        /\ [b EXCEPT !.step = "read", !.name = "target"].held = b.held
    BY DEF StageBox, Input
  <2>. QED
    BY <1>1, <1>4, <2>2, <2>3, <2>4, OneBoxTyped DEF BoxTypeOK
<1>14. CASE CubeFails
  <2>1. PICK b \in box \cap StageBox : b = Box
    BY <1>7, <1>14 DEF CubeFails
  <2>2. b.dir \in Dir
    BY DEF StageBox
  <2>3. InputsSoFar \in SUBSET Input
    BY DEF InputsSoFar
  <2>4. FilesTyped'
    <3>1. CASE Saves(Box.dir, NewManifest("failed", InputsSoFar))
      BY <1>6, <1>14, <2>1, <2>2, <2>3, <3>1, NewManifests DEF CubeFails
    <3>2. CASE b.held # {} /\ Saves(Box.dir, [(CHOOSE m \in b.held : TRUE) EXCEPT !.status = "failed"])
      <4>1. (CHOOSE m \in b.held : TRUE) \in Manifest
        BY <1>1, <3>2, TheHeld
      <4>2. [(CHOOSE m \in b.held : TRUE) EXCEPT !.status = "failed"] \in Manifest
        BY <4>1, ManifestsMade
      <4>. QED
        BY <1>6, <1>14, <2>1, <2>2, <3>2, <4>2 DEF CubeFails
    <3>. QED
      BY <1>14, <2>1, <3>1, <3>2 DEF CubeFails
  <2>. QED
    BY <1>5, <1>14, <2>4 DEF CubeFails
<1>15. CASE RunCreated
  <2>1. PICK b \in box \cap StageBox : b = Box
    BY <1>7, <1>15 DEF RunCreated
  <2>2. b.dir \in Dir
    BY DEF StageBox
  <2>3. FilesTyped'
    BY <1>6, <1>15, <2>1, <2>2, NewManifests DEF RunCreated
  <2>. QED
    BY <1>5, <1>15, <2>1, <2>3 DEF RunCreated
<1>16. CASE ForecastAdded
  <2>1. PICK b \in box \cap StageBox : b = Box /\ b.what = "model" /\ b.step = "filled"
    BY <1>7, <1>16 DEF ForecastAdded
  <2>2. b.dir \in Dir /\ b.name \in Model /\ manifest[b.dir] # {}
    BY <2>1 DEF StageBox, RunInv, StageBoxInv
  <2>3. ManifestOf(b.dir) \in Manifest
    BY <1>1, <2>2, TheManifest
  <2>4. [ManifestOf(b.dir) EXCEPT !.forecasts = @ \cup {b.name}] \in Manifest
    BY <2>2, <2>3, ManifestsMade
  <2>5. FilesTyped'
    BY <1>6, <1>16, <2>1, <2>2, <2>4 DEF ForecastAdded
  <2>. QED
    BY <1>5, <1>16, <2>1, <2>5 DEF ForecastAdded
<1>. QED
  BY <1>8, <1>9, <1>10, <1>11, <1>12, <1>13, <1>14, <1>15, <1>16

\* The results that are not on record, and how many of them are added.
Unrecorded(m, results) == {i \in DOMAIN results : results[i].id \notin Ids(m)}
Added(m, results) == IF batch THEN Cardinality(Unrecorded(m, results)) ELSE 0

\* What write_report and the appending before it make of the records.
LEMMA CompletedMade ==
  ASSUME NEW m \in Seq(Record), NEW results \in Seq(Record)
  PROVE  /\ Completed(m, results) \in Seq(Record)
         /\ Added(m, results) \in Nat /\ Len(Completed(m, results)) = Len(m) + Added(m, results)
         /\ \A i \in DOMAIN m : Completed(m, results)[i] = m[i]
         /\ \A k \in 1..Added(m, results) :
              /\ Place(Unrecorded(m, results), k) \in Unrecorded(m, results)
              /\ Completed(m, results)[Len(m) + k] = results[Place(Unrecorded(m, results), k)]
<1> DEFINE new == Unrecorded(m, results)
           n == Added(m, results)
           more == IF batch THEN [k \in 1..Cardinality(new) |-> results[Place(new, k)]] ELSE <<>>
<1>1. /\ new \in SUBSET (1..Len(results)) /\ Len(results) \in Nat
      /\ n = (IF batch THEN Cardinality(new) ELSE 0)
  BY DEF Unrecorded, Added
<1>. HIDE DEF new, n
<1>2. Cardinality(new) \in Nat /\ \A k \in 1..Cardinality(new) : Place(new, k) \in new
  BY <1>1, PlaceInOrder
<1>3. more \in Seq(Record) /\ Len(more) = n /\ \A k \in 1..n : more[k] = results[Place(new, k)]
  <2>1. CASE batch
    <3>1. [k \in 1..Cardinality(new) |-> results[Place(new, k)]] \in [1..Cardinality(new) -> Record]
      <4>1. ASSUME NEW k \in 1..Cardinality(new)
            PROVE  results[Place(new, k)] \in Record
        <5>1. Place(new, k) \in 1..Len(results)
          BY <1>1, <1>2
        <5>. QED
          BY <5>1
      <4>. QED
        BY <4>1
    <3>. QED
      BY <1>1, <1>2, <2>1, <3>1, Listed
  <2>2. CASE ~batch
    BY <1>1, <2>2
  <2>. QED
    BY <2>1, <2>2
<1>4. n \in Nat /\ \A k \in 1..n : Place(new, k) \in new
  BY <1>1, <1>2
<1>5. Completed(m, results) = m \o more
  BY DEF Completed, Unrecorded, new
<1>. HIDE DEF more
<1>6. /\ m \o more \in Seq(Record) /\ Len(m \o more) = Len(m) + n
      /\ \A k \in 1..Len(m \o more) : (m \o more)[k] = IF k <= Len(m) THEN m[k] ELSE more[k - Len(m)]
  BY <1>3, Concatenated
<1>7. \A i \in DOMAIN m : (m \o more)[i] = m[i]
  BY <1>4, <1>6
<1>8. \A k \in 1..n : (m \o more)[Len(m) + k] = results[Place(new, k)]
  <2>1. ASSUME NEW k \in 1..n
        PROVE  (m \o more)[Len(m) + k] = results[Place(new, k)]
    <3>1. Len(m) + k \in 1..Len(m \o more) /\ ~(Len(m) + k <= Len(m)) /\ (Len(m) + k) - Len(m) = k
      BY <1>4, <1>6, <2>1
    <3>2. (m \o more)[Len(m) + k] = more[(Len(m) + k) - Len(m)]
      BY <1>6, <3>1
    <3>. QED
      BY <1>3, <3>1, <3>2
  <2>. QED
    BY <2>1
<1>. QED
  BY <1>4, <1>5, <1>6, <1>7, <1>8 DEF new, n

LEMMA NamedMade ==
  ASSUME NEW s \in Seq(Record), NEW results \in Seq(Record), NEW op \in Nat
  PROVE  /\ Named(s, results, op) \in Seq(Record) /\ Len(Named(s, results, op)) = Len(s)
         /\ DOMAIN Named(s, results, op) = DOMAIN s
         /\ \A i \in DOMAIN s : Named(s, results, op)[i] =
              IF s[i].id \in Ids(results) THEN [s[i] EXCEPT !.op = {op}] ELSE s[i]
<1> DEFINE t == [i \in DOMAIN s |-> IF s[i].id \in Ids(results) THEN [s[i] EXCEPT !.op = {op}] ELSE s[i]]
<1>1. t = Named(s, results, op)
  BY DEF Named
<1>2. ASSUME NEW i \in DOMAIN s
      PROVE  t[i] \in Record
  <2>1. s[i] \in Record
    OBVIOUS
  <2>2. [s[i] EXCEPT !.op = {op}] \in Record
    BY <2>1 DEF Record
  <2>. QED
    BY <2>1, <2>2
<1>3. DOMAIN s = 1..Len(s) /\ Len(s) \in Nat
  OBVIOUS
<1>4. t \in [1..Len(s) -> Record]
  BY <1>2, <1>3
<1>5. \A i \in DOMAIN s : t[i] = IF s[i].id \in Ids(results) THEN [s[i] EXCEPT !.op = {op}] ELSE s[i]
  OBVIOUS
<1>. HIDE DEF t
<1>6. t \in Seq(Record) /\ Len(t) = Len(s)
  BY <1>3, <1>4, Listed
<1>. QED
  BY <1>1, <1>3, <1>4, <1>5, <1>6

LEMMA ReportMade ==
  ASSUME NEW results \in Seq(Record), NEW op \in Nat
  PROVE  Report(results, op) \in Record
<1>1. ASSUME NEW i \in DOMAIN results
      PROVE  results[i].id \in Nat \X Nat
  <2>1. results[i] \in Record
    OBVIOUS
  <2>. QED
    BY <2>1 DEF Record
<1>2. Ids(results) \subseteq Nat \X Nat
  BY <1>1 DEF Ids
<1>. QED
  BY <1>2, WindowsAreDirs DEF Report, Record, Good

\* The records that ReportWritten starts from: what the request has in hand.
InHand == ReadAgain.diagnostics
Ready == Named(Completed(InHand, Box.results), Box.results, Box.op)

LEMMA HandIsManifest ==
  ASSUME RunInv, NEW b \in box \cap RequestBox
  PROVE  /\ Box = b /\ b.results \in Seq(Record) /\ b.op \in Nat
         /\ manifest[Root] = {ManifestOf(Root)} /\ ManifestOf(Root) \in Manifest
         /\ batch => Held \in Manifest /\ b.held = {Held}
         /\ ReadAgain \in Manifest /\ InHand \in Seq(Record)
         /\ ReadAgain = IF batch THEN Held ELSE ManifestOf(Root)
<1>1. RunTyped /\ manifest[Root] # {} /\ (batch => b.held # {})
  BY DEF RunInv, RequestInv, ResultsInv
<1>2. Box = b /\ b.results \in Seq(Record) /\ b.op \in Nat
  BY <1>1, TheBox, StoredRunAssumption DEF RequestBox
<1>3. manifest[Root] = {ManifestOf(Root)} /\ ManifestOf(Root) \in Manifest
  BY <1>1, TheManifest, WindowsAreDirs
<1>4. batch => Held \in Manifest /\ b.held = {Held}
  BY <1>1, <1>2, TheHeld DEF Held
<1>5. ReadAgain \in Manifest /\ ReadAgain = IF batch THEN Held ELSE ManifestOf(Root)
  BY <1>3, <1>4 DEF ReadAgain
<1>. QED
  BY <1>2, <1>3, <1>4, <1>5 DEF InHand, Manifest

LEMMA ReadyMade ==
  ASSUME RunInv, NEW b \in box \cap RequestBox
  PROVE  /\ Completed(InHand, b.results) \in Seq(Record)
         /\ Ready = Named(Completed(InHand, b.results), b.results, b.op) /\ Ready \in Seq(Record)
         /\ Report(b.results, b.op) \in Record
         /\ Append(Ready, Report(b.results, b.op)) \in Seq(Record)
<1>1. Box = b /\ b.results \in Seq(Record) /\ b.op \in Nat /\ InHand \in Seq(Record)
  BY HandIsManifest
<1>2. Completed(InHand, b.results) \in Seq(Record)
  BY <1>1, CompletedMade
<1>3. Ready = Named(Completed(InHand, b.results), b.results, b.op) /\ Ready \in Seq(Record)
  BY <1>1, <1>2, NamedMade DEF Ready
<1>4. Report(b.results, b.op) \in Record
  BY <1>1, ReportMade
<1>. QED
  BY <1>2, <1>3, <1>4

LEMMA RequestTyped ==
  ASSUME RunInv,
         \/ \E metrics \in BOOLEAN, maps \in SUBSET Model : DiagnosticsStart(metrics, maps)
         \/ RequestRead \/ RequestDeclined \/ OutputMade \/ OutputWritten
         \/ AttemptEnds \/ AttemptFails \/ ReportWritten
  PROVE  RunTyped'
<1>1. RunTyped /\ FilesTyped /\ PlanTyped /\ BoxTypeOK
  BY TypeParts DEF RunInv
<1>2. SUFFICES FilesTyped' /\ PlanTyped' /\ BoxTypeOK'
  BY DEF RunTyped, StoredRunTypeOK, FilesTyped, PlanTyped, Stage, AnyRequest, OneAtMost
<1>3. ASSUME UNCHANGED <<files, made, manifest>>
      PROVE  FilesTyped'
  BY <1>1, <1>3 DEF FilesTyped
<1>4. ASSUME UNCHANGED <<batch, stages, fit, ops>>
      PROVE  PlanTyped'
  BY <1>1, <1>4 DEF PlanTyped
<1>5. ASSUME NEW step, Runs("diagnose", step)
      PROVE  Box \in box \cap RequestBox /\ Box.step = step /\ ResultsInv(Box)
  BY <1>1, <1>5, TheBox, BoxSort DEF Runs, RunInv, RequestInv
<1>6. ASSUME NEW s \in {"torn", "whole"}, UNCHANGED <<files, manifest>>, made' = [made EXCEPT ![Current] = s]
      PROVE  FilesTyped'
  BY <1>1, <1>6 DEF FilesTyped
<1>7. ASSUME NEW b \in box \cap RequestBox, NEW step \in {"made", "written"}, Becomes([b EXCEPT !.step = step])
      PROVE  PlanTyped' /\ BoxTypeOK'
  <2>1. [b EXCEPT !.step = step] \in RequestBox /\ [b EXCEPT !.step = step].held = b.held
    BY DEF RequestBox
  <2>. QED
    BY <1>1, <1>4, <1>7, <2>1, OneBoxTyped DEF BoxTypeOK, Becomes, handlerVars
<1>8. ASSUME NEW b \in box \cap RequestBox, NEW r \in Record,
             Becomes([b EXCEPT !.step = "job", !.results = Append(@, r)])
      PROVE  PlanTyped' /\ BoxTypeOK'
  <2>1. Append(b.results, r) \in Seq(Record)
    BY DEF RequestBox
  <2>2. /\ [b EXCEPT !.step = "job", !.results = Append(@, r)] \in RequestBox
        /\ [b EXCEPT !.step = "job", !.results = Append(@, r)].held = b.held
    BY <2>1 DEF RequestBox
  <2>. QED
    BY <1>1, <1>4, <1>8, <2>2, OneBoxTyped DEF BoxTypeOK, Becomes, handlerVars
<1>9. CASE \E metrics \in BOOLEAN, maps \in SUBSET Model : DiagnosticsStart(metrics, maps)
  <2>1. PICK metrics \in BOOLEAN, maps \in SUBSET Model : DiagnosticsStart(metrics, maps)
    BY <1>9
  <2>2. ops' = Append(ops, [metrics |-> metrics, maps |-> maps]) /\ Len(ops) < MaxOps
    BY <2>1 DEF DiagnosticsStart
  <2>3. [metrics |-> metrics, maps |-> maps] \in AnyRequest
    BY DEF AnyRequest
  <2>4. PlanTyped'
    <3>1. ops' \in Seq(AnyRequest) /\ Len(ops') = Len(ops) + 1
      BY <1>1, <2>2, <2>3 DEF PlanTyped
    <3>. QED
      BY <1>1, <2>1, <2>2, <3>1, StoredRunAssumption DEF PlanTyped, DiagnosticsStart
  <2>5. PICK b : b = [what |-> "diagnose", step |-> "read", op |-> Len(ops) + 1, held |-> manifest[Root],
                      jobs |-> <<>>, results |-> <<>>]
    OBVIOUS
  <2>6. b \in RequestBox /\ OneAtMost(b.held)
    <3>1. Len(ops) + 1 \in 1..MaxOps /\ manifest[Root] \subseteq Manifest /\ OneAtMost(manifest[Root])
      BY <1>1, <2>2, WindowsAreDirs, StoredRunAssumption DEF PlanTyped, FilesTyped
    <3>2. <<>> \in Seq(Job) /\ <<>> \in Seq(Record)
      OBVIOUS
    <3>. QED
      BY <2>5, <3>1, <3>2 DEF RequestBox
  <2>. QED
    BY <1>3, <2>1, <2>4, <2>5, <2>6, OneBoxTyped DEF DiagnosticsStart, runFiles
<1>10. CASE RequestRead
  <2>1. Box \in box \cap RequestBox /\ ResultsInv(Box)
    BY <1>5, <1>10 DEF RequestRead
  <2>2. Request \in AnyRequest
    <3>1. Box.op \in 1..MaxOps /\ Box.op = Len(ops)
      BY <2>1 DEF RequestBox, ResultsInv
    <3>2. Box.op \in 1..Len(ops)
      BY <1>1, <3>1, StoredRunAssumption DEF PlanTyped
    <3>. QED
      BY <1>1, <3>2 DEF Request, PlanTyped
  <2>3. Jobs(Request) \in Seq(Job)
    BY <1>1, <2>1, <2>2, JobsOfRequest DEF RunInv, ResultsInv
  <2>4. /\ [Box EXCEPT !.step = "job", !.jobs = Jobs(Request)] \in RequestBox
        /\ [Box EXCEPT !.step = "job", !.jobs = Jobs(Request)].held = Box.held
    BY <2>1, <2>3 DEF RequestBox
  <2>5. BoxTypeOK'
    BY <1>1, <1>10, <2>1, <2>4, OneBoxTyped DEF BoxTypeOK, RequestRead, Becomes
  <2>. QED
    BY <1>3, <1>4, <1>10, <2>5 DEF RequestRead, Becomes, runFiles, handlerVars
<1>11. CASE RequestDeclined
  BY <1>3, <1>4, <1>11, NoBoxTyped DEF RequestDeclined, runFiles, handlerVars
<1>12. CASE OutputMade
  BY <1>5, <1>6, <1>7, <1>12 DEF OutputMade
<1>13. CASE OutputWritten
  BY <1>5, <1>6, <1>7, <1>13 DEF OutputWritten
<1>14. ASSUME NEW step \in {"job", "made", "written"}, Runs("diagnose", step), step = "job" => More,
              NEW s \in Good \cup {"failed"}
       PROVE  /\ Result(s) \in Record /\ ThisJob.window \in Dir /\ manifest[ThisJob.window] # {}
              /\ Box \in box \cap RequestBox /\ manifest[Root] # {}
  <2>1. Box \in box \cap RequestBox /\ Box.step = step /\ ResultsInv(Box)
    BY <1>5, <1>14
  <2>2. Len(Box.results) < Len(Box.jobs) /\ Box.jobs = Jobs(ops[Box.op]) /\ manifest[Root] # {}
    BY <1>14, <2>1 DEF ResultsInv, More
  <2>3. Result(s) \in Record /\ ThisJob = Box.jobs[Len(Box.results) + 1] /\ ThisJob \in Job
    BY <1>1, <2>1, <2>2, ResultsMade
  <2>4. ops[Box.op] \in AnyRequest
    <3>1. Box.op \in 1..MaxOps /\ Box.op = Len(ops)
      BY <2>1 DEF RequestBox, ResultsInv
    <3>2. Box.op \in 1..Len(ops)
      BY <1>1, <3>1, StoredRunAssumption DEF PlanTyped
    <3>. QED
      BY <1>1, <3>2 DEF PlanTyped
  <2>5. Box.jobs \in Seq(Job) /\ Box.results \in Seq(Record)
    BY <2>1 DEF RequestBox
  <2>6. Len(Box.results) + 1 \in DOMAIN Box.jobs
    BY <2>2, <2>5
  <2>7. manifest[ThisJob.window] # {}
    BY <1>1, <2>2, <2>3, <2>4, <2>6, JobsOfRequest DEF RunInv
  <2>. QED
    BY <2>1, <2>2, <2>3, <2>7 DEF Job
<1>15. ASSUME NEW d \in Dir, manifest[d] # {}, NEW r \in Record, UNCHANGED files,
              Saves(d, WithRecord(ManifestOf(d), r)), UNCHANGED made \/ made' = [made EXCEPT ![Current] = "torn"]
       PROVE  FilesTyped'
  <2>1. WithRecord(ManifestOf(d), r) \in Manifest
    BY <1>1, <1>15, TheManifest, ManifestsMade
  <2>. QED
    BY <1>1, <1>15, <2>1, SavesTyped DEF FilesTyped
<1>16. CASE AttemptEnds
  <2>1. PICK s \in Good \cup {"failed"} :
          /\ Becomes([Box EXCEPT !.step = "job", !.results = Append(@, Result(s))])
          /\ IF batch /\ ThisJob.kind = "verification" THEN UNCHANGED manifest
             ELSE Saves(ThisJob.window, WithRecord(ManifestOf(ThisJob.window), Result(s)))
    BY <1>16 DEF AttemptEnds, Good
  <2>2. /\ Result(s) \in Record /\ ThisJob.window \in Dir /\ manifest[ThisJob.window] # {}
        /\ Box \in box \cap RequestBox
    BY <1>14, <1>16 DEF AttemptEnds
  <2>3. PlanTyped' /\ BoxTypeOK'
    BY <1>8, <2>1, <2>2
  <2>4. FilesTyped'
    BY <1>3, <1>15, <1>16, <2>1, <2>2 DEF AttemptEnds
  <2>. QED
    BY <2>3, <2>4
<1>17. CASE AttemptFails
  <2>1. Result("failed") \in Record /\ Box \in box \cap RequestBox /\ manifest[Root] # {}
    BY <1>14, <1>17 DEF AttemptFails
  <2>2. CASE batch
    <3>1. Held \in Manifest
      BY <2>1, <2>2, HandIsManifest
    <3>2. PICK h : h = WithRecord(Held, Result("failed")) /\ h \in Manifest
      BY <2>1, <3>1, ManifestsMade
    <3>3. PICK b : b = [Box EXCEPT !.step = "job", !.results = Append(@, Result("failed")), !.held = {h}]
      OBVIOUS
    <3>4. Append(Box.results, Result("failed")) \in Seq(Record)
      BY <2>1 DEF RequestBox
    <3>5. b \in RequestBox /\ OneAtMost(b.held)
      BY <2>1, <3>2, <3>3, <3>4 DEF RequestBox, OneAtMost
    <3>6. Becomes(b)
      BY <1>17, <2>2, <3>2, <3>3 DEF AttemptFails
    <3>7. BoxTypeOK'
      BY <3>5, <3>6, OneBoxTyped DEF Becomes
    <3>8. FilesTyped'
      BY <1>6, <1>17, <2>2 DEF AttemptFails
    <3>. QED
      BY <1>4, <3>6, <3>7, <3>8 DEF Becomes, handlerVars
  <2>3. CASE ~batch
    <3>1. FilesTyped'
      BY <1>15, <1>17, <2>1, <2>3, WindowsAreDirs DEF AttemptFails
    <3>. QED
      BY <1>8, <1>17, <2>1, <2>3, <3>1 DEF AttemptFails
  <2>. QED
    BY <2>2, <2>3
<1>18. CASE ReportWritten
  <2>1. Box \in box \cap RequestBox
    BY <1>5, <1>18 DEF ReportWritten
  <2>2. ReadAgain \in Manifest /\ Append(Ready, Report(Box.results, Box.op)) \in Seq(Record)
    BY <2>1, HandIsManifest, ReadyMade
  <2>3. PICK status \in {"succeeded", "partial"} :
          Saves(Root, [ReadAgain EXCEPT !.status = status, !.diagnostics = Append(Ready, Report(Box.results, Box.op))])
    BY <1>18 DEF ReportWritten, Ready, InHand
  <2>4. [ReadAgain EXCEPT !.status = status, !.diagnostics = Append(Ready, Report(Box.results, Box.op))] \in Manifest
    BY <2>2, ManifestsMade
  <2>5. FilesTyped'
    BY <1>1, <1>18, <2>3, <2>4, SavesTyped, WindowsAreDirs DEF FilesTyped, ReportWritten
  <2>. QED
    BY <1>4, <1>18, <2>5, NoBoxTyped DEF ReportWritten, handlerVars
<1>. QED
  BY <1>9, <1>10, <1>11, <1>12, <1>13, <1>16, <1>17, <1>18

-----------------------------------------------------------------------------
(***************************************************************************)
(* The stages: what they leave of the invariant, and of the records.       *)
(***************************************************************************)
Keeps(m, n) ==
  m.inputs \subseteq n.inputs /\ m.forecasts \subseteq n.forecasts /\ n.diagnostics = m.diagnostics

StageEffect ==
  /\ batch' = batch /\ made' = made /\ ops' = ops
  /\ box' \cap RequestBox = {}
  /\ \A d \in Dir : \A m \in manifest[d] : \E n \in manifest'[d] : Keeps(m, n)
  /\ \A d \in Dir : \A n \in manifest'[d] :
       n.diagnostics = <<>> \/ \E m \in manifest[d] : n.diagnostics = m.diagnostics
  /\ batch /\ manifest[Root] # {} => fit' = fit

StageGoal == StagesInv' /\ StageBoxInv' /\ ArraysWhole' /\ StageEffect

LEMMA NoStageBox ==
  ASSUME box' = {}
  PROVE  StageBoxInv' /\ box' \cap RequestBox = {}
BY DEF StageBoxInv

LEMMA SameManifests ==
  ASSUME RunTyped, manifest' = manifest
  PROVE  /\ \A d \in Dir : \A m \in manifest[d] : \E n \in manifest'[d] : Keeps(m, n)
         /\ \A d \in Dir : \A n \in manifest'[d] : \E m \in manifest[d] : n.diagnostics = m.diagnostics
BY DEF Keeps

\* A stage that ends and leaves the manifest alone.
LEMMA StageEndsPlain ==
  ASSUME RunInv, NEW b \in box \cap StageBox, StageEnds(FALSE), UNCHANGED runFiles
  PROVE  StageGoal
<1>1. RunTyped /\ StagesInv /\ StageBoxInv /\ ArraysWhole
  BY DEF RunInv
<1>2. /\ box' = {} /\ batch' = batch /\ ops' = ops /\ fit' = fit
      /\ files' = files /\ manifest' = manifest /\ made' = made
  BY <1>1, StageEndsEffect DEF runFiles
<1>3. PICK n \in Nat \ {0} : \A k \in DOMAIN stages' : k + n \in DOMAIN stages /\ stages'[k] = stages[k + n]
  BY <1>1, StageEndsEffect
<1>4. stages' \in Seq(Stage) /\ stages # <<>>
  BY <1>1, StageEndsEffect DEF StageBoxInv
<1>5. Windows' = Windows
  BY <1>2 DEF Windows
<1>6. batch => manifest[Root] = {}
  BY <1>1, <1>4 DEF StagesInv
<1>7. StagesInv'
  <2>1. \A k \in DOMAIN stages' : k \in Nat
    BY <1>4
  <2>2. \A j, k \in DOMAIN stages' :
          stages'[j].name = "context" /\ stages'[k].name = "context" /\ stages'[j].dir = stages'[k].dir
            => j = k
    <3>1. SUFFICES ASSUME NEW j \in DOMAIN stages', NEW k \in DOMAIN stages',
                          stages'[j].name = "context", stages'[k].name = "context",
                          stages'[j].dir = stages'[k].dir
                   PROVE  j = k
      OBVIOUS
    <3>2. j + n = k + n
      BY <1>1, <1>3, <3>1 DEF StagesInv
    <3>. QED
      BY <2>1, <3>2
  <2>3. \A k \in DOMAIN stages' :
          /\ stages'[k].dir \in Windows
          /\ stages'[k].name = "context" => manifest[stages'[k].dir] = {}
    BY <1>1, <1>3 DEF StagesInv
  <2>4. /\ \A i \in DOMAIN fit : fit[i] \in Windows /\ manifest[fit[i]] # {}
        /\ \A i, j \in DOMAIN fit : fit[i] = fit[j] => i = j
    BY <1>1 DEF StagesInv
  <2>. QED
    BY <1>2, <1>5, <1>6, <2>2, <2>3, <2>4 DEF StagesInv
<1>8. ArraysWhole'
  BY <1>1, <1>2, <1>5 DEF ArraysWhole, Whole
<1>. QED
  BY <1>1, <1>2, <1>7, <1>8, NoStageBox, SameManifests DEF StageGoal, StageEffect

\* A stage that ends with a manifest for its directory.
LEMMA StageEndsSaved ==
  ASSUME RunInv, NEW b \in box \cap StageBox, NEW ok \in BOOLEAN, StageEnds(ok),
         UNCHANGED <<files, made>>, NEW m \in Manifest, Saves(b.dir, m),
         manifest[b.dir] = {} => b.what = "ingest" /\ m.diagnostics = <<>>,
         ok /\ b.what = "ingest" => manifest[b.dir] = {},
         \A o \in manifest[b.dir] : Keeps(o, m),
         \A n \in m.inputs \cup m.forecasts : Whole(b.dir, n)
  PROVE  StageGoal
<1>1. RunTyped /\ StagesInv /\ StageBoxInv /\ ArraysWhole /\ FilesTyped
  BY TypeParts DEF RunInv
<1>2. /\ box' = {} /\ batch' = batch /\ ops' = ops
      /\ fit' = IF ok /\ b.what = "ingest" THEN Append(fit, b.dir) ELSE fit
  BY <1>1, StageEndsEffect
<1>3. PICK n \in Nat \ {0} : \A k \in DOMAIN stages' : k + n \in DOMAIN stages /\ stages'[k] = stages[k + n]
  BY <1>1, StageEndsEffect
<1>4. /\ stages' \in Seq(Stage) /\ stages \in Seq(Stage) /\ stages # <<>> /\ b.dir = stages[1].dir
      /\ b.what = "ingest" => stages[1].name = "context"
  BY <1>1, StageEndsEffect, TypeParts DEF StageBoxInv, PlanTyped
<1>5. Windows' = Windows
  BY <1>2 DEF Windows
<1>6. b.dir \in Windows /\ b.dir \in Dir /\ 1 \in DOMAIN stages
  BY <1>1, <1>4, WindowsAreDirs DEF StagesInv
<1>7. manifest'[b.dir] = {m} /\ \A e \in Dir \ {b.dir} : manifest'[e] = manifest[e]
  BY <1>1, <1>6, SavesTyped
<1>8. batch => manifest[Root] = {} /\ manifest'[Root] = {}
  BY <1>1, <1>4, <1>6, <1>7, WindowsAreDirs DEF StagesInv
<1>9. ASSUME NEW k \in DOMAIN stages'
      PROVE  /\ k \in Nat /\ stages'[k].dir \in Windows
             /\ stages'[k].name = "context" => manifest'[stages'[k].dir] = {}
  <2>1. k \in Nat /\ k + n \in DOMAIN stages /\ stages'[k] = stages[k + n] /\ k + n # 1
    BY <1>3, <1>4
  <2>2. stages[k + n].dir \in Windows /\ stages[k + n].dir \in Dir
    BY <1>1, <2>1, WindowsAreDirs DEF StagesInv
  <2>3. ASSUME stages[k + n].name = "context"
        PROVE  manifest'[stages[k + n].dir] = {}
    <3>1. manifest[stages[k + n].dir] = {}
      BY <1>1, <2>1, <2>3 DEF StagesInv
    <3>2. stages[k + n].dir # b.dir
      <4>1. CASE manifest[b.dir] # {}
        BY <3>1, <4>1
      <4>2. CASE manifest[b.dir] = {}
        BY <1>1, <1>4, <1>6, <2>1, <2>3, <4>2 DEF StagesInv
      <4>. QED
        BY <4>1, <4>2
    <3>. QED
      BY <1>7, <2>2, <3>1, <3>2
  <2>. QED
    BY <2>1, <2>2, <2>3
<1>10. \A j, k \in DOMAIN stages' :
          stages'[j].name = "context" /\ stages'[k].name = "context" /\ stages'[j].dir = stages'[k].dir
            => j = k
  <2>1. SUFFICES ASSUME NEW j \in DOMAIN stages', NEW k \in DOMAIN stages',
                        stages'[j].name = "context", stages'[k].name = "context",
                        stages'[j].dir = stages'[k].dir
                 PROVE  j = k
    OBVIOUS
  <2>2. j + n = k + n
    BY <1>1, <1>3, <2>1 DEF StagesInv
  <2>. QED
    BY <1>9, <2>2
<1>11. ASSUME NEW d \in Dir, manifest[d] # {}
       PROVE  manifest'[d] # {}
  BY <1>7, <1>11
<1>12. /\ \A i \in DOMAIN fit' : fit'[i] \in Windows /\ manifest'[fit'[i]] # {}
       /\ \A i, j \in DOMAIN fit' : fit'[i] = fit'[j] => i = j
  <2>1. fit \in Seq(Dir)
    BY <1>1 DEF RunTyped, StoredRunTypeOK
  <2>2. \A i \in DOMAIN fit : fit[i] \in Windows /\ manifest'[fit[i]] # {}
    BY <1>1, <1>11, <2>1 DEF StagesInv
  <2>3. CASE ok /\ b.what = "ingest"
    <3>1. fit' = Append(fit, b.dir) /\ manifest[b.dir] = {}
      BY <1>2, <2>3
    <3>2. \A i \in DOMAIN fit : fit[i] # b.dir
      BY <1>1, <3>1 DEF StagesInv
    <3>3. /\ DOMAIN fit' = (DOMAIN fit) \cup {Len(fit) + 1}
          /\ fit'[Len(fit) + 1] = b.dir /\ \A i \in DOMAIN fit : fit'[i] = fit[i]
      BY <1>6, <2>1, <3>1
    <3>4. \A i, j \in DOMAIN fit : fit[i] = fit[j] => i = j
      BY <1>1 DEF StagesInv
    <3>5. \A i \in DOMAIN fit' : fit'[i] \in Windows /\ manifest'[fit'[i]] # {}
      BY <1>6, <1>7, <2>2, <3>3
    <3>6. \A i, j \in DOMAIN fit' : fit'[i] = fit'[j] => i = j
      BY <3>2, <3>3, <3>4
    <3>. QED
      BY <3>5, <3>6
  <2>4. CASE ~(ok /\ b.what = "ingest")
    BY <1>1, <1>2, <2>2, <2>4 DEF StagesInv
  <2>. QED
    BY <2>3, <2>4
<1>13. StagesInv'
  BY <1>2, <1>5, <1>8, <1>9, <1>10, <1>12 DEF StagesInv
<1>14. ArraysWhole'
  <2>1. SUFFICES ASSUME NEW d \in Windows, NEW o \in manifest'[d], NEW a \in o.inputs \cup o.forecasts
                 PROVE  Whole(d, a)
    BY <1>5 DEF ArraysWhole, Whole
  <2>2. CASE d = b.dir
    BY <1>7, <2>1, <2>2
  <2>3. CASE d # b.dir
    BY <1>1, <1>7, <2>1, <2>3, WindowsAreDirs DEF ArraysWhole
  <2>. QED
    BY <2>2, <2>3
<1>15. \A d \in Dir : \A o \in manifest[d] : \E p \in manifest'[d] : Keeps(o, p)
  BY <1>7 DEF Keeps
<1>16. \A d \in Dir : \A p \in manifest'[d] :
         p.diagnostics = <<>> \/ \E o \in manifest[d] : p.diagnostics = o.diagnostics
  BY <1>7 DEF Keeps
<1>. QED
  BY <1>2, <1>8, <1>13, <1>14, <1>15, <1>16, NoStageBox DEF StageGoal, StageEffect

LEMMA StageStep ==
  ASSUME RunInv,
         \/ StageStarts \/ BatchPublished \/ HandlerDies \/ StageDeclines \/ CubeOpened
         \/ CubeFilled \/ CubeFails \/ RunCreated \/ ForecastAdded
  PROVE  StageGoal
<1>1. RunTyped /\ StagesInv /\ StageBoxInv /\ ArraysWhole /\ FilesTyped /\ PlanTyped /\ BoxTypeOK
  BY TypeParts DEF RunInv
<1>2. ASSUME NEW what \in {"ingest", "model"}, NEW step, Runs(what, step)
      PROVE  Box \in box \cap StageBox /\ Box.what = what /\ Box.step = step
  BY <1>1, <1>2, TheBox, BoxSort DEF Runs
\* What the invariant says of the container of a stage.
<1>3. ASSUME NEW b \in box \cap StageBox
      PROVE  /\ b.dir \in Dir /\ b.dir \in Windows /\ b.what \in {"ingest", "model"}
             /\ stages # <<>> /\ b.dir = stages[1].dir
             /\ b.what = "ingest" =>
                  /\ stages[1].name = "context" /\ b.name \in Input /\ manifest[b.dir] = {}
                  /\ b.step = "filled" => b.name = "target"
                  /\ b.name = "target" => Whole(b.dir, "context")
             /\ b.what = "model" =>
                  /\ b.name \in Model /\ b.held = manifest[b.dir]
                  /\ b.step # "read" => b.held # {}
             /\ b.step = "filled" => Whole(b.dir, b.name)
             /\ batch => manifest[Root] = {}
  <2>1. stages \in Seq(Stage) /\ stages # <<>> /\ b.dir = stages[1].dir
    BY <1>1 DEF StageBoxInv, PlanTyped
  <2>2. 1 \in DOMAIN stages
    BY <2>1
  <2>3. b.dir \in Windows /\ (stages[1].name = "context" => manifest[b.dir] = {})
    BY <1>1, <2>1, <2>2 DEF StagesInv
  <2>4. batch => manifest[Root] = {}
    BY <1>1, <2>1 DEF StagesInv
  <2>. QED
    BY <1>1, <2>1, <2>3, <2>4 DEF StageBoxInv, StageBox
<1>4. ASSUME UNCHANGED <<batch, manifest, stages, fit>>
      PROVE  StagesInv'
  BY <1>1, <1>4 DEF StagesInv, Windows
<1>5. ASSUME UNCHANGED <<batch, manifest>>, \A d \in Dir, n \in Input \cup Model : Whole(d, n) => Whole(d, n)'
      PROVE  ArraysWhole'
  <2>1. Windows' = Windows /\ Windows \subseteq Dir
    BY <1>5, WindowsAreDirs DEF Windows
  <2>2. \A d \in Dir : \A m \in manifest[d] : m.inputs \cup m.forecasts \subseteq Input \cup Model
    BY <1>1 DEF FilesTyped, Manifest
  <2>. QED
    BY <1>1, <1>5, <2>1, <2>2 DEF ArraysWhole
<1>6. ASSUME UNCHANGED <<batch, made, ops, manifest, fit>>, box' \cap RequestBox = {}
      PROVE  StageEffect
  BY <1>1, <1>6, SameManifests DEF StageEffect
<1>7. ASSUME NEW c \in StageBox
      PROVE  {c} \cap RequestBox = {}
  BY DEF StageBox, RequestBox
<1>8. CASE StageStarts
  <2>1. Head(stages) \in Stage /\ Head(stages) = stages[1]
    BY <1>1, <1>8 DEF StageStarts, PlanTyped
  <2>2. PICK b : b = [what |-> IF Head(stages).name = "context" THEN "ingest" ELSE "model", step |-> "read",
                      dir |-> Head(stages).dir, name |-> Head(stages).name,
                      held |-> manifest[Head(stages).dir]]
    OBVIOUS
  <2>3. box' = {b} /\ UNCHANGED <<batch, files, manifest, made, stages, fit, ops>> /\ stages # <<>>
    BY <1>8, <2>2 DEF StageStarts, runFiles, handlerVars
  <2>4. b \in StageBox
    BY <1>1, <2>1, <2>2 DEF Stage, StageBox, FilesTyped, Input
  <2>5. b.what = "model" => b.name \in Model
    BY <2>1, <2>2 DEF Stage
  <2>6. StageBoxInv'
    BY <2>1, <2>2, <2>3, <2>5 DEF StageBoxInv, Input
  <2>. QED
    BY <1>4, <1>5, <1>6, <1>7, <2>3, <2>4, <2>6 DEF StageGoal, Whole
<1>9. CASE BatchPublished
  <2>1. /\ batch /\ box = {} /\ stages = <<>> /\ manifest[Root] = {} /\ fit # <<>>
        /\ UNCHANGED <<batch, files, made, stages, fit, ops, box>>
    BY <1>9 DEF BatchPublished, handlerVars
  <2>2. PICK m : m = [ManifestOf(Head(fit)) EXCEPT !.status = "ingested", !.diagnostics = <<>>]
    OBVIOUS
  <2>3. m \in Manifest /\ m.diagnostics = <<>>
    <3>1. manifest[Head(fit)] # {} /\ Head(fit) \in Dir
      BY <1>1, <2>1 DEF PlanTyped, StagesInv
    <3>2. ManifestOf(Head(fit)) \in Manifest
      BY <1>1, <3>1, TheManifest
    <3>3. m \in Manifest
      BY <2>2, <3>2, ManifestsMade
    <3>. QED
      BY <2>2, <3>2, <3>3 DEF Manifest
  <2>4. manifest'[Root] = {m} /\ \A e \in Dir \ {Root} : manifest'[e] = manifest[e]
    BY <1>1, <1>9, <2>2, <2>3, SavesTyped, WindowsAreDirs DEF BatchPublished
  <2>5. Windows' = Windows /\ Windows \subseteq Dir \ {Root}
    BY <2>1, WindowsAreDirs DEF Windows
  <2>6. StagesInv'
    <3>1. DOMAIN stages' = {}
      BY <2>1
    <3>. QED
      BY <1>1, <2>1, <2>4, <2>5, <3>1 DEF StagesInv
  <2>7. ArraysWhole'
    BY <1>1, <2>1, <2>4, <2>5 DEF ArraysWhole, Whole
  <2>8. StageBoxInv' /\ box' \cap RequestBox = {}
    BY <2>1, NoStageBox
  <2>9. StageEffect
    <3>1. \A d \in Dir : \A o \in manifest[d] : \E n \in manifest'[d] : Keeps(o, n)
      BY <2>1, <2>4 DEF Keeps
    <3>2. \A d \in Dir : \A n \in manifest'[d] :
            n.diagnostics = <<>> \/ \E o \in manifest[d] : n.diagnostics = o.diagnostics
      BY <2>3, <2>4
    <3>. QED
      BY <2>1, <2>8, <3>1, <3>2 DEF StageEffect
  <2>. QED
    BY <2>6, <2>7, <2>8, <2>9 DEF StageGoal
<1>10. CASE HandlerDies
  <2>1. /\ box' = {} /\ stages' = <<>> /\ fit' = (IF manifest[Root] = {} THEN <<>> ELSE fit)
        /\ UNCHANGED <<batch, files, manifest, made, ops>>
    BY <1>10 DEF HandlerDies, runFiles
  <2>2. DOMAIN stages' = {} /\ DOMAIN <<>> = {} /\ Windows' = Windows
    BY <2>1 DEF Windows
  <2>3. StagesInv'
    BY <1>1, <2>1, <2>2 DEF StagesInv
  <2>4. StageEffect
    BY <1>1, <2>1, SameManifests, NoStageBox DEF StageEffect
  <2>. QED
    BY <1>5, <2>1, <2>3, <2>4, NoStageBox DEF StageGoal, Whole
<1>11. CASE StageDeclines
  BY <1>2, <1>11, StageEndsPlain DEF StageDeclines
<1>12. CASE CubeOpened
  <2>1. PICK b \in box \cap StageBox : /\ b = Box
                                       /\ b.step = "read" /\ (b.what = "model" => b.held # {})
    BY <1>2, <1>12 DEF CubeOpened
  <2>2. /\ files[<<b.dir, b.name>>] = "none"
        /\ files' = [files EXCEPT ![<<b.dir, b.name>>] = "torn"]
        /\ box' = {[b EXCEPT !.step = "opened"]}
        /\ UNCHANGED <<batch, stages, fit, ops, manifest, made>>
    BY <1>12, <2>1 DEF CubeOpened, Becomes, handlerVars, ArrayAt
  <2>3. PICK c : c = [b EXCEPT !.step = "opened"]
    OBVIOUS
  <2>4. /\ c \in StageBox /\ c.held = b.held /\ c.what = b.what /\ c.dir = b.dir /\ c.name = b.name
        /\ c.step = "opened"
    BY <2>3 DEF StageBox
  <2>5. \A d \in Dir, n \in Input \cup Model : Whole(d, n) => Whole(d, n)'
    BY <1>1, <2>2 DEF FilesTyped, Whole
  <2>6. StageBoxInv'
    <3>1. b.name = "target" => Whole(b.dir, "context")'
      BY <1>3, <2>1, <2>5, <1>1, StoredRunAssumption DEF Input, StageBoxInv
    <3>2. c.step # "filled" /\ (c.what = "model" => c.held # {} /\ c.held = manifest[c.dir] /\ c.name \in Model)
      BY <1>3, <2>1, <2>4
    <3>3. c.what = "ingest" => stages[1].name = "context" /\ c.name \in Input
      BY <1>3, <2>4
    <3>4. stages # <<>> /\ c.dir = stages[1].dir
      BY <1>3, <2>4
    <3>. QED
      BY <2>2, <2>3, <2>4, <3>1, <3>2, <3>3, <3>4 DEF StageBoxInv
  <2>. QED
    BY <1>4, <1>5, <1>6, <1>7, <2>2, <2>3, <2>4, <2>5, <2>6 DEF StageGoal
<1>13. CASE CubeFilled
  <2>1. PICK b \in box \cap StageBox : b = Box /\ b.step = "opened"
    BY <1>2, <1>13 DEF CubeFilled
  <2>2. /\ files' = [files EXCEPT ![<<b.dir, b.name>>] = "whole"]
        /\ box' = {IF b.name = "context" THEN [b EXCEPT !.step = "read", !.name = "target"]
                   ELSE [b EXCEPT !.step = "filled"]}
        /\ UNCHANGED <<batch, stages, fit, ops, manifest, made>>
    BY <1>13, <2>1 DEF CubeFilled, Becomes, handlerVars
  <2>3. PICK c : c = IF b.name = "context" THEN [b EXCEPT !.step = "read", !.name = "target"]
                     ELSE [b EXCEPT !.step = "filled"]
    OBVIOUS
  <2>4. /\ c \in StageBox /\ c.held = b.held /\ c.what = b.what /\ c.dir = b.dir
        /\ b.name = "context" => c.name = "target" /\ c.step = "read"
        /\ b.name # "context" => c.name = b.name /\ c.step = "filled"
    BY <2>3 DEF StageBox, Input
  <2>5. \A d \in Dir, n \in Input \cup Model : Whole(d, n) => Whole(d, n)'
    BY <1>1, <2>2 DEF FilesTyped, Whole
  <2>6. Whole(b.dir, b.name)'
    <3>1. <<b.dir, b.name>> \in Dir \X (Input \cup Model)
      BY DEF StageBox
    <3>. QED
      BY <1>1, <2>2, <3>1 DEF FilesTyped, Whole
  <2>7. b.what = "model" => b.name # "context"
    BY <1>3, StoredRunAssumption DEF Input
  <2>8. c.what = "ingest" /\ c.name = "target" => Whole(c.dir, "context")'
    <3>1. CASE b.name = "context"
      BY <2>4, <2>6, <3>1
    <3>2. CASE b.name # "context"
      BY <1>3, <2>4, <2>5, <3>2 DEF Input
    <3>. QED
      BY <3>1, <3>2
  <2>9. StageBoxInv'
    <3>1. c.what = "ingest" => stages[1].name = "context" /\ c.name \in Input /\ (c.step = "filled" => c.name = "target")
      BY <1>3, <2>4 DEF Input
    <3>2. c.what = "model" => c.name \in Model /\ c.held = manifest[c.dir] /\ c.held # {}
      <4>1. b.what = "model" => b.name \in Model /\ b.held = manifest[b.dir]
        BY <1>3
      <4>2. b.what = "model" => b.held # {}
        BY <1>3, <2>1
      <4>3. b.what = "model" => c.name = b.name /\ c.held = b.held /\ c.dir = b.dir
        BY <2>4, <2>7
      <4>4. c.what = b.what
        BY <2>4
      <4>. QED
        BY <4>1, <4>2, <4>3, <4>4
    <3>3. stages # <<>> /\ c.dir = stages[1].dir
      BY <1>3, <2>4
    <3>4. c.step = "filled" => Whole(c.dir, c.name)'
      BY <2>4, <2>6
    <3>. QED
      BY <2>2, <2>3, <2>8, <3>1, <3>2, <3>3, <3>4 DEF StageBoxInv
  <2>. QED
    BY <1>4, <1>5, <1>6, <1>7, <2>2, <2>3, <2>4, <2>5, <2>9 DEF StageGoal
<1>14. CASE CubeFails
  <2>1. PICK b \in box \cap StageBox : b = Box
    BY <1>2, <1>14 DEF CubeFails
  <2>2. CASE b.what = "ingest" /\ Saves(b.dir, NewManifest("failed", InputsSoFar))
    <3>1. PICK m : m = NewManifest("failed", InputsSoFar)
      OBVIOUS
    <3>2. /\ m \in Manifest /\ m.diagnostics = <<>> /\ m.inputs = InputsSoFar /\ m.forecasts = {}
          /\ \A n \in InputsSoFar : Whole(b.dir, n)
      BY <2>1, <3>1, NewManifests DEF InputsSoFar, NewManifest, Whole, ArrayAt
    <3>. QED
      BY <1>3, <1>14, <2>1, <2>2, <3>1, <3>2, StageEndsSaved DEF CubeFails
  <2>3. CASE b.what = "model" /\ b.held # {}
             /\ Saves(b.dir, [(CHOOSE m \in b.held : TRUE) EXCEPT !.status = "failed"])
    <3>1. PICK o : b.held = {o} /\ o \in Manifest /\ o = (CHOOSE m \in b.held : TRUE)
      BY <1>1, <2>3, TheHeld
    <3>2. PICK m : m = [o EXCEPT !.status = "failed"]
      OBVIOUS
    <3>3. m \in Manifest /\ Keeps(o, m) /\ m.inputs = o.inputs /\ m.forecasts = o.forecasts
      <4>1. m \in Manifest
        BY <3>1, <3>2, ManifestsMade
      <4>2. m.inputs = o.inputs /\ m.forecasts = o.forecasts /\ m.diagnostics = o.diagnostics
        BY <3>1, <3>2 DEF Manifest
      <4>. QED
        BY <4>1, <4>2 DEF Keeps
    <3>4. manifest[b.dir] = {o} /\ b.dir \in Windows
      BY <1>3, <2>3, <3>1
    <3>5. \A n \in m.inputs \cup m.forecasts : Whole(b.dir, n)
      BY <1>1, <3>3, <3>4 DEF ArraysWhole
    <3>. QED
      BY <1>14, <2>1, <2>3, <3>1, <3>2, <3>3, <3>4, <3>5, StageEndsSaved DEF CubeFails
  <2>. QED
    BY <1>2, <1>14, <2>1, <2>2, <2>3 DEF CubeFails
<1>15. CASE RunCreated
  <2>1. PICK b \in box \cap StageBox : b = Box /\ b.what = "ingest" /\ b.step = "filled"
    BY <1>2, <1>15 DEF RunCreated
  <2>2. PICK m : m = NewManifest("ingested", Input)
    OBVIOUS
  <2>3. m \in Manifest /\ m.diagnostics = <<>> /\ m.inputs = Input /\ m.forecasts = {}
    BY <2>2, NewManifests DEF NewManifest
  <2>4. \A n \in Input : Whole(b.dir, n)
    BY <1>3, <2>1 DEF Input
  <2>. QED
    BY <1>3, <1>15, <2>1, <2>2, <2>3, <2>4, StageEndsSaved DEF RunCreated
<1>16. CASE ForecastAdded
  <2>1. PICK b \in box \cap StageBox : b = Box /\ b.what = "model" /\ b.step = "filled"
    BY <1>2, <1>16 DEF ForecastAdded
  <2>2. b.dir \in Windows /\ b.dir \in Dir /\ b.name \in Model /\ manifest[b.dir] # {} /\ Whole(b.dir, b.name)
    BY <1>3, <2>1
  <2>3. PICK o : manifest[b.dir] = {o} /\ o \in Manifest /\ o = ManifestOf(b.dir)
    BY <1>1, <2>2, TheManifest
  <2>4. PICK m : m = [o EXCEPT !.forecasts = @ \cup {b.name}]
    OBVIOUS
  <2>5. m \in Manifest /\ m.inputs = o.inputs /\ m.forecasts = o.forecasts \cup {b.name} /\ Keeps(o, m)
    <3>1. m \in Manifest
      BY <2>2, <2>3, <2>4, ManifestsMade
    <3>2. m.inputs = o.inputs /\ m.forecasts = o.forecasts \cup {b.name} /\ m.diagnostics = o.diagnostics
      BY <2>3, <2>4 DEF Manifest
    <3>. QED
      BY <3>1, <3>2 DEF Keeps
  <2>6. \A n \in m.inputs \cup m.forecasts : Whole(b.dir, n)
    BY <1>1, <2>2, <2>3, <2>5 DEF ArraysWhole
  <2>7. StageEnds(TRUE) /\ UNCHANGED <<files, made>> /\ Saves(b.dir, m)
    BY <1>16, <2>1, <2>3, <2>4 DEF ForecastAdded
  <2>8. \A p \in manifest[b.dir] : Keeps(p, m)
    BY <2>3, <2>5
  <2>. QED
    BY <2>1, <2>2, <2>5, <2>6, <2>7, <2>8, StageEndsSaved
<1>. QED
  BY <1>8, <1>9, <1>10, <1>11, <1>12, <1>13, <1>14, <1>15, <1>16

-----------------------------------------------------------------------------
(***************************************************************************)
(* The records: carried to the next state, and with one more attempt.      *)
(***************************************************************************)
LEMMA JobsSame ==
  ASSUME batch' = batch, batch => fit' = fit, NEW o, ops'[o] = ops[o]
  PROVE  Jobs(ops[o])' = Jobs(ops[o])
<1>1. Drawn' = Drawn
  BY DEF Drawn
<1>. QED
  BY <1>1 DEF Jobs

\* Records stay right as long as no output is taken from under them.
LEMMA RecordsCarried ==
  ASSUME NEW s, RecordsOK(s), batch' = batch, batch => fit' = fit,
         ops \in Seq(AnyRequest), ops' \in Seq(AnyRequest), Len(ops) <= Len(ops'),
         \A o \in 1..Len(ops) : ops'[o] = ops[o],
         \A i \in DOMAIN s : s[i].kind # "report" /\ s[i].status \in Good => made'[s[i].id] = "whole"
  PROVE  RecordsOK(s)'
<1>1. ASSUME NEW i \in DOMAIN s
      PROVE  RecordOK(s[i])'
  BY DEF RecordsOK, RecordOK
<1>2. ASSUME NEW i \in DOMAIN s
      PROVE  ExactAt(s, i)'
  <2>1. CASE s[i].kind # "report"
    BY <2>1 DEF ExactAt
  <2>2. CASE s[i].kind = "report"
    <3>1. s[i].id[1] \in 1..Len(ops)
      BY DEF RecordsOK, RecordOK
    <3>2. Jobs(ops[s[i].id[1]])' = Jobs(ops[s[i].id[1]])
      BY <3>1, JobsSame
    <3>. QED
      BY <3>2 DEF RecordsOK, ExactAt, Mine
  <2>. QED
    BY <2>1, <2>2
<1>. QED
  BY <1>1, <1>2 DEF RecordsOK

LEMMA NoRecords == RecordsOK(<<>>)
BY DEF RecordsOK

\* One attempt more, without the name of a request yet.
LEMMA RecordsGrow ==
  ASSUME NEW s \in Seq(Record), RecordsOK(s), NEW r \in Record, RecordOK(r),
         r.kind # "report", r.op = {}, \A i \in DOMAIN s : s[i].id # r.id
  PROVE  RecordsOK(Append(s, r))
<1> DEFINE t == Append(s, r)
           n == Len(s) + 1
<1>1. /\ Len(s) \in Nat /\ DOMAIN s = 1..Len(s) /\ DOMAIN t = 1..n
      /\ t[n] = r /\ \A i \in DOMAIN s : t[i] = s[i]
  OBVIOUS
<1>. HIDE DEF t
<1>2. \A i \in DOMAIN t : i \in DOMAIN s \/ i = n
  BY <1>1
<1>3. \A i \in DOMAIN t : RecordOK(t[i])
  BY <1>1, <1>2 DEF RecordsOK
<1>4. \A i, j \in DOMAIN t : t[i].kind # "report" /\ t[j].kind # "report" /\ t[i].id = t[j].id => i = j
  BY <1>1, <1>2 DEF RecordsOK
<1>5. ASSUME NEW i \in DOMAIN t
      PROVE  ExactAt(t, i)
  <2>1. CASE i = n
    BY <1>1, <2>1 DEF ExactAt
  <2>2. CASE i \in DOMAIN s /\ s[i].kind = "report"
    <3>1. t[i] = s[i] /\ s[i].op # {} /\ ExactAt(s, i)
      BY <1>1, <2>2 DEF RecordsOK, RecordOK
    <3>2. Mine(t, s[i].op) = Mine(s, s[i].op)
      BY <1>1, <1>2, <3>1 DEF Mine
    <3>3. \A k \in Mine(s, s[i].op) : t[k] = s[k]
      BY <1>1 DEF Mine
    <3>4. {t[k].id : k \in Mine(s, s[i].op)} = {s[k].id : k \in Mine(s, s[i].op)}
      BY <3>3
    <3>. QED
      BY <2>2, <3>1, <3>2, <3>3, <3>4 DEF ExactAt
  <2>3. CASE i \in DOMAIN s /\ s[i].kind # "report"
    BY <1>1, <2>3 DEF ExactAt
  <2>. QED
    BY <1>2, <2>1, <2>2, <2>3
<1>. QED
  BY <1>3, <1>4, <1>5 DEF RecordsOK, t

\* What the stages do keeps the records and ends no request.
LEMMA RecordsThroughStages ==
  ASSUME RunInv, RunTyped', StageEffect
  PROVE  RecordsInv' /\ RequestInv'
<1>1. PlanTyped /\ PlanTyped'
  BY DEF RunInv, RunTyped, StoredRunTypeOK, PlanTyped, Stage, AnyRequest
<1>2. ASSUME NEW n \in manifest'[Root]
      PROVE  RecordsOK(n.diagnostics)'
  <2>1. CASE n.diagnostics = <<>>
    BY <2>1, NoRecords DEF RecordsOK
  <2>2. CASE \E m \in manifest[Root] : n.diagnostics = m.diagnostics
    <3>1. manifest[Root] # {} /\ RecordsOK(n.diagnostics)
      BY <2>2 DEF RunInv, RecordsInv
    <3>2. \A i \in DOMAIN n.diagnostics :
            n.diagnostics[i].kind # "report" /\ n.diagnostics[i].status \in Good
              => made'[n.diagnostics[i].id] = "whole"
      BY <3>1 DEF RecordsOK, RecordOK, StageEffect
    <3>3. /\ batch' = batch /\ (batch => fit' = fit) /\ ops \in Seq(AnyRequest) /\ ops' \in Seq(AnyRequest)
          /\ Len(ops) <= Len(ops') /\ \A o \in 1..Len(ops) : ops'[o] = ops[o]
      BY <1>1, <3>1 DEF StageEffect, PlanTyped
    <3>. QED
      BY <3>1, <3>2, <3>3, RecordsCarried
  <2>. QED
    BY <2>1, <2>2, WindowsAreDirs DEF StageEffect
<1>. QED
  BY <1>2 DEF RecordsInv, RequestInv, StageEffect

-----------------------------------------------------------------------------
(***************************************************************************)
(* The end of a request: its attempts get its name, and its report.        *)
(***************************************************************************)
LEMMA HandRecords ==
  ASSUME RunInv, NEW b \in box \cap RequestBox
  PROVE  /\ RecordsOK(InHand) /\ OnRecord(b, InHand) /\ ResultsInv(b)
         /\ \A m \in manifest[Root] :
              /\ m.inputs = ReadAgain.inputs /\ m.forecasts = ReadAgain.forecasts
              /\ DOMAIN m.diagnostics \subseteq DOMAIN InHand
              /\ \A i \in DOMAIN m.diagnostics : m.diagnostics[i] = InHand[i]
<1>1. /\ Box = b /\ manifest[Root] = {ManifestOf(Root)} /\ ManifestOf(Root) \in Manifest
      /\ batch => Held \in Manifest /\ b.held = {Held}
      /\ ReadAgain \in Manifest /\ InHand \in Seq(Record)
      /\ ReadAgain = IF batch THEN Held ELSE ManifestOf(Root)
  BY HandIsManifest
<1>2. CASE batch
  <2>1. /\ RecordsOK(InHand) /\ OnRecord(b, InHand) /\ ResultsInv(b) /\ Extends(ManifestOf(Root), Held)
        /\ InHand = Held.diagnostics /\ ReadAgain = Held
    BY <1>1, <1>2 DEF RunInv, RequestInv, InHand
  <2>2. ManifestOf(Root).diagnostics \in Seq(Record)
    BY <1>1 DEF Manifest
  <2>3. DOMAIN ManifestOf(Root).diagnostics \subseteq DOMAIN InHand
    BY <1>1, <2>1, <2>2 DEF Extends
  <2>. QED
    BY <1>1, <2>1, <2>3 DEF Extends
<1>3. CASE ~batch
  <2>1. InHand = ManifestOf(Root).diagnostics /\ ReadAgain = ManifestOf(Root)
    BY <1>1, <1>3 DEF InHand
  <2>. QED
    BY <1>1, <1>3, <2>1 DEF RunInv, RequestInv, RecordsInv
<1>. QED
  BY <1>2, <1>3

LEMMA ResultIds ==
  ASSUME RunInv, NEW b \in box \cap RequestBox
  PROVE  /\ \A k \in DOMAIN b.results : b.results[k].id = <<b.op, k>> /\ <<b.op, k>> \in Ids(b.results)
         /\ \A x \in Ids(b.results) : x[1] = b.op /\ x[2] \in DOMAIN b.results /\ x = <<b.op, x[2]>>
<1>1. \A k \in DOMAIN b.results : b.results[k].id = <<b.op, k>>
  BY DEF RunInv, RequestInv, ResultsInv
<1>2. ASSUME NEW x \in Ids(b.results)
      PROVE  x[1] = b.op /\ x[2] \in DOMAIN b.results /\ x = <<b.op, x[2]>>
  <2>1. PICK k \in DOMAIN b.results : x = b.results[k].id
    BY DEF Ids
  <2>2. x = <<b.op, k>>
    BY <1>1, <2>1
  <2>. QED
    BY <2>2
<1>3. \A k \in DOMAIN b.results : b.results[k].id \in Ids(b.results)
  BY DEF Ids
<1>. QED
  BY <1>1, <1>2, <1>3

\* Every result is on record once, and everything else was there before.
All(b) == Completed(InHand, b.results)
Ours(b) == {i \in DOMAIN All(b) : All(b)[i].id \in Ids(b.results)}

LEMMA Completing ==
  ASSUME RunInv, NEW b \in box \cap RequestBox
  PROVE  /\ Ours(b) \subseteq DOMAIN All(b) /\ \A i \in DOMAIN All(b) \ Ours(b) : i \in DOMAIN InHand
         /\ \A i \in DOMAIN InHand :
              i \in DOMAIN All(b) /\ All(b)[i] = InHand[i] /\ (i \in Ours(b) <=> InHand[i].id[1] = b.op)
         /\ \A i \in Ours(b) : All(b)[i].id[2] \in DOMAIN b.results /\ All(b)[i] = b.results[All(b)[i].id[2]]
         /\ \A k \in DOMAIN b.results : \E i \in Ours(b) : All(b)[i] = b.results[k]
         /\ \A i, j \in Ours(b) : All(b)[i].id = All(b)[j].id => i = j
<1>0. PICK s, results, new, n, t, K :
        /\ s = InHand /\ results = b.results
        /\ t = All(b) /\ K = Ours(b)
        /\ new = Unrecorded(s, results) /\ n = Added(s, results)
  OBVIOUS
<1>1. /\ s \in Seq(Record) /\ results \in Seq(Record) /\ RecordsOK(s) /\ OnRecord(b, s) /\ ResultsInv(b)
  BY <1>0, HandIsManifest, HandRecords
<1>2. /\ \A i \in DOMAIN s : s[i].id[1] = b.op =>
           s[i].id[2] \in DOMAIN results /\ s[i] = results[s[i].id[2]]
      /\ ~batch => \A k \in DOMAIN results : \E i \in DOMAIN s : s[i] = results[k]
      /\ \A k \in DOMAIN results : results[k].kind # "report"
  BY <1>0, <1>1 DEF OnRecord, ResultsInv
<1>3. /\ t \in Seq(Record) /\ n \in Nat /\ Len(t) = Len(s) + n
      /\ \A i \in DOMAIN s : t[i] = s[i]
      /\ \A k \in 1..n : Place(new, k) \in new /\ t[Len(s) + k] = results[Place(new, k)]
  <2>1. t = Completed(s, results)
    BY <1>0 DEF All
  <2>2. s \in Seq(Record) /\ results \in Seq(Record)
    BY <1>1
  <2>. QED
    <3>1. /\ Completed(s, results) \in Seq(Record)
          /\ Added(s, results) \in Nat /\ Len(Completed(s, results)) = Len(s) + Added(s, results)
          /\ \A i \in DOMAIN s : Completed(s, results)[i] = s[i]
          /\ \A k \in 1..Added(s, results) :
               /\ Place(Unrecorded(s, results), k) \in Unrecorded(s, results)
               /\ Completed(s, results)[Len(s) + k] = results[Place(Unrecorded(s, results), k)]
      BY <2>2, CompletedMade
    <3>. QED
      BY <1>0, <2>1, <3>1
<1>4. \A i \in DOMAIN t : i \in DOMAIN s \/ (i > Len(s) /\ i - Len(s) \in 1..n /\ Len(s) + (i - Len(s)) = i)
  BY <1>1, <1>3
<1>5. DOMAIN s \subseteq DOMAIN t /\ \A k \in 1..n : Len(s) + k \in DOMAIN t
  BY <1>1, <1>3
<1>6. ASSUME NEW i \in DOMAIN t, i \notin DOMAIN s
      PROVE  \E k \in 1..n : i = Len(s) + k /\ Place(new, k) \in new /\ t[i] = results[Place(new, k)]
  BY <1>3, <1>4, <1>6
<1>7. /\ new \subseteq DOMAIN results /\ \A i \in new : results[i].id \notin Ids(s)
      /\ \A k \in DOMAIN results : results[k].id = <<b.op, k>> /\ <<b.op, k>> \in Ids(results)
      /\ \A x \in Ids(results) : x[1] = b.op /\ x[2] \in DOMAIN results /\ x = <<b.op, x[2]>>
      /\ K = {i \in DOMAIN t : t[i].id \in Ids(results)}
  BY <1>0, ResultIds DEF Unrecorded, Ours
<1>8. ASSUME NEW i \in DOMAIN s
      PROVE  i \in DOMAIN t /\ t[i] = s[i] /\ (i \in K <=> s[i].id[1] = b.op)
  <2>1. i \in DOMAIN t /\ t[i] = s[i]
    BY <1>3, <1>5
  <2>2. s[i].id[1] = b.op => s[i].id \in Ids(results)
    BY <1>2 DEF Ids
  <2>3. s[i].id \in Ids(results) => s[i].id[1] = b.op
    BY <1>7
  <2>. QED
    BY <1>7, <2>1, <2>2, <2>3
<1>9. ASSUME NEW i \in K
      PROVE  t[i].id[2] \in DOMAIN results /\ t[i] = results[t[i].id[2]]
  <2>1. CASE i \in DOMAIN s
    BY <1>2, <1>8, <2>1
  <2>2. CASE i \notin DOMAIN s
    <3>1. PICK k \in new : t[i] = results[k]
      BY <1>6, <1>7, <2>2
    <3>2. k \in DOMAIN results /\ t[i].id = <<b.op, k>>
      BY <1>7, <3>1
    <3>. QED
      BY <3>1, <3>2
  <2>. QED
    BY <2>1, <2>2
<1>10. ASSUME NEW i \in DOMAIN t \ K
       PROVE  i \in DOMAIN s
  <2>1. CASE i \notin DOMAIN s
    <3>1. PICK k \in new : t[i] = results[k]
      BY <1>6, <2>1
    <3>2. k \in DOMAIN results
      BY <1>7, <3>1
    <3>3. results[k].id \in Ids(results)
      BY <3>2 DEF Ids
    <3>. QED
      BY <1>7, <3>1, <3>3
  <2>. QED
    BY <2>1
<1>11. ASSUME NEW k \in DOMAIN results
       PROVE  \E i \in K : t[i] = results[k]
  <2>1. CASE results[k].id \in Ids(s)
    <3>1. PICK i \in DOMAIN s : s[i].id = results[k].id
      BY <2>1 DEF Ids
    <3>2. s[i].id = <<b.op, k>>
      BY <3>1, <1>7
    <3>3. s[i] = results[k]
      <4>1. s[i].id[1] = b.op /\ s[i].id[2] = k
        BY <3>2
      <4>. QED
        BY <1>2, <4>1
    <3>. QED
      BY <1>8, <3>2, <3>3
  <2>2. CASE results[k].id \notin Ids(s) /\ batch
    <3>1. k \in new /\ n = Cardinality(new)
      BY <2>2, <1>0 DEF Unrecorded, Added
    <3>2. new \in SUBSET (1..Len(results)) /\ Len(results) \in Nat
      BY <1>1, <1>7
    <3>3. PICK j \in 1..n : Place(new, j) = k
      BY <3>1, <3>2, PlaceInOrder
    <3>4. Len(s) + j \in DOMAIN t /\ t[Len(s) + j] = results[k]
      BY <1>3, <1>5, <3>3
    <3>5. results[k].id \in Ids(results)
      BY DEF Ids
    <3>. QED
      BY <1>7, <3>4, <3>5
  <2>3. CASE ~batch
    <3>1. PICK i \in DOMAIN s : s[i] = results[k]
      BY <1>2, <2>3
    <3>2. s[i].id = <<b.op, k>>
      BY <1>7, <3>1
    <3>3. s[i].id[1] = b.op
      BY <3>2
    <3>. QED
      BY <1>8, <3>1, <3>3
  <2>. QED
    BY <2>1, <2>2, <2>3
<1>12. ASSUME NEW i \in K, NEW j \in K, t[i].id = t[j].id
       PROVE  i = j
  <2>1. ASSUME NEW x \in K, x \notin DOMAIN s
        PROVE  t[x].id \notin Ids(s)
    <3>1. PICK k \in new : t[x] = results[k]
      BY <1>6, <1>7, <2>1
    <3>. QED
      BY <1>7, <3>1
  <2>2. ASSUME NEW x \in K, x \in DOMAIN s
        PROVE  t[x].id \in Ids(s) /\ s[x].kind # "report" /\ t[x] = s[x]
    <3>1. t[x] = s[x] /\ s[x].id[1] = b.op
      BY <1>8, <2>2
    <3>2. s[x].kind # "report"
      BY <1>2, <2>2, <3>1
    <3>. QED
      BY <2>2, <3>1, <3>2 DEF Ids
  <2>3. CASE i \in DOMAIN s /\ j \in DOMAIN s
    BY <1>1, <1>12, <2>2, <2>3 DEF RecordsOK
  <2>4. CASE i \notin DOMAIN s /\ j \notin DOMAIN s
    <3>1. PICK k \in 1..n : i = Len(s) + k /\ Place(new, k) \in new /\ t[i] = results[Place(new, k)]
      BY <1>6, <1>7, <2>4
    <3>2. PICK l \in 1..n : j = Len(s) + l /\ Place(new, l) \in new /\ t[j] = results[Place(new, l)]
      BY <1>6, <1>7, <2>4
    <3>3. Place(new, k) = Place(new, l)
      <4>1. t[i].id = <<b.op, Place(new, k)>> /\ t[j].id = <<b.op, Place(new, l)>>
        BY <1>7, <3>1, <3>2
      <4>2. <<b.op, Place(new, k)>> = <<b.op, Place(new, l)>>
        BY <1>12, <4>1
      <4>. QED
        BY <4>2
    <3>4. new \in SUBSET (1..Len(results)) /\ Len(results) \in Nat
      BY <1>1, <1>7
    <3>5. n = 0 \/ n = Cardinality(new)
      BY <1>0 DEF Added
    <3>6. k \in 1..Cardinality(new) /\ l \in 1..Cardinality(new)
      BY <3>5
    <3>7. k = l
      BY <3>3, <3>4, <3>6, PlaceInOrder
    <3>. QED
      BY <3>1, <3>2, <3>7
  <2>. QED
    BY <1>12, <2>1, <2>2, <2>3, <2>4
<1>13. /\ \A i \in DOMAIN t \ K : i \in DOMAIN s
       /\ \A i \in DOMAIN s : i \in DOMAIN t /\ t[i] = s[i] /\ (i \in K <=> s[i].id[1] = b.op)
       /\ \A i \in K : t[i].id[2] \in DOMAIN results /\ t[i] = results[t[i].id[2]]
       /\ \A k \in DOMAIN results : \E i \in K : t[i] = results[k]
       /\ \A i, j \in K : t[i].id = t[j].id => i = j
       /\ K \subseteq DOMAIN t
  BY <1>7, <1>8, <1>9, <1>10, <1>11, <1>12
<1>. QED
  BY <1>0, <1>13, Zenon

\* As many records get the name of the request as it has results.
LEMMA AsManyAsResults ==
  ASSUME RunInv, NEW b \in box \cap RequestBox
  PROVE  Cardinality(Ours(b)) = Len(b.results)
<1>0. PICK t, K : t = All(b) /\ K = Ours(b)
  OBVIOUS
<1> DEFINE f == [i \in K |-> t[i].id[2]]
           n == Len(b.results)
<1>1. t \in Seq(Record) /\ b.results \in Seq(Record)
  BY <1>0, HandIsManifest, ReadyMade DEF All
<1>2. DOMAIN t = 1..Len(t) /\ Len(t) \in Nat /\ n \in Nat /\ DOMAIN b.results = 1..n
  BY <1>1
<1>3. IsFiniteSet(K) /\ IsFiniteSet(1..n) /\ Cardinality(1..n) = n
  <2>1. 1 \in Int /\ Len(t) \in Int /\ n \in Int
    BY <1>2
  <2>2. IsFiniteSet(1..Len(t)) /\ IsFiniteSet(1..n) /\ Cardinality(1..n) = IF 1 > n THEN 0 ELSE n - 1 + 1
    BY <2>1, FS_Interval
  <2>3. K \in SUBSET (1..Len(t))
    BY <1>0, <1>2 DEF Ours
  <2>4. IsFiniteSet(K)
    BY <2>2, <2>3, FS_Subset
  <2>5. Cardinality(1..n) = n
    BY <1>2, <2>2
  <2>. QED
    BY <2>2, <2>4, <2>5
<1>4. /\ \A i \in K : t[i].id[2] \in 1..n /\ t[i] = b.results[t[i].id[2]]
      /\ \A k \in 1..n : \E i \in K : t[i] = b.results[k]
      /\ \A i, j \in K : t[i].id = t[j].id => i = j
      /\ \A k \in 1..n : b.results[k].id = <<b.op, k>>
  <2>1. /\ \A i \in K : t[i].id[2] \in DOMAIN b.results /\ t[i] = b.results[t[i].id[2]]
        /\ \A k \in DOMAIN b.results : \E i \in K : t[i] = b.results[k]
        /\ \A i, j \in K : t[i].id = t[j].id => i = j
    <3>1. /\ \A i \in Ours(b) : All(b)[i].id[2] \in DOMAIN b.results /\ All(b)[i] = b.results[All(b)[i].id[2]]
          /\ \A k \in DOMAIN b.results : \E i \in Ours(b) : All(b)[i] = b.results[k]
          /\ \A i, j \in Ours(b) : All(b)[i].id = All(b)[j].id => i = j
      BY Completing
    <3>. QED
      BY <1>0, <3>1
  <2>2. \A k \in DOMAIN b.results : b.results[k].id = <<b.op, k>>
    BY ResultIds
  <2>. QED
    BY <1>2, <2>1, <2>2
<1>5. f \in [K -> 1..n]
  BY <1>4
<1>6. ASSUME NEW i \in K, NEW j \in K, f[i] = f[j]
      PROVE  i = j
  BY <1>4, <1>6
<1>7. ASSUME NEW k \in 1..n
      PROVE  \E i \in K : f[i] = k
  <2>1. PICK i \in K : t[i] = b.results[k]
    BY <1>4
  <2>2. t[i].id = <<b.op, k>>
    BY <1>4, <2>1
  <2>3. f[i] = k
    BY <2>2
  <2>. QED
    BY <2>3
<1>. HIDE DEF f
<1>8. f \in Bijection(K, 1..n)
  BY <1>5, <1>6, <1>7 DEF Bijection, Injection, Surjection, IsInjective
<1>. QED
  BY <1>0, <1>3, <1>8, FS_Bijection DEF ExistsBijection

\* What becomes of a record that was in hand.
LEMMA ReadyExtends ==
  ASSUME RunInv, NEW b \in box \cap RequestBox,
         NEW v, v = Append(Ready, Report(b.results, b.op))
  PROVE  /\ v \in Seq(Record) /\ DOMAIN InHand \subseteq DOMAIN v
         /\ \A i \in DOMAIN InHand :
              v[i] = IF InHand[i].id[1] = b.op THEN [InHand[i] EXCEPT !.op = {b.op}] ELSE InHand[i]
<1>0. PICK t, K, results, op :
        /\ t = All(b) /\ K = Ours(b)
        /\ results = b.results /\ op = b.op
  OBVIOUS
<1>1. /\ t \in Seq(Record) /\ results \in Seq(Record) /\ op \in Nat
      /\ Ready = Named(t, results, op) /\ v \in Seq(Record) /\ Ready \in Seq(Record)
  BY <1>0, HandIsManifest, ReadyMade DEF All
<1>2. /\ DOMAIN Ready = DOMAIN t
      /\ \A i \in DOMAIN t : Ready[i] = IF i \in K THEN [t[i] EXCEPT !.op = {op}] ELSE t[i]
  <2>1. t \in Seq(Record) /\ results \in Seq(Record) /\ op \in Nat
    BY <1>1
  <2>2. /\ DOMAIN Named(t, results, op) = DOMAIN t
        /\ \A i \in DOMAIN t :
             Named(t, results, op)[i] = IF t[i].id \in Ids(results) THEN [t[i] EXCEPT !.op = {op}] ELSE t[i]
    BY <2>1, NamedMade
  <2>. QED
    BY <1>0, <1>1, <2>2 DEF Ours
<1>3. \A i \in DOMAIN InHand : i \in DOMAIN t /\ t[i] = InHand[i] /\ (i \in K <=> InHand[i].id[1] = b.op)
  <2>1. \A i \in DOMAIN InHand :
          i \in DOMAIN All(b) /\ All(b)[i] = InHand[i] /\ (i \in Ours(b) <=> InHand[i].id[1] = b.op)
    BY Completing
  <2>. QED
    BY <1>0, <2>1
<1>4. \A i \in DOMAIN Ready : i \in DOMAIN v /\ v[i] = Ready[i]
  BY <1>1
<1>5. DOMAIN InHand \subseteq DOMAIN v
  BY <1>2, <1>3, <1>4
<1>6. ASSUME NEW i \in DOMAIN InHand
      PROVE  v[i] = IF InHand[i].id[1] = b.op THEN [InHand[i] EXCEPT !.op = {b.op}] ELSE InHand[i]
  <2>1. v[i] = IF i \in K THEN [t[i] EXCEPT !.op = {op}] ELSE t[i]
    BY <1>2, <1>3, <1>4
  <2>2. t[i] = InHand[i] /\ (i \in K <=> InHand[i].id[1] = b.op) /\ op = b.op
    BY <1>0, <1>3
  <2>. QED
    BY <2>1, <2>2
<1>. QED
  BY <1>1, <1>5, <1>6

\* The report and everything before it are exact.
LEMMA Reported ==
  ASSUME RunInv, NEW b \in box \cap RequestBox, b.step = "job", Len(b.results) = Len(b.jobs),
         NEW v, v = Append(Ready, Report(b.results, b.op))
  PROVE  RecordsOK(v)
<1>1. PICK s, t, results, K, op, n :
        /\ s = InHand /\ t = All(b) /\ results = b.results /\ op = b.op
        /\ K = Ours(b) /\ n = Len(t) + 1
  OBVIOUS
<1>2. /\ s \in Seq(Record) /\ t \in Seq(Record) /\ results \in Seq(Record) /\ op \in Nat
      /\ Ready = Named(t, results, op) /\ Ready \in Seq(Record) /\ v \in Seq(Record)
      /\ v = Append(Ready, Report(results, op))
  BY <1>1, HandIsManifest, ReadyMade DEF All
<1>3. RecordsOK(s)
  BY <1>1, HandRecords
<1>4. /\ op \in 1..Len(ops) /\ Len(results) = Len(Jobs(ops[op]))
      /\ \A k \in DOMAIN results :
           /\ results[k].id = <<op, k>> /\ results[k].kind # "report" /\ results[k].op = {}
           /\ results[k].id \in Attempt
           /\ results[k].status \in Good => made[results[k].id] = "whole"
  <2>1. ResultsInv(b) /\ b.op \in 1..MaxOps
    BY HandRecords DEF RequestBox
  <2>. QED
    BY <1>1, <2>1, StoredRunAssumption DEF ResultsInv
<1>5. /\ \A i \in DOMAIN t \ K : i \in DOMAIN s
      /\ \A i \in DOMAIN s : i \in DOMAIN t /\ t[i] = s[i] /\ (i \in K <=> s[i].id[1] = op)
      /\ \A i \in K : t[i].id[2] \in DOMAIN results /\ t[i] = results[t[i].id[2]]
      /\ \A k \in DOMAIN results : \E i \in K : t[i] = results[k]
      /\ \A i, j \in K : t[i].id = t[j].id => i = j
      /\ Cardinality(K) = Len(results) /\ K \subseteq DOMAIN t
  <2>1. Cardinality(Ours(b)) = Len(b.results)
    BY AsManyAsResults
  <2>2. /\ Ours(b) \subseteq DOMAIN All(b) /\ \A i \in DOMAIN All(b) \ Ours(b) : i \in DOMAIN InHand
        /\ \A i \in DOMAIN InHand :
             i \in DOMAIN All(b) /\ All(b)[i] = InHand[i] /\ (i \in Ours(b) <=> InHand[i].id[1] = b.op)
        /\ \A i \in Ours(b) : All(b)[i].id[2] \in DOMAIN b.results /\ All(b)[i] = b.results[All(b)[i].id[2]]
        /\ \A k \in DOMAIN b.results : \E i \in Ours(b) : All(b)[i] = b.results[k]
        /\ \A i, j \in Ours(b) : All(b)[i].id = All(b)[j].id => i = j
    BY Completing
  <2>. QED
    BY <1>1, <2>1, <2>2
\* The four sorts of places in v.
<1>6. /\ DOMAIN v = DOMAIN t \cup {n} /\ n \notin DOMAIN t /\ K \subseteq DOMAIN t
      /\ v[n] = Report(results, op)
      /\ \A i \in K : v[i] = [t[i] EXCEPT !.op = {op}]
      /\ \A i \in DOMAIN t \ K : v[i] = s[i] /\ i \in DOMAIN s /\ s[i].id[1] # op
  <2>1. /\ DOMAIN Ready = DOMAIN t /\ Len(Ready) = Len(t)
        /\ \A i \in DOMAIN t : Ready[i] = IF t[i].id \in Ids(results) THEN [t[i] EXCEPT !.op = {op}] ELSE t[i]
    <3>1. t \in Seq(Record) /\ results \in Seq(Record) /\ op \in Nat
      BY <1>2
    <3>2. /\ DOMAIN Named(t, results, op) = DOMAIN t
          /\ \A i \in DOMAIN t :
               Named(t, results, op)[i] = IF t[i].id \in Ids(results) THEN [t[i] EXCEPT !.op = {op}] ELSE t[i]
      BY <3>1, NamedMade
    <3>3. Ready = Named(t, results, op) /\ Ready \in Seq(Record) /\ t \in Seq(Record)
      BY <1>2
    <3>. QED
      BY <3>2, <3>3
  <2>2. /\ DOMAIN v = DOMAIN Ready \cup {n} /\ n \notin DOMAIN Ready /\ v[n] = Report(results, op)
        /\ \A i \in DOMAIN Ready : v[i] = Ready[i]
    BY <1>1, <1>2, <2>1
  <2>3. \A i \in DOMAIN t : i \in K <=> t[i].id \in Ids(results)
    BY <1>1 DEF Ours
  <2>4. \A i \in K : v[i] = [t[i] EXCEPT !.op = {op}]
    BY <1>5, <2>1, <2>2, <2>3
  <2>5. ASSUME NEW i \in DOMAIN t \ K
        PROVE  v[i] = s[i] /\ i \in DOMAIN s /\ s[i].id[1] # op
    <3>1. i \in DOMAIN s /\ t[i] = s[i] /\ s[i].id[1] # op
      BY <1>5
    <3>2. t[i].id \notin Ids(results)
      BY <2>3
    <3>. QED
      BY <2>1, <2>2, <3>1, <3>2
  <2>. QED
    BY <1>5, <2>1, <2>2, <2>4, <2>5
<1>7. ASSUME NEW i \in K
      PROVE  \E k \in DOMAIN results :
               /\ v[i].id = <<op, k>> /\ v[i].kind # "report" /\ v[i].op = {op} /\ v[i].id \in Attempt
               /\ v[i].status = results[k].status /\ v[i].id = t[i].id /\ results[k].id = v[i].id
               /\ v[i].status \in Good => made[v[i].id] = "whole"
  <2>1. PICK k \in DOMAIN results : t[i] = results[k]
    BY <1>5
  <2>2. results[k] \in Record
    BY <1>2
  <2>3. v[i] = [results[k] EXCEPT !.op = {op}]
    BY <1>6, <2>1
  <2>4. /\ v[i].id = results[k].id /\ v[i].kind = results[k].kind /\ v[i].op = {op}
        /\ v[i].status = results[k].status
    BY <2>2, <2>3 DEF Record
  <2>. QED
    BY <1>4, <2>1, <2>4
<1>8. /\ Report(results, op).kind = "report" /\ Report(results, op).id = <<op, 0>>
      /\ Report(results, op).op = {op} /\ Report(results, op).ids = Ids(results)
      /\ Report(results, op).status = "succeeded" <=> AllWell(results)
  BY DEF Report
<1>9. ASSUME NEW i \in DOMAIN v
      PROVE  RecordOK(v[i])
  <2>1. CASE i = n
    BY <1>4, <1>6, <1>8, <2>1 DEF RecordOK
  <2>2. CASE i \in K
    <3>1. PICK k \in DOMAIN results :
            /\ v[i].id = <<op, k>> /\ v[i].kind # "report" /\ v[i].op = {op} /\ v[i].id \in Attempt
            /\ v[i].status \in Good => made[v[i].id] = "whole"
      BY <1>7, <2>2
    <3>2. k # 0 /\ v[i].id[1] = op /\ v[i].id[2] = k
      BY <1>2, <3>1
    <3>. QED
      BY <1>4, <3>1, <3>2 DEF RecordOK
  <2>3. CASE i \in DOMAIN t \ K
    BY <1>3, <1>6, <2>3 DEF RecordsOK
  <2>. QED
    BY <1>6, <2>1, <2>2, <2>3
<1>10. ASSUME NEW i \in DOMAIN v, NEW j \in DOMAIN v, v[i].kind # "report", v[j].kind # "report", v[i].id = v[j].id
       PROVE  i = j
  <2>1. i # n /\ j # n
    BY <1>6, <1>8, <1>10
  <2>2. ASSUME NEW x \in K
        PROVE  v[x].id[1] = op /\ v[x].id = t[x].id
    <3>1. PICK k \in DOMAIN results : v[x].id = <<op, k>> /\ v[x].id = t[x].id
      BY <1>7
    <3>2. <<op, k>>[1] = op
      OBVIOUS
    <3>. QED
      BY <3>1, <3>2
  <2>3. CASE i \in K /\ j \in K
    BY <1>5, <1>10, <2>2, <2>3
  <2>4. CASE i \notin K /\ j \notin K
    BY <1>3, <1>6, <1>10, <2>1, <2>4 DEF RecordsOK
  <2>. QED
    BY <1>6, <1>10, <2>1, <2>2, <2>3, <2>4
<1>11. Mine(v, {op}) = K
  <2>1. ASSUME NEW i \in DOMAIN t \ K, v[i].kind # "report"
        PROVE  v[i].op # {op}
    <3>1. v[i] = s[i] /\ i \in DOMAIN s /\ s[i].id[1] # op
      BY <1>6
    <3>2. s[i].op \subseteq {s[i].id[1]}
      BY <1>3, <2>1, <3>1 DEF RecordsOK, RecordOK
    <3>. QED
      BY <3>1, <3>2
  <2>2. \A i \in K : v[i].kind # "report" /\ v[i].op = {op}
    BY <1>7
  <2>. QED
    BY <1>6, <1>8, <2>1, <2>2 DEF Mine
<1>12. ASSUME NEW o, o # op
       PROVE  Mine(v, {o}) = Mine(s, {o}) /\ \A k \in Mine(s, {o}) : v[k] = s[k]
  <2>1. ASSUME NEW k \in Mine(v, {o})
        PROVE  k \in Mine(s, {o})
    <3>1. k \in DOMAIN t \ K
      BY <1>6, <1>7, <1>8, <1>12, <2>1 DEF Mine
    <3>. QED
      BY <1>6, <2>1, <3>1 DEF Mine
  <2>2. ASSUME NEW k \in Mine(s, {o})
        PROVE  k \in Mine(v, {o}) /\ v[k] = s[k]
    <3>1. k \in DOMAIN s /\ s[k].op = {o} /\ s[k].kind # "report"
      BY <2>2 DEF Mine
    <3>2. k \notin K
      <4>1. ASSUME k \in K
            PROVE  FALSE
        <5>1. PICK l \in DOMAIN results : t[k] = results[l]
          BY <1>5, <4>1
        <5>2. s[k] = t[k] /\ results[l].op = {}
          BY <1>4, <1>5, <3>1
        <5>3. s[k].op = {}
          BY <5>1, <5>2
        <5>. QED
          BY <3>1, <5>3
      <4>. QED
        BY <4>1
    <3>3. k \in DOMAIN t \ K
      BY <1>5, <3>1, <3>2
    <3>. QED
      BY <1>6, <3>1, <3>3 DEF Mine
  <2>. QED
    BY <2>1, <2>2
<1>13. ExactAt(v, n)
  <2>1. v[n].op = {op} /\ v[n].id[1] = op /\ v[n].ids = Ids(results)
    BY <1>6, <1>8
  <2>2. {v[k].id : k \in K} = Ids(results)
    <3>1. \A k \in K : v[k].id \in Ids(results)
      BY <1>7 DEF Ids
    <3>2. ASSUME NEW x \in Ids(results)
          PROVE  \E k \in K : v[k].id = x
      <4>1. PICK l \in DOMAIN results : x = results[l].id
        BY DEF Ids
      <4>2. PICK k \in K : t[k] = results[l]
        BY <1>5
      <4>. QED
        BY <1>7, <4>1, <4>2
    <3>. QED
      BY <3>1, <3>2
  <2>3. Cardinality(K) = Len(Jobs(ops[op]))
    BY <1>4, <1>5
  <2>4. v[n].status = "succeeded" <=> \A k \in K : v[k].status = "succeeded"
    <3>1. ASSUME AllWell(results), NEW k \in K
          PROVE  v[k].status = "succeeded"
      BY <1>7, <3>1 DEF AllWell
    <3>2. ASSUME \A k \in K : v[k].status = "succeeded", NEW l \in DOMAIN results
          PROVE  results[l].status = "succeeded"
      <4>1. PICK k \in K : t[k] = results[l]
        BY <1>5
      <4>2. results[l] \in Record /\ v[k] = [results[l] EXCEPT !.op = {op}]
        BY <1>2, <1>6, <4>1
      <4>3. v[k].status = results[l].status
        BY <4>2 DEF Record
      <4>. QED
        BY <3>2, <4>3
    <3>. QED
      BY <1>6, <1>8, <3>1, <3>2 DEF AllWell
  <2>. QED
    BY <1>11, <2>1, <2>2, <2>3, <2>4 DEF ExactAt
<1>14. ASSUME NEW i \in DOMAIN t
       PROVE  ExactAt(v, i)
  <2>1. CASE i \in K
    BY <1>7, <2>1 DEF ExactAt
  <2>2. CASE i \notin K /\ s[i].kind # "report"
    BY <1>6, <2>2 DEF ExactAt
  <2>3. CASE i \notin K /\ s[i].kind = "report"
    <3>1. v[i] = s[i] /\ i \in DOMAIN s /\ s[i].id[1] # op
      BY <1>6, <2>3
    <3>2. s[i].op = {s[i].id[1]} /\ ExactAt(s, i)
      BY <1>3, <2>3, <3>1 DEF RecordsOK, RecordOK
    <3>3. Mine(v, s[i].op) = Mine(s, s[i].op) /\ \A k \in Mine(s, s[i].op) : v[k] = s[k]
      BY <1>12, <3>1, <3>2
    <3>4. {v[k].id : k \in Mine(s, s[i].op)} = {s[k].id : k \in Mine(s, s[i].op)}
      BY <3>3
    <3>5. v[i].op = s[i].op /\ v[i].ids = s[i].ids /\ v[i].id = s[i].id /\ v[i].status = s[i].status
      BY <3>1
    <3>6. /\ v[i].ids = {v[k].id : k \in Mine(v, v[i].op)}
          /\ Cardinality(Mine(v, v[i].op)) = Len(Jobs(ops[v[i].id[1]]))
      BY <2>3, <3>2, <3>3, <3>4, <3>5 DEF ExactAt
    <3>7. v[i].status = "succeeded" <=> \A k \in Mine(v, v[i].op) : v[k].status = "succeeded"
      <4>1. s[i].status = "succeeded" <=> \A k \in Mine(s, s[i].op) : s[k].status = "succeeded"
        BY <2>3, <3>2 DEF ExactAt
      <4>2. PICK M : M = Mine(s, s[i].op)
        OBVIOUS
      <4>3. M = Mine(v, v[i].op) /\ \A k \in M : v[k] = s[k]
        BY <3>3, <3>5, <4>2
      <4>4. s[i].status = "succeeded" <=> \A k \in M : s[k].status = "succeeded"
        BY <4>1, <4>2
      <4>5. v[i].status = "succeeded" <=> \A k \in M : v[k].status = "succeeded"
        BY <3>5, <4>3, <4>4
      <4>. QED
        BY <4>3, <4>5
    <3>. QED
      BY <3>6, <3>7 DEF ExactAt
  <2>. QED
    BY <2>1, <2>2, <2>3
<1>. QED
  BY <1>6, <1>9, <1>10, <1>13, <1>14 DEF RecordsOK

-----------------------------------------------------------------------------
(***************************************************************************)
(* The requests: the stages stand still, and records only go on.           *)
(***************************************************************************)
\* An attempt stays in its place; it may get the name of its request.
Continues(s, t) ==
  /\ DOMAIN s \subseteq DOMAIN t
  /\ \A i \in DOMAIN s : t[i] = s[i] \/ (s[i].op = {} /\ \E o \in Nat : t[i] = [s[i] EXCEPT !.op = {o}])

Renewed(m, n) ==
  n.inputs = m.inputs /\ n.forecasts = m.forecasts /\ Continues(m.diagnostics, n.diagnostics)

ManifestsRenewed ==
  \A d \in Dir : /\ \A m \in manifest[d] : \E n \in manifest'[d] : Renewed(m, n)
                 /\ \A n \in manifest'[d] : \E m \in manifest[d] : Renewed(m, n)

RequestFrame ==
  /\ UNCHANGED <<batch, files, stages, fit>> /\ box' \cap StageBox = {}
  /\ ManifestsRenewed

LEMMA FrameKeeps ==
  ASSUME RunInv, RequestFrame
  PROVE  StagesInv' /\ StageBoxInv' /\ ArraysWhole'
<1>1. RunTyped /\ StagesInv /\ ArraysWhole /\ PlanTyped
  BY TypeParts DEF RunInv
<1>2. /\ batch' = batch /\ files' = files /\ stages' = stages /\ fit' = fit
      /\ Windows' = Windows /\ Windows \subseteq Dir /\ Root \in Dir
  BY WindowsAreDirs DEF RequestFrame, Windows
<1>3. \A d \in Dir : manifest'[d] = {} <=> manifest[d] = {}
  BY DEF RequestFrame, ManifestsRenewed
<1>4. StagesInv'
  <2>1. \A k \in DOMAIN stages :
          /\ stages[k].dir \in Windows
          /\ stages[k].name = "context" => manifest'[stages[k].dir] = {}
    BY <1>1, <1>2, <1>3 DEF StagesInv
  <2>2. /\ \A j, k \in DOMAIN stages :
             stages[j].name = "context" /\ stages[k].name = "context" /\ stages[j].dir = stages[k].dir
               => j = k
        /\ \A i, j \in DOMAIN fit : fit[i] = fit[j] => i = j
    BY <1>1 DEF StagesInv
  <2>3. \A i \in DOMAIN fit : fit[i] \in Windows /\ manifest'[fit[i]] # {}
    BY <1>1, <1>2, <1>3 DEF StagesInv
  <2>4. batch /\ manifest'[Root] # {} => stages = <<>>
    BY <1>1, <1>2, <1>3 DEF StagesInv
  <2>. QED
    BY <1>2, <2>1, <2>2, <2>3, <2>4 DEF StagesInv
<1>5. StageBoxInv'
  BY DEF RequestFrame, StageBoxInv
<1>6. ArraysWhole'
  <2>1. SUFFICES ASSUME NEW d \in Windows, NEW n \in manifest'[d], NEW a \in n.inputs \cup n.forecasts
                 PROVE  Whole(d, a)
    BY <1>2 DEF ArraysWhole, Whole
  <2>2. PICK m \in manifest[d] : Renewed(m, n)
    BY <1>2, <2>1 DEF RequestFrame, ManifestsRenewed
  <2>. QED
    BY <1>1, <2>1, <2>2 DEF ArraysWhole, Renewed
<1>. QED
  BY <1>4, <1>5, <1>6

LEMMA ContinuesSame == ASSUME NEW s PROVE Continues(s, s)
BY DEF Continues

LEMMA ContinuesAppended ==
  ASSUME NEW s \in Seq(Record), NEW r \in Record
  PROVE  Continues(s, Append(s, r))
<1>1. \A i \in DOMAIN s : i \in DOMAIN Append(s, r) /\ Append(s, r)[i] = s[i]
  OBVIOUS
<1>. QED
  BY <1>1 DEF Continues

LEMMA ManifestsSame == ASSUME manifest' = manifest PROVE ManifestsRenewed
BY ContinuesSame DEF ManifestsRenewed, Renewed

LEMMA ManifestSaved ==
  ASSUME RunTyped, NEW d \in Dir, manifest[d] # {}, NEW n \in Manifest, Saves(d, n),
         Renewed(ManifestOf(d), n)
  PROVE  ManifestsRenewed /\ manifest'[d] = {n} /\ \A e \in Dir \ {d} : manifest'[e] = manifest[e]
<1>1. manifest[d] = {ManifestOf(d)} /\ FilesTyped
  BY TheManifest, TypeParts
<1>2. manifest'[d] = {n} /\ \A e \in Dir \ {d} : manifest'[e] = manifest[e]
  BY <1>1, SavesTyped
<1>3. \A m : Renewed(m, m)
  BY ContinuesSame DEF Renewed
<1>4. ASSUME NEW e \in Dir
      PROVE  /\ \A m \in manifest[e] : \E o \in manifest'[e] : Renewed(m, o)
             /\ \A o \in manifest'[e] : \E m \in manifest[e] : Renewed(m, o)
  <2>1. CASE e = d
    BY <1>1, <1>2, <2>1
  <2>2. CASE e # d
    BY <1>2, <1>3, <2>2
  <2>. QED
    BY <2>1, <2>2
<1>. QED
  BY <1>2, <1>4 DEF ManifestsRenewed

LEMMA WithRecordRenews ==
  ASSUME NEW m \in Manifest, NEW r \in Record
  PROVE  /\ WithRecord(m, r) \in Manifest /\ Renewed(m, WithRecord(m, r))
         /\ WithRecord(m, r).diagnostics = Append(m.diagnostics, r)
<1>1. /\ WithRecord(m, r).inputs = m.inputs /\ WithRecord(m, r).forecasts = m.forecasts
      /\ WithRecord(m, r).diagnostics = Append(m.diagnostics, r) /\ m.diagnostics \in Seq(Record)
  BY DEF WithRecord, Manifest
<1>. QED
  BY <1>1, ManifestsMade, ContinuesAppended DEF Renewed

\* The attempt that is under way has an id that is nowhere yet.
LEMMA NewId ==
  ASSUME RunInv, NEW b \in box \cap RequestBox, NEW id, id = <<b.op, Len(b.results) + 1>>
  PROVE  /\ \A i \in DOMAIN InHand : InHand[i].id # id
         /\ \A m \in manifest[Root] : \A i \in DOMAIN m.diagnostics : m.diagnostics[i].id # id
         /\ \A k \in DOMAIN b.results : b.results[k].id # id
<1>1. b.results \in Seq(Record) /\ OnRecord(b, InHand)
  BY HandIsManifest, HandRecords
<1>2. Len(b.results) + 1 \notin DOMAIN b.results /\ id[1] = b.op /\ id[2] = Len(b.results) + 1
  BY <1>1
<1>3. \A i \in DOMAIN InHand : InHand[i].id # id
  BY <1>1, <1>2 DEF OnRecord
<1>4. \A m \in manifest[Root] : \A i \in DOMAIN m.diagnostics : i \in DOMAIN InHand /\ m.diagnostics[i] = InHand[i]
  BY HandRecords
<1>5. ASSUME NEW k \in DOMAIN b.results
      PROVE  b.results[k].id # id
  <2>1. b.results[k].id = <<b.op, k>>
    BY ResultIds
  <2>2. <<b.op, k>>[2] = k
    OBVIOUS
  <2>. QED
    BY <1>2, <2>1, <2>2
<1>. QED
  BY <1>3, <1>4, <1>5

LEMMA UnderWay ==
  ASSUME RunInv, NEW b \in box \cap RequestBox, b.step # "read", Len(b.results) < Len(b.jobs)
  PROVE  /\ <<b.op, Len(b.results) + 1>> \in Attempt /\ b.op \in 1..Len(ops)
         /\ b.jobs = Jobs(ops[b.op]) /\ manifest[Root] # {}
         /\ ThisJob.window \in Dir /\ manifest[ThisJob.window] # {}
         /\ ~batch => ThisJob.window = Root
         /\ batch /\ ThisJob.kind # "verification" => ThisJob.window # Root
<1>1. RunTyped /\ StagesInv /\ PlanTyped /\ ResultsInv(b)
  BY TypeParts DEF RunInv, RequestInv
<1>2. b.op \in 1..MaxOps /\ b.op = Len(ops) /\ b.op \in 1..Len(ops) /\ ops[b.op] \in AnyRequest
  <2>1. b.op \in 1..MaxOps /\ b.op = Len(ops)
    BY <1>1 DEF RequestBox, ResultsInv
  <2>2. b.op \in 1..Len(ops)
    BY <1>1, <2>1, StoredRunAssumption DEF PlanTyped
  <2>. QED
    BY <1>1, <2>1, <2>2 DEF PlanTyped
<1>3. b.jobs = Jobs(ops[b.op]) /\ manifest[Root] # {}
  BY <1>1 DEF ResultsInv
<1>4. b.jobs \in Seq(Job) /\ b.results \in Seq(Record) /\ Len(b.results) + 1 \in DOMAIN b.jobs
  BY DEF RequestBox
<1>5. /\ Len(b.jobs) <= Cardinality(Model) * (MaxWindows + 1) + 1
      /\ manifest[b.jobs[Len(b.results) + 1].window] # {}
      /\ b.jobs[Len(b.results) + 1].kind = "verification" => b.jobs[Len(b.results) + 1].window = Root
      /\ b.jobs[Len(b.results) + 1].kind # "verification" => b.jobs[Len(b.results) + 1].window \in Windows
  BY <1>1, <1>2, <1>3, <1>4, JobsOfRequest
<1>6. ThisJob = b.jobs[Len(b.results) + 1] /\ ThisJob \in Job
  BY <1>1, ResultsMade DEF Good
<1>7. Cardinality(Model) * (MaxWindows + 1) + 1 \in Int
  <2>1. Cardinality(Model) \in Nat /\ MaxWindows \in Nat
    BY StoredRunAssumption, FS_CardinalityType
  <2>. QED
    BY <2>1
<1>8. Len(b.results) + 1 \in 1..(Cardinality(Model) * (MaxWindows + 1) + 1)
  BY <1>4, <1>5, <1>7
<1>9. <<b.op, Len(b.results) + 1>> \in Attempt
  BY <1>2, <1>8 DEF Attempt
<1>10. ThisJob.window \in Dir /\ (~batch => Windows = {Root}) /\ (batch => Root \notin Windows)
  BY <1>6, WindowsAreDirs DEF Job, Windows
<1>. QED
  BY <1>2, <1>3, <1>5, <1>6, <1>9, <1>10

\* Records stay right while the output of the attempt under way is written.
LEMMA RecordsBeside ==
  ASSUME RunInv, RunTyped', UNCHANGED <<batch, fit, ops>>,
         NEW s, RecordsOK(s), NEW id, \A a \in Attempt \ {id} : made'[a] = made[a],
         made' = made \/ \A i \in DOMAIN s : s[i].id = id => s[i].status \notin Good
  PROVE  RecordsOK(s)'
<1>1. PlanTyped
  BY TypeParts DEF RunInv
<1>2. ASSUME NEW i \in DOMAIN s, s[i].kind # "report", s[i].status \in Good
      PROVE  made'[s[i].id] = "whole"
  BY <1>2 DEF RecordsOK, RecordOK
<1>3. ops \in Seq(AnyRequest) /\ ops' \in Seq(AnyRequest) /\ Len(ops) <= Len(ops')
  BY <1>1 DEF PlanTyped
<1>. QED
  BY <1>2, <1>3, RecordsCarried

\* The request goes on with its results, or with one more.
LEMMA ResultsCarried ==
  ASSUME RunInv, RequestFrame, ops' = ops, NEW b \in box \cap RequestBox, b.step # "read",
         NEW id, id = <<b.op, Len(b.results) + 1>>,
         \A a \in Attempt \ {id} : made'[a] = made[a],
         NEW c \in RequestBox, c.op = b.op, c.jobs = b.jobs,
         \/ /\ c.results = b.results /\ c.step \in {"made", "written"}
            /\ Len(b.results) < Len(b.jobs) /\ (c.step = "written" => made'[id] = "whole")
         \/ \E r \in Record :
              /\ c.results = Append(b.results, r) /\ c.step = "job" /\ Len(b.results) < Len(b.jobs)
              /\ r.id = id /\ r.kind # "report" /\ r.op = {} /\ (r.status \in Good => made'[id] = "whole")
  PROVE  ResultsInv(c)'
<1>1. ResultsInv(b) /\ b.results \in Seq(Record) /\ b.jobs \in Seq(Job) /\ b.op = Len(ops)
  BY DEF RunInv, RequestInv, RequestBox, ResultsInv
<1>2. /\ c.op = Len(ops') /\ stages' = <<>> /\ manifest'[Root] # {}
  BY <1>1, WindowsAreDirs DEF ResultsInv, RequestFrame, ManifestsRenewed
<1>3. c.jobs = Jobs(ops[c.op])'
  <2>1. b.jobs = Jobs(ops[c.op])
    BY <1>1 DEF ResultsInv
  <2>2. Jobs(ops[c.op])' = Jobs(ops[c.op])
    BY JobsSame DEF RequestFrame
  <2>. QED
    BY <2>1, <2>2
<1>4. ASSUME NEW k \in DOMAIN b.results
      PROVE  LET r == b.results[k]
             IN /\ r.id = <<c.op, k>> /\ r.kind # "report" /\ r.op = {} /\ r.id \in Attempt
                /\ r.status \in Good => made'[r.id] = "whole"
  <2>1. b.results[k].id # id
    BY NewId
  <2>. QED
    BY <1>1, <2>1 DEF ResultsInv
<1>5. CASE c.results = b.results
  <2>1. CASE c.step \in {"made", "written"}
    <3>1. Len(b.results) < Len(b.jobs) /\ (c.step = "written" => made'[<<c.op, Len(c.results) + 1>>] = "whole")
      BY <1>5, <2>1
    <3>. QED
      BY <1>1, <1>2, <1>3, <1>4, <1>5, <2>1, <3>1 DEF ResultsInv
  <2>2. CASE c.step \notin {"made", "written"}
    <3>1. PICK r \in Record : c.results = Append(b.results, r)
      BY <2>2
    <3>2. Len(c.results) = Len(b.results) + 1
      BY <1>1, <3>1
    <3>. QED
      BY <1>1, <1>5, <3>2
  <2>. QED
    BY <2>1, <2>2
<1>6. CASE c.results # b.results
  <2>1. PICK r \in Record :
          /\ c.results = Append(b.results, r) /\ c.step = "job" /\ Len(b.results) < Len(b.jobs)
          /\ r.id = id /\ r.kind # "report" /\ r.op = {} /\ (r.status \in Good => made'[id] = "whole")
    BY <1>6
  <2>2. /\ Len(c.results) = Len(b.results) + 1 /\ Len(c.results) <= Len(c.jobs)
        /\ \A k \in DOMAIN c.results : k \in DOMAIN b.results \/ k = Len(b.results) + 1
        /\ c.results[Len(b.results) + 1] = r /\ \A k \in DOMAIN b.results : c.results[k] = b.results[k]
    <3>1. PICK s, t : s = b.results /\ t = c.results
      OBVIOUS
    <3>2. s \in Seq(Record) /\ t = Append(s, r) /\ Len(s) < Len(b.jobs) /\ b.jobs \in Seq(Job)
      BY <1>1, <2>1, <3>1
    <3>3. /\ Len(t) = Len(s) + 1 /\ Len(t) <= Len(b.jobs)
          /\ \A k \in DOMAIN t : k \in DOMAIN s \/ k = Len(s) + 1
          /\ t[Len(s) + 1] = r /\ \A k \in DOMAIN s : t[k] = s[k]
      BY <3>2
    <3>. QED
      BY <3>1, <3>3
  <2>3. id \in Attempt
    BY <2>1, UnderWay
  <2>4. ASSUME NEW k \in DOMAIN c.results
        PROVE  LET x == c.results[k]
               IN /\ x.id = <<c.op, k>> /\ x.kind # "report" /\ x.op = {} /\ x.id \in Attempt
                  /\ x.status \in Good => made'[x.id] = "whole"
    <3>1. CASE k \in DOMAIN b.results
      BY <1>4, <2>2, <3>1
    <3>2. CASE k = Len(b.results) + 1
      BY <2>1, <2>2, <2>3, <3>2
    <3>. QED
      BY <2>2, <3>1, <3>2
  <2>5. c.step = "job"
    BY <2>1
  <2>. QED
    BY <1>2, <1>3, <2>2, <2>4, <2>5 DEF ResultsInv
<1>. QED
  BY <1>5, <1>6

\* What is on record of a request is among its results, also when these grow.
LEMMA OnRecordKept ==
  ASSUME NEW b, NEW s, OnRecord(b, s), NEW c, c.op = b.op, c.results = b.results
  PROVE  OnRecord(c, s)
BY DEF OnRecord

LEMMA OnRecordGrows ==
  ASSUME NEW b, b.results \in Seq(Record), NEW s \in Seq(Record), OnRecord(b, s), NEW c, c.op = b.op,
         NEW r \in Record, r.id = <<b.op, Len(b.results) + 1>>, c.results = Append(b.results, r)
  PROVE  OnRecord(c, Append(s, r)) /\ (batch => OnRecord(c, s))
<1>1. PICK t, n, res, l :
        t = Append(s, r) /\ n = Len(s) + 1 /\ res = c.results /\ l = Len(b.results) + 1
  OBVIOUS
<1>2. /\ n \in DOMAIN t /\ t[n] = r /\ \A i \in DOMAIN s : i \in DOMAIN t /\ t[i] = s[i]
      /\ \A i \in DOMAIN t : i \in DOMAIN s \/ i = n
  BY <1>1
<1>3. /\ l \in DOMAIN res /\ res[l] = r /\ \A k \in DOMAIN b.results : k \in DOMAIN res /\ res[k] = b.results[k]
      /\ \A k \in DOMAIN res : k \in DOMAIN b.results \/ k = l
  BY <1>1
<1>4. r.id[2] = l
  BY <1>1
<1>5. ASSUME NEW i \in DOMAIN s, s[i].id[1] = b.op
      PROVE  s[i].id[2] \in DOMAIN res /\ s[i] = res[s[i].id[2]]
  BY <1>3, <1>5 DEF OnRecord
<1>6. ASSUME NEW i \in DOMAIN t, t[i].id[1] = b.op
      PROVE  t[i].id[2] \in DOMAIN res /\ t[i] = res[t[i].id[2]]
  <2>1. CASE i \in DOMAIN s
    BY <1>2, <1>5, <1>6, <2>1
  <2>2. CASE i = n
    BY <1>2, <1>3, <1>4, <2>2
  <2>. QED
    BY <1>2, <2>1, <2>2
<1>7. ASSUME ~batch, NEW k \in DOMAIN res
      PROVE  \E i \in DOMAIN t : t[i] = res[k]
  <2>1. CASE k \in DOMAIN b.results
    <3>1. PICK i \in DOMAIN s : s[i] = b.results[k]
      BY <1>7, <2>1 DEF OnRecord
    <3>. QED
      BY <1>2, <1>3, <2>1, <3>1
  <2>2. CASE k = l
    BY <1>2, <1>3, <2>2
  <2>. QED
    BY <1>3, <2>1, <2>2
<1>8. OnRecord(c, t)
  <2>1. \A i \in DOMAIN t : t[i].id[1] = c.op =>
          t[i].id[2] \in DOMAIN c.results /\ t[i] = c.results[t[i].id[2]]
    BY <1>1, <1>6
  <2>2. ~batch => \A k \in DOMAIN c.results : \E i \in DOMAIN t : t[i] = c.results[k]
    BY <1>1, <1>7
  <2>. QED
    BY <2>1, <2>2 DEF OnRecord
<1>9. batch => OnRecord(c, s)
  BY <1>1, <1>5 DEF OnRecord
<1>. QED
  BY <1>1, <1>8, <1>9

RequestGoal == RequestFrame /\ RecordsInv' /\ RequestInv'

LEMMA RequestOn ==
  ASSUME batch' = batch, NEW c \in RequestBox, box' = {c}, ResultsInv(c)',
         batch => \E h : /\ c.held = {h} /\ RecordsOK(h.diagnostics)' /\ OnRecord(c, h.diagnostics)
                         /\ \A m \in manifest'[Root] : Extends(m, h),
         ~batch => \A m \in manifest'[Root] : OnRecord(c, m.diagnostics)
  PROVE  RequestInv'
<1>1. \A s : OnRecord(c, s) => OnRecord(c, s)'
  BY DEF OnRecord
<1>2. ASSUME batch
      PROVE  /\ c.held # {}
             /\ \A h \in c.held : /\ RecordsOK(h.diagnostics)' /\ OnRecord(c, h.diagnostics)'
                                  /\ \A m \in manifest'[Root] : Extends(m, h)
  <2>1. PICK h : /\ c.held = {h} /\ RecordsOK(h.diagnostics)' /\ OnRecord(c, h.diagnostics)
                 /\ \A m \in manifest'[Root] : Extends(m, h)
    BY <1>2
  <2>2. OnRecord(c, h.diagnostics)'
    BY <1>1, <2>1
  <2>. QED
    BY <2>1, <2>2
<1>3. ASSUME ~batch, NEW m \in manifest'[Root]
      PROVE  OnRecord(c, m.diagnostics)'
  BY <1>1, <1>3
<1>. QED
  BY <1>2, <1>3 DEF RequestInv

\* A request that goes on to the next step of its attempt: nothing is put on
\* record.
LEMMA SameRecords ==
  ASSUME RunInv, RunTyped', UNCHANGED <<batch, files, stages, fit, ops, manifest>>,
         NEW b \in box \cap RequestBox,
         NEW id, id = <<b.op, Len(b.results) + 1>>, \A a \in Attempt \ {id} : made'[a] = made[a],
         NEW c \in RequestBox, box' = {c}, c.op = b.op, c.held = b.held, c.results = b.results,
         RequestFrame => ResultsInv(c)'
  PROVE  RequestGoal
<1>1. RequestFrame
  BY ManifestsSame DEF RequestFrame, StageBox, RequestBox
<1>2. ASSUME NEW m \in manifest[Root]
      PROVE  RecordsOK(m.diagnostics)'
  <2>1. RecordsOK(m.diagnostics) /\ \A i \in DOMAIN m.diagnostics : m.diagnostics[i].id # id
    BY NewId DEF RunInv, RecordsInv
  <2>. QED
    BY <2>1, RecordsBeside
<1>3. RecordsInv'
  BY <1>2 DEF RecordsInv
<1>4. ResultsInv(c)'
  BY <1>1
<1>5. ASSUME batch
      PROVE  \E h : /\ c.held = {h} /\ RecordsOK(h.diagnostics)' /\ OnRecord(c, h.diagnostics)
                    /\ \A m \in manifest[Root] : Extends(m, h)
  <2>1. PICK h : b.held = {h} /\ InHand = h.diagnostics
    BY <1>5, HandIsManifest DEF InHand
  <2>2. /\ RecordsOK(h.diagnostics) /\ OnRecord(b, h.diagnostics)
        /\ \A m \in manifest[Root] : Extends(m, h)
    BY <1>5, <2>1 DEF RunInv, RequestInv
  <2>3. \A i \in DOMAIN h.diagnostics : h.diagnostics[i].id # id
    BY <2>1, NewId
  <2>4. RecordsOK(h.diagnostics)'
    BY <2>2, <2>3, RecordsBeside
  <2>5. OnRecord(c, h.diagnostics)
    BY <2>2, OnRecordKept
  <2>. QED
    BY <2>1, <2>2, <2>4, <2>5
<1>6. ASSUME ~batch
      PROVE  \A m \in manifest[Root] : OnRecord(c, m.diagnostics)
  BY <1>6, OnRecordKept DEF RunInv, RequestInv
<1>7. RequestInv'
  BY <1>4, <1>5, <1>6, RequestOn
<1>. QED
  BY <1>1, <1>3, <1>7 DEF RequestGoal

\* An attempt that ends: its record goes into the manifest, or waits.
EndsWith(b, r, c) ==
  /\ UNCHANGED <<batch, files, stages, fit, ops>> /\ box' = {c} /\ ManifestsRenewed
  /\ b.step # "read" /\ Len(b.results) < Len(b.jobs)
  /\ r \in Record /\ r.id = <<b.op, Len(b.results) + 1>> /\ r.kind # "report" /\ r.op = {}
  /\ \A a \in Attempt \ {r.id} : made'[a] = made[a]
  /\ r.status \in Good => made[r.id] = "whole" /\ made' = made
  /\ c \in RequestBox /\ c.op = b.op /\ c.jobs = b.jobs /\ c.step = "job" /\ c.results = Append(b.results, r)
  /\ batch => /\ manifest'[Root] = manifest[Root]
              /\ \E h \in b.held : c.held = {h} \/ c.held = {WithRecord(h, r)}
  /\ ~batch => \A n \in manifest'[Root] : \E m \in manifest[Root] : n = WithRecord(m, r)

LEMMA OneRecordMore ==
  ASSUME RunInv, RunTyped', NEW b \in box \cap RequestBox, NEW r, NEW c, EndsWith(b, r, c)
  PROVE  RequestGoal
<1>0. PICK id : id = r.id
  OBVIOUS
<1>1. /\ UNCHANGED <<batch, files, stages, fit, ops>> /\ box' = {c} /\ ManifestsRenewed
      /\ b.step # "read" /\ Len(b.results) < Len(b.jobs)
      /\ r \in Record /\ id = <<b.op, Len(b.results) + 1>> /\ r.id = id /\ r.kind # "report" /\ r.op = {}
      /\ \A a \in Attempt \ {id} : made'[a] = made[a]
      /\ r.status \in Good => made[id] = "whole" /\ made' = made
      /\ c \in RequestBox /\ c.op = b.op /\ c.jobs = b.jobs /\ c.step = "job" /\ c.results = Append(b.results, r)
      /\ batch => /\ manifest'[Root] = manifest[Root]
                  /\ \E h \in b.held : c.held = {h} \/ c.held = {WithRecord(h, r)}
      /\ ~batch => \A n \in manifest'[Root] : \E m \in manifest[Root] : n = WithRecord(m, r)
  BY <1>0 DEF EndsWith
<1>2. RequestFrame
  BY <1>1 DEF RequestFrame, StageBox, RequestBox
<1>3. /\ b.results \in Seq(Record) /\ InHand \in Seq(Record) /\ RecordsOK(InHand) /\ OnRecord(b, InHand)
      /\ manifest[Root] = {ManifestOf(Root)} /\ ManifestOf(Root) \in Manifest
      /\ batch => Held \in Manifest /\ b.held = {Held} /\ InHand = Held.diagnostics
      /\ ~batch => InHand = ManifestOf(Root).diagnostics
  BY HandIsManifest, HandRecords DEF InHand
<1>4. /\ id \in Attempt /\ b.op \in 1..Len(ops) /\ Len(b.results) + 1 # 0
      /\ id[1] = b.op /\ id[2] = Len(b.results) + 1
  BY <1>1, <1>3, UnderWay
<1>5. RecordOK(r)
  BY <1>1, <1>4 DEF RecordOK
<1>6. /\ \A i \in DOMAIN InHand : InHand[i].id # id
      /\ \A m \in manifest[Root] : \A i \in DOMAIN m.diagnostics : m.diagnostics[i].id # id
  BY <1>1, NewId
<1>7. ASSUME NEW s, RecordsOK(s), \A i \in DOMAIN s : s[i].id # id
      PROVE  RecordsOK(s)'
  BY <1>1, <1>7, RecordsBeside
<1>8. PICK s : s = InHand
  OBVIOUS
<1>9. RecordsOK(s)'
  BY <1>3, <1>6, <1>7, <1>8
<1>10. RecordsOK(Append(s, r))' /\ OnRecord(c, Append(s, r)) /\ (batch => OnRecord(c, s))
  <2>1. RecordsOK(Append(s, r))
    BY <1>1, <1>3, <1>5, <1>6, <1>8, RecordsGrow
  <2>2. PICK t : t = Append(s, r)
    OBVIOUS
  <2>3. made' = made \/ \A i \in DOMAIN t : t[i].id = id => t[i].status \notin Good
    <3>1. \A i \in DOMAIN t : t[i] = r \/ (i \in DOMAIN s /\ t[i] = s[i])
      BY <1>1, <1>3, <1>8, <2>2
    <3>. QED
      BY <1>1, <1>6, <1>8, <3>1
  <2>4. RecordsOK(t)'
    BY <1>1, <2>1, <2>2, <2>3, RecordsBeside
  <2>5. OnRecord(c, Append(s, r)) /\ (batch => OnRecord(c, s))
    BY <1>1, <1>3, <1>8, OnRecordGrows
  <2>. QED
    BY <2>2, <2>4, <2>5
<1>11. ResultsInv(c)'
  BY <1>1, <1>2, ResultsCarried
<1>12. CASE batch
  <2>1. RecordsInv'
    BY <1>1, <1>3, <1>6, <1>7, <1>12 DEF RecordsInv, RunInv
  <2>2. PICK h : b.held = {h} /\ h \in Manifest /\ s = h.diagnostics
    BY <1>3, <1>8, <1>12
  <2>3. \A m \in manifest[Root] : Extends(m, h)
    BY <1>12, <2>2 DEF RunInv, RequestInv
  <2>4. /\ WithRecord(h, r).inputs = h.inputs /\ WithRecord(h, r).forecasts = h.forecasts
        /\ WithRecord(h, r).diagnostics = Append(s, r)
    BY <2>2 DEF WithRecord, Manifest
  <2>5. \A m \in manifest[Root] : Extends(m, WithRecord(h, r))
    <3>1. ASSUME NEW m \in manifest[Root]
          PROVE  Extends(m, WithRecord(h, r))
      <4>1. m.diagnostics \in Seq(Record) /\ s \in Seq(Record)
        BY <1>3, <1>8 DEF Manifest
      <4>2. /\ Len(Append(s, r)) = Len(s) + 1 /\ \A i \in DOMAIN s : Append(s, r)[i] = s[i]
        BY <4>1
      <4>3. DOMAIN m.diagnostics \subseteq DOMAIN s
        BY <2>2, <2>3, <4>1 DEF Extends
      <4>. QED
        BY <2>2, <2>3, <2>4, <4>1, <4>2, <4>3 DEF Extends
    <3>. QED
      BY <3>1
  <2>6. c.held = {h} \/ c.held = {WithRecord(h, r)}
    BY <1>1, <1>12, <2>2
  <2>7. CASE c.held = {h}
    <3>1. RecordsOK(h.diagnostics)' /\ OnRecord(c, h.diagnostics)
      BY <1>9, <1>10, <1>12, <2>2
    <3>2. RequestInv'
      BY <1>1, <1>11, <1>12, <2>3, <2>7, <3>1, RequestOn
    <3>. QED
      BY <1>2, <2>1, <3>2 DEF RequestGoal
  <2>8. CASE c.held = {WithRecord(h, r)}
    <3>1. PICK g : g = WithRecord(h, r)
      OBVIOUS
    <3>2. g.diagnostics = Append(s, r) /\ c.held = {g} /\ \A m \in manifest[Root] : Extends(m, g)
      BY <2>4, <2>5, <2>8, <3>1
    <3>3. RecordsOK(g.diagnostics)' /\ OnRecord(c, g.diagnostics)
      BY <1>10, <3>2
    <3>4. RequestInv'
      BY <1>1, <1>11, <1>12, <3>2, <3>3, RequestOn
    <3>. QED
      BY <1>2, <2>1, <3>4 DEF RequestGoal
  <2>. QED
    BY <2>6, <2>7, <2>8
<1>13. CASE ~batch
  <2>1. ASSUME NEW n \in manifest'[Root]
        PROVE  RecordsOK(n.diagnostics)' /\ OnRecord(c, n.diagnostics)
    <3>1. n = WithRecord(ManifestOf(Root), r)
      BY <1>1, <1>3, <1>13
    <3>2. n.diagnostics = Append(s, r)
      BY <1>1, <1>3, <1>8, <1>13, <3>1, WithRecordRenews
    <3>. QED
      BY <1>10, <3>2
  <2>2. RecordsInv'
    BY <2>1 DEF RecordsInv
  <2>3. RequestInv'
    BY <1>1, <1>11, <1>13, <2>1, RequestOn
  <2>. QED
    BY <1>2, <2>2, <2>3 DEF RequestGoal
<1>. QED
  BY <1>12, <1>13

LEMMA RequestEnds ==
  ASSUME RunInv, RunTyped', UNCHANGED <<batch, files, made, stages, fit, ops>>, box' = {}, ManifestsRenewed,
         manifest' = manifest \/ \A n \in manifest'[Root] : RecordsOK(n.diagnostics)
  PROVE  RequestGoal
<1>1. RequestFrame /\ RequestInv'
  BY DEF RequestFrame, RequestInv
<1>2. ASSUME NEW n \in manifest'[Root]
      PROVE  RecordsOK(n.diagnostics)'
  <2>1. RecordsOK(n.diagnostics)
    BY DEF RunInv, RecordsInv
  <2>. QED
    BY <2>1, RecordsBeside
<1>. QED
  BY <1>1, <1>2 DEF RequestGoal, RecordsInv

LEMMA RequestStep ==
  ASSUME RunInv, RunTyped',
         \/ RequestRead \/ RequestDeclined \/ OutputMade \/ OutputWritten
         \/ AttemptEnds \/ AttemptFails \/ ReportWritten
  PROVE  RequestGoal
<1>1. RunTyped
  BY DEF RunInv
<1>2. ASSUME NEW step, Runs("diagnose", step)
      PROVE  Box \in box \cap RequestBox /\ Box.step = step /\ ResultsInv(Box)
  BY <1>1, <1>2, TheBox, BoxSort DEF Runs, RunInv, RequestInv
<1>3. PICK b, id : b = Box /\ id = Current
  OBVIOUS
<1>4. ASSUME NEW c, box' = {c}, c.what = "diagnose"
      PROVE  c \in RequestBox
  BY <1>4 DEF RunTyped, BoxTypeOK, StageBox
<1>5. CASE RequestRead
  <2>1. /\ b \in box \cap RequestBox /\ b.step = "read" /\ ResultsInv(b)
        /\ UNCHANGED <<batch, files, stages, fit, ops, manifest, made>>
    BY <1>2, <1>3, <1>5 DEF RequestRead, Becomes, runFiles, handlerVars
  <2>2. PICK c : c = [b EXCEPT !.step = "job", !.jobs = Jobs(Request)]
    OBVIOUS
  <2>3. /\ box' = {c} /\ c \in RequestBox /\ c.step = "job" /\ c.jobs = Jobs(ops[c.op]) /\ c.op = b.op
        /\ c.results = b.results /\ c.held = b.held /\ b.results = <<>>
    <3>1. box' = {c}
      BY <1>3, <1>5, <2>2 DEF RequestRead, Becomes
    <3>2. /\ c.what = "diagnose" /\ c.step = "job" /\ c.jobs = Jobs(ops[b.op]) /\ c.op = b.op
          /\ c.results = b.results /\ c.held = b.held
      BY <1>3, <2>1, <2>2 DEF RequestBox, Request
    <3>3. b.results = <<>>
      BY <2>1 DEF ResultsInv
    <3>. QED
      BY <1>4, <3>1, <3>2, <3>3
  <2>4. ASSUME RequestFrame
        PROVE  ResultsInv(c)'
    <3>1. c.op = Len(ops) /\ stages' = <<>> /\ manifest'[Root] # {} /\ ops' = ops
      BY <2>1, <2>3 DEF ResultsInv
    <3>2. c.jobs = Jobs(ops[c.op])'
      <4>1. Jobs(ops[c.op])' = Jobs(ops[c.op])
        BY <2>1, JobsSame
      <4>. QED
        BY <2>3, <4>1
    <3>3. c.jobs \in Seq(Job) /\ c.results = <<>> /\ Len(c.results) <= Len(c.jobs)
      BY <2>3 DEF RequestBox
    <3>. QED
      BY <2>3, <3>1, <3>2, <3>3 DEF ResultsInv
  <2>5. PICK new : new = <<b.op, Len(b.results) + 1>>
    OBVIOUS
  <2>. QED
    BY <2>1, <2>3, <2>4, <2>5, SameRecords
<1>6. CASE RequestDeclined
  <2>1. UNCHANGED <<batch, files, made, stages, fit, ops, manifest>> /\ box' = {}
    BY <1>6 DEF RequestDeclined, runFiles, handlerVars
  <2>. QED
    BY <2>1, ManifestsSame, RequestEnds
\* The two steps of an output.
<1>7. ASSUME NEW step \in {"made", "written"}, b \in box \cap RequestBox, b.step # "read",
             Len(b.results) < Len(b.jobs), Becomes([b EXCEPT !.step = step]), UNCHANGED <<files, manifest>>,
             made' = [made EXCEPT ![id] = IF step = "made" THEN "torn" ELSE "whole"]
      PROVE  RequestGoal
  <2>1. UNCHANGED <<batch, files, stages, fit, ops, manifest>>
    BY <1>7 DEF Becomes, handlerVars
  <2>2. PICK c : c = [b EXCEPT !.step = step]
    OBVIOUS
  <2>3. /\ box' = {c} /\ c \in RequestBox /\ c.step = step /\ c.jobs = b.jobs /\ c.op = b.op
        /\ c.results = b.results /\ c.held = b.held
    BY <1>7, <2>2 DEF RequestBox, Becomes
  <2>4. id = <<b.op, Len(b.results) + 1>> /\ id \in Attempt
    BY <1>3, <1>7, UnderWay DEF Current
  <2>5. (\A a \in Attempt \ {id} : made'[a] = made[a]) /\ (step = "written" => made'[id] = "whole")
    BY <1>1, <1>7, <2>4 DEF RunTyped, StoredRunTypeOK
  <2>6. ASSUME RequestFrame
        PROVE  ResultsInv(c)'
    BY <1>7, <2>1, <2>3, <2>4, <2>5, <2>6, ResultsCarried
  <2>. QED
    BY <1>7, <2>1, <2>3, <2>4, <2>5, <2>6, SameRecords
<1>8. CASE OutputMade
  BY <1>2, <1>3, <1>7, <1>8 DEF OutputMade, More
<1>9. CASE OutputWritten
  BY <1>2, <1>3, <1>7, <1>9 DEF OutputWritten, ResultsInv
\* What an attempt that ends is about.
<1>10. ASSUME NEW step \in {"job", "made", "written"}, Runs("diagnose", step), step = "job" => More,
              NEW s \in Good \cup {"failed"}
       PROVE  /\ b \in box \cap RequestBox /\ b.step = step /\ Len(b.results) < Len(b.jobs)
              /\ id = <<b.op, Len(b.results) + 1>> /\ id \in Attempt
              /\ Result(s) \in Record /\ Result(s).id = id /\ Result(s).kind # "report"
              /\ Result(s).op = {} /\ Result(s).status = s /\ manifest[Root] # {}
              /\ ThisJob.window \in Dir /\ manifest[ThisJob.window] # {}
              /\ ~batch => ThisJob.window = Root
              /\ batch /\ ThisJob.kind # "verification" => ThisJob.window # Root
              /\ step = "written" => made[id] = "whole"
  <2>1. b \in box \cap RequestBox /\ b.step = step /\ ResultsInv(b)
    BY <1>2, <1>3, <1>10
  <2>2. Len(b.results) < Len(b.jobs)
    BY <1>3, <1>10, <2>1 DEF ResultsInv, More
  <2>3. /\ id = <<b.op, Len(b.results) + 1>> /\ ThisJob \in Job
        /\ Result(s) \in Record /\ Result(s).id = id /\ Result(s).kind = ThisJob.kind
        /\ Result(s).op = {} /\ Result(s).status = s
    BY <1>1, <1>3, <2>1, <2>2, ResultsMade
  <2>4. /\ <<b.op, Len(b.results) + 1>> \in Attempt /\ manifest[Root] # {}
        /\ ThisJob.window \in Dir /\ manifest[ThisJob.window] # {}
        /\ ~batch => ThisJob.window = Root
        /\ batch /\ ThisJob.kind # "verification" => ThisJob.window # Root
    BY <1>10, <2>1, <2>2, UnderWay
  <2>5. step = "written" => made[id] = "whole"
    BY <2>1, <2>3 DEF ResultsInv
  <2>6. Result(s).kind # "report"
    BY <2>3 DEF Job
  <2>. QED
    BY <2>1, <2>2, <2>3, <2>4, <2>5, <2>6
<1>11. CASE AttemptEnds
  <2>1. PICK s \in Good \cup {"failed"} :
          /\ Becomes([Box EXCEPT !.step = "job", !.results = Append(@, Result(s))])
          /\ IF batch /\ ThisJob.kind = "verification" THEN UNCHANGED manifest
             ELSE Saves(ThisJob.window, WithRecord(ManifestOf(ThisJob.window), Result(s)))
    BY <1>11 DEF AttemptEnds, Good
  <2>2. PICK r, w, c : /\ r = Result(s) /\ w = ThisJob.window
                       /\ c = [b EXCEPT !.step = "job", !.results = Append(b.results, r)]
    OBVIOUS
  <2>3. /\ b \in box \cap RequestBox /\ b.step = "written" /\ Len(b.results) < Len(b.jobs)
        /\ id = <<b.op, Len(b.results) + 1>> /\ id \in Attempt
        /\ r \in Record /\ r.id = id /\ r.kind # "report" /\ r.op = {} /\ manifest[Root] # {}
        /\ w \in Dir /\ manifest[w] # {} /\ (~batch => w = Root)
        /\ (batch /\ ThisJob.kind # "verification" => w # Root)
        /\ made[id] = "whole"
    BY <1>10, <1>11, <2>2 DEF AttemptEnds
  <2>4. UNCHANGED <<batch, files, stages, fit, ops>> /\ made' = made /\ box' = {c}
    BY <1>3, <1>11, <2>1, <2>2 DEF AttemptEnds, Becomes, handlerVars
  <2>5. /\ c \in RequestBox /\ c.step = "job" /\ c.jobs = b.jobs /\ c.op = b.op
        /\ c.results = Append(b.results, r) /\ c.held = b.held
    BY <1>4, <2>2, <2>3, <2>4 DEF RequestBox
  <2>6. CASE batch /\ ThisJob.kind = "verification"
    <3>1. manifest' = manifest
      BY <2>1, <2>6
    <3>2. \E h \in b.held : c.held = {h}
      BY <2>3, <2>5, <2>6, HandIsManifest
    <3>3. EndsWith(b, r, c)
      BY <2>3, <2>4, <2>5, <2>6, <3>1, <3>2, ManifestsSame DEF EndsWith
    <3>. QED
      BY <2>3, <3>3, OneRecordMore
  <2>7. CASE ~(batch /\ ThisJob.kind = "verification")
    <3>1. PICK m, n : m = ManifestOf(w) /\ n = WithRecord(m, r)
      OBVIOUS
    <3>2. Saves(w, n) /\ manifest[w] = {m} /\ m \in Manifest
      BY <1>1, <2>1, <2>2, <2>3, <2>7, <3>1, TheManifest
    <3>3. n \in Manifest /\ Renewed(m, n)
      BY <2>3, <3>1, <3>2, WithRecordRenews
    <3>4. ManifestsRenewed /\ manifest'[w] = {n} /\ \A e \in Dir \ {w} : manifest'[e] = manifest[e]
      BY <1>1, <2>3, <3>1, <3>2, <3>3, ManifestSaved
    <3>5. batch => manifest'[Root] = manifest[Root] /\ \E h \in b.held : c.held = {h}
      BY <2>3, <2>5, <2>7, <3>4, HandIsManifest, WindowsAreDirs
    <3>6. ~batch => \A o \in manifest'[Root] : \E p \in manifest[Root] : o = WithRecord(p, r)
      BY <2>3, <3>1, <3>2, <3>4
    <3>7. EndsWith(b, r, c)
      BY <2>3, <2>4, <2>5, <3>4, <3>5, <3>6 DEF EndsWith
    <3>. QED
      BY <2>3, <3>7, OneRecordMore
  <2>. QED
    BY <2>6, <2>7
<1>12. CASE AttemptFails
  <2>1. PICK r : r = Result("failed")
    OBVIOUS
  <2>2. /\ b \in box \cap RequestBox /\ b.step # "read" /\ Len(b.results) < Len(b.jobs)
        /\ id = <<b.op, Len(b.results) + 1>> /\ id \in Attempt
        /\ r \in Record /\ r.id = id /\ r.kind # "report" /\ r.op = {} /\ r.status = "failed"
        /\ manifest[Root] # {}
    BY <1>10, <1>12, <2>1 DEF AttemptFails
  <2>3. /\ r.status \notin Good
        /\ \A a \in Attempt \ {id} : made'[a] = made[a]
    BY <1>1, <1>3, <1>12, <2>2 DEF AttemptFails, Good, RunTyped, StoredRunTypeOK
  <2>4. UNCHANGED <<batch, files, stages, fit, ops>>
    BY <1>12 DEF AttemptFails, Becomes, handlerVars
  <2>5. CASE batch
    <3>1. PICK h, c : /\ h = Held
                      /\ c = [b EXCEPT !.step = "job", !.results = Append(b.results, r), !.held = {WithRecord(h, r)}]
      OBVIOUS
    <3>2. box' = {c} /\ manifest' = manifest
      BY <1>3, <1>12, <2>1, <2>5, <3>1 DEF AttemptFails, Becomes
    <3>3. /\ c \in RequestBox /\ c.step = "job" /\ c.jobs = b.jobs /\ c.op = b.op
          /\ c.results = Append(b.results, r) /\ c.held = {WithRecord(h, r)}
      BY <1>4, <2>2, <3>1, <3>2 DEF RequestBox
    <3>4. h \in b.held
      BY <2>2, <2>5, <3>1, HandIsManifest
    <3>5. EndsWith(b, r, c)
      BY <2>2, <2>3, <2>4, <2>5, <3>2, <3>3, <3>4, ManifestsSame DEF EndsWith
    <3>. QED
      BY <2>2, <3>5, OneRecordMore
  <2>6. CASE ~batch
    <3>1. PICK m, n, c : /\ m = ManifestOf(Root) /\ n = WithRecord(m, r)
                         /\ c = [b EXCEPT !.step = "job", !.results = Append(b.results, r)]
      OBVIOUS
    <3>2. box' = {c} /\ Saves(Root, n) /\ manifest[Root] = {m} /\ m \in Manifest
      BY <1>1, <1>3, <1>12, <2>1, <2>2, <2>6, <3>1, TheManifest, WindowsAreDirs DEF AttemptFails, Becomes
    <3>3. /\ c \in RequestBox /\ c.step = "job" /\ c.jobs = b.jobs /\ c.op = b.op
          /\ c.results = Append(b.results, r)
      BY <1>4, <2>2, <3>1, <3>2 DEF RequestBox
    <3>4. n \in Manifest /\ Renewed(m, n)
      BY <2>2, <3>1, <3>2, WithRecordRenews
    <3>5. ManifestsRenewed /\ manifest'[Root] = {n}
      BY <1>1, <2>2, <3>1, <3>2, <3>4, ManifestSaved, WindowsAreDirs
    <3>6. \A o \in manifest'[Root] : \E p \in manifest[Root] : o = WithRecord(p, r)
      BY <3>1, <3>2, <3>5
    <3>7. EndsWith(b, r, c)
      BY <2>2, <2>3, <2>4, <2>6, <3>2, <3>3, <3>5, <3>6 DEF EndsWith
    <3>. QED
      BY <2>2, <3>7, OneRecordMore
  <2>. QED
    BY <2>5, <2>6
<1>13. CASE ReportWritten
  <2>1. b \in box \cap RequestBox /\ b.step = "job" /\ ResultsInv(b) /\ ~(Len(b.results) < Len(b.jobs))
    BY <1>2, <1>3, <1>13 DEF ReportWritten, More
  <2>2. PICK v, m : v = Append(Ready, Report(b.results, b.op)) /\ m = ReadAgain
    OBVIOUS
  <2>3. PICK n : Saves(Root, n) /\ \E status \in {"succeeded", "partial"} :
                   n = [m EXCEPT !.status = status, !.diagnostics = v]
    BY <1>3, <1>13, <2>2 DEF ReportWritten, Ready, InHand
  <2>4. /\ m \in Manifest /\ v \in Seq(Record) /\ manifest[Root] = {ManifestOf(Root)}
        /\ m.inputs = ManifestOf(Root).inputs /\ m.forecasts = ManifestOf(Root).forecasts
        /\ DOMAIN ManifestOf(Root).diagnostics \subseteq DOMAIN InHand
        /\ \A i \in DOMAIN ManifestOf(Root).diagnostics : ManifestOf(Root).diagnostics[i] = InHand[i]
    BY <2>1, <2>2, HandIsManifest, HandRecords, ReadyMade
  <2>5. /\ n \in Manifest /\ n.inputs = m.inputs /\ n.forecasts = m.forecasts /\ n.diagnostics = v
    <3>1. PICK status \in {"succeeded", "partial"} : n = [m EXCEPT !.status = status, !.diagnostics = v]
      BY <2>3
    <3>2. n \in Manifest
      BY <2>4, <3>1, ManifestsMade
    <3>. QED
      BY <2>4, <3>1, <3>2 DEF Manifest
  <2>6. Continues(ManifestOf(Root).diagnostics, v)
    <3>1. /\ DOMAIN InHand \subseteq DOMAIN v
          /\ \A i \in DOMAIN InHand :
               v[i] = IF InHand[i].id[1] = b.op THEN [InHand[i] EXCEPT !.op = {b.op}] ELSE InHand[i]
      BY <2>1, <2>2, ReadyExtends
    <3>2. \A i \in DOMAIN InHand : InHand[i].id[1] = b.op => InHand[i].op = {}
      <4>1. \A i \in DOMAIN InHand : InHand[i].id[1] = b.op =>
              InHand[i].id[2] \in DOMAIN b.results /\ InHand[i] = b.results[InHand[i].id[2]]
        BY <2>1, HandRecords DEF OnRecord
      <4>2. \A k \in DOMAIN b.results : b.results[k].op = {}
        BY <2>1 DEF ResultsInv
      <4>. QED
        BY <4>1, <4>2
    <3>3. b.op \in Nat
      BY <2>1, HandIsManifest
    <3>4. \A i \in DOMAIN InHand :
            v[i] = InHand[i] \/ (InHand[i].op = {} /\ \E o \in Nat : v[i] = [InHand[i] EXCEPT !.op = {o}])
      BY <3>1, <3>2, <3>3
    <3>5. PICK s : s = ManifestOf(Root).diagnostics
      OBVIOUS
    <3>6. DOMAIN s \subseteq DOMAIN InHand /\ \A i \in DOMAIN s : s[i] = InHand[i]
      BY <2>4, <3>5
    <3>7. \A i \in DOMAIN s :
            v[i] = s[i] \/ (s[i].op = {} /\ \E o \in Nat : v[i] = [s[i] EXCEPT !.op = {o}])
      BY <3>4, <3>6, Zenon
    <3>. QED
      BY <3>1, <3>5, <3>6, <3>7 DEF Continues
  <2>7. ManifestsRenewed /\ manifest'[Root] = {n}
    BY <1>1, <2>3, <2>4, <2>5, <2>6, ManifestSaved, WindowsAreDirs DEF Renewed
  <2>8. Len(b.results) = Len(b.jobs)
    <3>1. b.results \in Seq(Record) /\ b.jobs \in Seq(Job) /\ Len(b.results) <= Len(b.jobs)
      BY <2>1 DEF ResultsInv, RequestBox
    <3>. QED
      BY <2>1, <3>1
  <2>9. RecordsOK(v)
    BY <2>1, <2>2, <2>8, Reported
  <2>10. UNCHANGED <<batch, files, made, stages, fit, ops>> /\ box' = {}
    BY <1>13 DEF ReportWritten, handlerVars
  <2>. QED
    BY <2>5, <2>7, <2>9, <2>10, RequestEnds
<1>. QED
  BY <1>5, <1>6, <1>8, <1>9, <1>11, <1>12, <1>13

\* A new request: nothing on record has its number.
LEMMA RequestStarts ==
  ASSUME RunInv, RunTyped', NEW metrics \in BOOLEAN, NEW maps \in SUBSET Model, DiagnosticsStart(metrics, maps)
  PROVE  RequestGoal
<1>1. RunTyped /\ FilesTyped /\ PlanTyped /\ PlanTyped'
  BY TypeParts DEF RunInv, RunTyped, StoredRunTypeOK, PlanTyped, Stage, AnyRequest
<1>2. PICK c : c = [what |-> "diagnose", step |-> "read", op |-> Len(ops) + 1, held |-> manifest[Root],
                    jobs |-> <<>>, results |-> <<>>]
  OBVIOUS
<1>3. /\ box' = {c} /\ UNCHANGED <<batch, files, made, stages, fit, manifest>>
      /\ stages = <<>> /\ manifest[Root] # {} /\ ops' = Append(ops, [metrics |-> metrics, maps |-> maps])
  BY <1>2 DEF DiagnosticsStart, runFiles
<1>4. /\ c \in RequestBox /\ c.step = "read" /\ c.op = Len(ops) + 1 /\ c.results = <<>>
      /\ c.held = manifest[Root]
  <2>1. c.what = "diagnose"
    BY <1>2
  <2>. QED
    BY <1>2, <1>3, <2>1 DEF RunTyped, BoxTypeOK, StageBox
<1>5. /\ Len(ops') = Len(ops) + 1 /\ Len(ops) \in Nat /\ ops \in Seq(AnyRequest) /\ ops' \in Seq(AnyRequest)
      /\ \A o \in 1..Len(ops) : ops'[o] = ops[o]
  BY <1>1, <1>3 DEF PlanTyped
<1>6. RequestFrame
  BY <1>3, <1>4, ManifestsSame DEF RequestFrame, StageBox, RequestBox
<1>7. ASSUME NEW m \in manifest[Root]
      PROVE  RecordsOK(m.diagnostics)' /\ OnRecord(c, m.diagnostics)
  <2>1. RecordsOK(m.diagnostics)
    BY DEF RunInv, RecordsInv
  <2>2. \A i \in DOMAIN m.diagnostics :
          m.diagnostics[i].kind # "report" /\ m.diagnostics[i].status \in Good
            => made'[m.diagnostics[i].id] = "whole"
    BY <1>3, <2>1 DEF RecordsOK, RecordOK
  <2>3. RecordsOK(m.diagnostics)'
    BY <1>3, <1>5, <2>1, <2>2, RecordsCarried
  <2>4. \A i \in DOMAIN m.diagnostics : m.diagnostics[i].id[1] # c.op
    <3>1. \A i \in DOMAIN m.diagnostics : m.diagnostics[i].id[1] \in 1..Len(ops)
      BY <2>1 DEF RecordsOK, RecordOK
    <3>. QED
      BY <1>4, <1>5, <3>1
  <2>. QED
    BY <1>4, <2>3, <2>4 DEF OnRecord
<1>8. RecordsInv'
  BY <1>3, <1>7 DEF RecordsInv
<1>9. ResultsInv(c)'
  BY <1>3, <1>4, <1>5 DEF ResultsInv
<1>10. PICK m : manifest[Root] = {m}
  BY <1>1, <1>3, TheManifest, WindowsAreDirs
<1>11. m \in Manifest /\ Extends(m, m)
  <2>1. m \in Manifest
    BY <1>1, <1>10, WindowsAreDirs DEF FilesTyped
  <2>2. Len(m.diagnostics) \in Nat
    BY <2>1 DEF Manifest
  <2>. QED
    BY <2>1, <2>2 DEF Extends
<1>12. RequestInv'
  BY <1>3, <1>4, <1>7, <1>9, <1>10, <1>11, RequestOn
<1>. QED
  BY <1>6, <1>8, <1>12 DEF RequestGoal

\* A container that is killed.
LEMMA KilledTyped ==
  ASSUME RunInv, Killed
  PROVE  RunTyped'
<1>1. RunTyped /\ FilesTyped /\ PlanTyped
  BY TypeParts DEF RunInv
<1>2. PICK b \in box : b = Box
  BY <1>1, TheBox DEF Killed
<1>3. FilesTyped'
  BY <1>1 DEF Killed, runFiles, FilesTyped
<1>4. PlanTyped' /\ box' = {}
  <2>1. CASE b.what = "diagnose"
    BY <1>1, <1>2, <2>1 DEF Killed, handlerVars, PlanTyped
  <2>2. CASE b.what # "diagnose"
    <3>1. b \in box \cap StageBox /\ StageEnds(FALSE)
      BY <1>1, <1>2, <2>2, BoxSort DEF Killed
    <3>2. /\ box' = {} /\ batch' = batch /\ ops' = ops /\ fit' \in Seq(Dir) /\ stages' \in Seq(Stage)
      BY <1>1, <3>1, StageEndsEffect
    <3>. QED
      BY <1>1, <3>2 DEF PlanTyped
  <2>. QED
    BY <2>1, <2>2
<1>5. BoxTypeOK'
  BY <1>4, NoBoxTyped
<1>. QED
  BY <1>3, <1>4, <1>5 DEF RunTyped, StoredRunTypeOK, FilesTyped, PlanTyped, Stage, AnyRequest, OneAtMost

LEMMA KilledStep ==
  ASSUME RunInv, RunTyped', Killed
  PROVE  StageGoal \/ RequestGoal
<1>1. RunTyped
  BY DEF RunInv
<1>2. PICK b \in box : b = Box
  BY <1>1, TheBox DEF Killed
<1>3. CASE b.what = "diagnose"
  <2>1. UNCHANGED <<batch, files, made, stages, fit, ops, manifest>> /\ box' = {}
    BY <1>2, <1>3 DEF Killed, runFiles, handlerVars
  <2>. QED
    BY <2>1, ManifestsSame, RequestEnds
<1>4. CASE b.what # "diagnose"
  <2>1. b \in box \cap StageBox /\ StageEnds(FALSE) /\ UNCHANGED runFiles
    BY <1>1, <1>2, <1>4, BoxSort DEF Killed
  <2>. QED
    BY <2>1, StageEndsPlain
<1>. QED
  BY <1>3, <1>4

-----------------------------------------------------------------------------
(***************************************************************************)
(* The invariant holds, and what is on record stays.                       *)
(***************************************************************************)
\* Every step leaves the types, and is of one of the two sorts.
LEMMA RunStep ==
  ASSUME RunInv, RunNext
  PROVE  RunTyped' /\ (StageGoal \/ RequestGoal)
<1>1. CASE \/ StageStarts \/ BatchPublished \/ HandlerDies \/ StageDeclines \/ CubeOpened
           \/ CubeFilled \/ CubeFails \/ RunCreated \/ ForecastAdded
  BY <1>1, StageTyped, StageStep
<1>2. CASE \/ RequestRead \/ RequestDeclined \/ OutputMade \/ OutputWritten
           \/ AttemptEnds \/ AttemptFails \/ ReportWritten
  BY <1>2, RequestTyped, RequestStep
<1>3. CASE \E metrics \in BOOLEAN, maps \in SUBSET Model : DiagnosticsStart(metrics, maps)
  BY <1>3, RequestTyped, RequestStarts
<1>4. CASE Killed
  BY <1>4, KilledTyped, KilledStep
<1>. QED
  BY <1>1, <1>2, <1>3, <1>4 DEF RunNext

LEMMA RunInvStep ==
  ASSUME RunInv, [RunNext]_runVars
  PROVE  RunInv'
<1>1. CASE RunNext
  <2>1. RunTyped' /\ (StageGoal \/ RequestGoal)
    BY <1>1, RunStep
  <2>2. CASE StageGoal
    BY <2>1, <2>2, RecordsThroughStages DEF StageGoal, RunInv
  <2>3. CASE RequestGoal
    BY <2>1, <2>3, FrameKeeps DEF RequestGoal, RunInv
  <2>. QED
    BY <2>1, <2>2, <2>3
<1>2. CASE UNCHANGED runVars
  <2>1. UNCHANGED <<batch, files, manifest, made, stages, fit, ops, box>> /\ Windows' = Windows
    BY <1>2 DEF runVars, runFiles, handlerVars, Windows
  <2>2. RunTyped'
    BY <2>1 DEF RunInv, RunTyped, StoredRunTypeOK, BoxTypeOK
  <2>3. StagesInv' /\ StageBoxInv' /\ ArraysWhole'
    <3>1. StagesInv'
      BY <2>1 DEF RunInv, StagesInv
    <3>2. StageBoxInv'
      BY <2>1 DEF RunInv, StageBoxInv, Whole
    <3>3. ArraysWhole'
      BY <2>1 DEF RunInv, ArraysWhole, Whole
    <3>. QED
      BY <3>1, <3>2, <3>3
  <2>4. ASSUME NEW s, RecordsOK(s)
        PROVE  RecordsOK(s)'
    BY <2>1, <2>2, <2>4, RecordsBeside
  <2>5. RecordsInv'
    BY <2>1, <2>4 DEF RunInv, RecordsInv
  <2>6. ASSUME NEW b \in box \cap RequestBox
        PROVE  /\ ResultsInv(b)'
               /\ batch => /\ b.held # {}
                           /\ \A h \in b.held : /\ RecordsOK(h.diagnostics)' /\ OnRecord(b, h.diagnostics)'
                                                /\ \A m \in manifest[Root] : Extends(m, h)
               /\ ~batch => \A m \in manifest[Root] : OnRecord(b, m.diagnostics)'
    <3>1. Jobs(ops[b.op])' = Jobs(ops[b.op])
      BY <2>1, JobsSame
    <3>2. ResultsInv(b)'
      BY <2>1, <3>1 DEF RunInv, RequestInv, ResultsInv
    <3>3. \A s : OnRecord(b, s) => OnRecord(b, s)'
      BY <2>1 DEF OnRecord
    <3>. QED
      BY <2>4, <3>2, <3>3 DEF RunInv, RequestInv
  <2>7. RequestInv'
    BY <2>1, <2>6 DEF RequestInv
  <2>. QED
    BY <2>2, <2>3, <2>5, <2>7 DEF RunInv
<1>. QED
  BY <1>1, <1>2

LEMMA RunInvInit ==
  ASSUME RunInit
  PROVE  RunInv
<1>1. /\ files = [f \in Dir \X (Input \cup Model) |-> "none"] /\ manifest = [d \in Dir |-> {}]
      /\ made = [a \in Attempt |-> "none"] /\ stages = Stages /\ fit = <<>> /\ ops = <<>> /\ box = {}
      /\ batch \in BOOLEAN
  BY DEF RunInit
<1>2. RunTyped
  <2>1. stages \in Seq(Stage)
    BY <1>1, StagesAtFirst DEF Stage
  <2>2. FilesTyped
    BY <1>1 DEF FilesTyped, OneAtMost
  <2>3. PlanTyped
    BY <1>1, <2>1, StoredRunAssumption DEF PlanTyped
  <2>4. BoxTypeOK
    BY <1>1 DEF BoxTypeOK, OneAtMost
  <2>. QED
    BY <2>2, <2>3, <2>4, TypeParts
<1>3. StagesInv
  <2>1. \A k \in DOMAIN stages : stages[k].dir \in Windows /\ manifest[stages[k].dir] = {}
    BY <1>1, StagesAtFirst, WindowsAreDirs
  <2>2. \A j, k \in DOMAIN stages :
          stages[j].name = "context" /\ stages[k].name = "context" /\ stages[j].dir = stages[k].dir
            => j = k
    BY <1>1, StagesAtFirst
  <2>3. manifest[Root] = {} /\ DOMAIN fit = {}
    BY <1>1, WindowsAreDirs
  <2>. QED
    BY <2>1, <2>2, <2>3 DEF StagesInv
<1>4. StageBoxInv /\ RequestInv
  BY <1>1 DEF StageBoxInv, RequestInv
<1>5. ArraysWhole /\ RecordsInv
  BY <1>1, WindowsAreDirs DEF ArraysWhole, RecordsInv
<1>. QED
  BY <1>2, <1>3, <1>4, <1>5 DEF RunInv

\* The inductive invariant: in every state of the run's directory.
THEOREM RunInvHolds == RunSpec => []RunInv
<1>1. RunInit => RunInv
  BY RunInvInit
<1>2. RunInv /\ [RunNext]_runVars => RunInv'
  BY RunInvStep
<1>. QED
  BY <1>1, <1>2, PTL DEF RunSpec

\* Types, in every state: of the files, the manifests and the Handler's plan.
THEOREM StoredRunTypeCorrect == RunSpec => []StoredRunTypeOK
<1>1. RunInv => StoredRunTypeOK
  BY DEF RunInv, RunTyped
<1>. QED
  BY <1>1, RunInvHolds, PTL

\* The records of a kind, model and window that succeeded.
Alike(s, kind, model, window) ==
  {i \in 1..Len(s) : s[i].kind = kind /\ s[i].model = model /\ s[i].window = window /\ s[i].status \in Good}

\* The page shows the last of them.
LEMMA NewestIsLast ==
  ASSUME NEW s \in Seq(Record), NEW kind, NEW model, NEW window
  PROVE  /\ Alike(s, kind, model, window) = {} => Newest(s, kind, model, window) = 0
         /\ Alike(s, kind, model, window) # {} =>
              /\ Newest(s, kind, model, window) \in Alike(s, kind, model, window)
              /\ \A i \in Alike(s, kind, model, window) : i <= Newest(s, kind, model, window)
<1> DEFINE I == Alike(s, kind, model, window)
<1>1. Newest(s, kind, model, window) = IF I # {} THEN Max(I) ELSE 0
  BY DEF Newest, SelectLastInSeq, Alike
<1>2. I \in SUBSET (1..Len(s)) /\ Len(s) \in Nat
  BY DEF Alike
<1>. HIDE DEF I
<1>3. I # {} => Max(I) \in I /\ \A i \in I : i <= Max(I)
  BY <1>2, LastPlace
<1>. QED
  BY <1>1, <1>3 DEF I

LEMMA ShownIsGood ==
  ASSUME NEW m \in Manifest, NEW i \in Shown(m), NEW s, s = m.diagnostics
  PROVE  /\ i \in DOMAIN s /\ s[i].kind # "report" /\ s[i].status \in Good
         /\ i \in Alike(s, s[i].kind, s[i].model, s[i].window)
<1>1. s \in Seq(Record) /\ DOMAIN s = 1..Len(s)
  BY DEF Manifest
<1>2. i \in DOMAIN s /\ s[i].kind # "report" /\ i = Newest(s, s[i].kind, s[i].model, s[i].window)
  BY DEF Shown
<1>3. i # 0
  BY <1>1, <1>2
<1>4. i \in Alike(s, s[i].kind, s[i].model, s[i].window)
  BY <1>1, <1>2, <1>3, NewestIsLast
<1>. QED
  BY <1>2, <1>4 DEF Alike

\* As records go on, there is still something to show, the same or newer.
LEMMA ShownContinues ==
  ASSUME NEW m \in Manifest, NEW n \in Manifest, Continues(m.diagnostics, n.diagnostics), NEW i \in Shown(m)
  PROVE  \E k \in Shown(n) :
           /\ k >= i /\ n.diagnostics[k].kind = m.diagnostics[i].kind
           /\ n.diagnostics[k].model = m.diagnostics[i].model
           /\ n.diagnostics[k].window = m.diagnostics[i].window
<1>1. PICK s, t, r : s = m.diagnostics /\ t = n.diagnostics /\ r = s[i]
  OBVIOUS
<1>2. s \in Seq(Record) /\ t \in Seq(Record) /\ DOMAIN t = 1..Len(t) /\ Len(t) \in Nat
  BY <1>1 DEF Manifest
<1>3. i \in DOMAIN s /\ r.kind # "report" /\ r.status \in Good /\ r \in Record
  BY <1>1, <1>2, ShownIsGood
<1>4. i \in DOMAIN t /\ (t[i] = r \/ \E o \in Nat : t[i] = [r EXCEPT !.op = {o}])
  BY <1>1, <1>3 DEF Continues
<1>5. t[i].kind = r.kind /\ t[i].model = r.model /\ t[i].window = r.window /\ t[i].status = r.status
  BY <1>3, <1>4 DEF Record
<1>6. PICK k : k = Newest(t, r.kind, r.model, r.window)
  OBVIOUS
<1>7. i \in Alike(t, r.kind, r.model, r.window)
  BY <1>2, <1>3, <1>4, <1>5 DEF Alike
<1>8. k \in Alike(t, r.kind, r.model, r.window) /\ i <= k
  BY <1>2, <1>6, <1>7, NewestIsLast
<1>9. k \in DOMAIN t /\ t[k].kind = r.kind /\ t[k].model = r.model /\ t[k].window = r.window
  BY <1>2, <1>8 DEF Alike
<1>10. k \in Shown(n)
  BY <1>1, <1>3, <1>6, <1>9 DEF Shown
<1>11. k >= i
  BY <1>2, <1>4, <1>8, <1>9
<1>. QED
  BY <1>1, <1>9, <1>10, <1>11

LEMMA NothingIsLost ==
  ASSUME NEW m \in Manifest, NEW n \in Manifest, m.inputs \subseteq n.inputs, m.forecasts \subseteq n.forecasts,
         Continues(m.diagnostics, n.diagnostics)
  PROVE  NothingLost(m, n)
<1>1. PICK s, t : s = m.diagnostics /\ t = n.diagnostics
  OBVIOUS
<1>2. s \in Seq(Record) /\ t \in Seq(Record)
  BY <1>1 DEF Manifest
<1>3. DOMAIN s \subseteq DOMAIN t
  BY <1>1 DEF Continues
<1>4. Len(s) <= Len(t)
  <2>1. Len(s) \in Nat /\ Len(t) \in Nat /\ 1..Len(s) \subseteq 1..Len(t)
    BY <1>2, <1>3
  <2>2. Len(s) = 0 \/ Len(s) \in 1..Len(t)
    BY <2>1
  <2>. QED
    BY <2>1, <2>2
<1>5. ASSUME NEW i \in DOMAIN s
      PROVE  SameAttempt(s[i], t[i])
  <2>1. PICK r : r = s[i] /\ r \in Record
    BY <1>2
  <2>2. CASE t[i] = r
    BY <2>1, <2>2 DEF SameAttempt
  <2>3. CASE r.op = {} /\ \E o \in Nat : t[i] = [r EXCEPT !.op = {o}]
    <3>1. PICK o \in Nat : t[i] = [r EXCEPT !.op = {o}]
      BY <2>3
    <3>2. [t[i] EXCEPT !.op = {}] = [r EXCEPT !.op = {}]
      BY <2>1, <3>1 DEF Record
    <3>3. [r EXCEPT !.op = {}] = r
      BY <2>1, <2>3 DEF Record
    <3>. QED
      BY <2>1, <2>3, <3>2, <3>3 DEF SameAttempt
  <2>. QED
    BY <1>1, <2>1, <2>2, <2>3 DEF Continues
<1>6. \A i \in Shown(m) : \E k \in Shown(n) :
        /\ k >= i /\ n.diagnostics[k].kind = m.diagnostics[i].kind
        /\ n.diagnostics[k].model = m.diagnostics[i].model
        /\ n.diagnostics[k].window = m.diagnostics[i].window
  BY ShownContinues
<1>. QED
  BY <1>1, <1>4, <1>5, <1>6 DEF NothingLost

\* Whatever container is killed or fails wherever: an array that a manifest
\* registers is whole, and so is the output of every attempt the page shows.
THEOREM RegisteredIsWholeHolds == RunSpec => []RegisteredIsWhole
<1>1. ASSUME RunInv
      PROVE  RegisteredIsWhole
  <2>1. \A d \in Windows : \A m \in manifest[d] : \A n \in m.inputs \cup m.forecasts : ArrayAt(d, n) = "whole"
    BY <1>1 DEF RunInv, ArraysWhole, Whole, ArrayAt
  <2>2. ASSUME NEW m \in manifest[Root], NEW i \in Shown(m)
        PROVE  made[m.diagnostics[i].id] = "whole"
    <3>1. m \in Manifest
      BY <1>1, WindowsAreDirs DEF RunInv, RunTyped, StoredRunTypeOK
    <3>2. i \in DOMAIN m.diagnostics /\ m.diagnostics[i].kind # "report" /\ m.diagnostics[i].status \in Good
      BY <3>1, ShownIsGood
    <3>3. RecordOK(m.diagnostics[i])
      BY <1>1, <3>2 DEF RunInv, RecordsInv, RecordsOK
    <3>. QED
      BY <3>2, <3>3 DEF RecordOK
  <2>. QED
    BY <2>1, <2>2 DEF RegisteredIsWhole
<1>. QED
  BY <1>1, RunInvHolds, PTL

\* Every report holds exactly the attempts of its request, one for each product
\* asked for, and says succeeded only if all of them did.
THEOREM ReportIsExactHolds == RunSpec => []ReportIsExact
<1>1. ASSUME RunInv, NEW m \in manifest[Root], NEW i \in DOMAIN m.diagnostics,
             m.diagnostics[i].kind = "report", NEW s, s = m.diagnostics
      PROVE  /\ s[i].ids = {s[k].id : k \in Mine(s, s[i].op)}
             /\ Cardinality(Mine(s, s[i].op)) = Len(Jobs(ops[CHOOSE o \in s[i].op : TRUE]))
             /\ s[i].status = "succeeded" <=> \A k \in Mine(s, s[i].op) : s[k].status = "succeeded"
  <2>1. RecordOK(s[i]) /\ ExactAt(s, i)
    BY <1>1 DEF RunInv, RecordsInv, RecordsOK
  <2>2. s[i].op = {s[i].id[1]}
    BY <1>1, <2>1 DEF RecordOK
  <2>3. (CHOOSE o \in s[i].op : TRUE) = s[i].id[1]
    BY <2>2
  <2>. QED
    BY <1>1, <2>1, <2>3 DEF ExactAt
<1>2. RunInv => ReportIsExact
  BY <1>1 DEF ReportIsExact, Mine
<1>. QED
  BY <1>2, RunInvHolds, PTL

\* No step takes anything off the record: arrays, attempts and what is shown of
\* each model and window stay, or are followed by newer ones.
THEOREM RecordStaysHolds == RunSpec => RecordStays
<1>1. ASSUME RunInv, RunInv', RunNext, NEW d \in Dir, NEW m \in manifest[d]
      PROVE  \E n \in manifest'[d] : NothingLost(m, n)
  <2>1. m \in Manifest /\ \A n \in manifest'[d] : n \in Manifest
    BY <1>1 DEF RunInv, RunTyped, StoredRunTypeOK
  <2>2. PICK n \in manifest'[d] : m.inputs \subseteq n.inputs /\ m.forecasts \subseteq n.forecasts
                                  /\ Continues(m.diagnostics, n.diagnostics)
    <3>1. CASE StageGoal
      BY <1>1, <3>1, ContinuesSame DEF StageGoal, StageEffect, Keeps
    <3>2. CASE RequestGoal
      BY <1>1, <3>2 DEF RequestGoal, RequestFrame, ManifestsRenewed, Renewed
    <3>. QED
      BY <1>1, <3>1, <3>2, RunStep
  <2>. QED
    BY <2>1, <2>2, NothingIsLost
<1>2. RunInv /\ RunInv' /\ [RunNext]_runVars =>
        [\A d \in Dir : \A m \in manifest[d] : \E n \in manifest'[d] : NothingLost(m, n)]_runVars
  BY <1>1
<1>. QED
  BY <1>2, RunInvHolds, PTL DEF RunSpec, RecordStays
=============================================================================

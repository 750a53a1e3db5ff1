------------------------------- MODULE Catalog -------------------------------
(***************************************************************************)
(* What the platform ships: package manifests as nib_verify reads them     *)
(* (catalog/packages.py), the check of a data and a model package against  *)
(* each other (catalog/matching.py), and what the review server derives    *)
(* from them for a config (server/app.py).                                 *)
(*                                                                         *)
(* A manifest is a document whose keys may all be absent, so a value in it *)
(* is a set of at most one element. Names, units, profiles and shapes are  *)
(* model values; a document is what a parser gives, and a number that does *)
(* not parse is absent.                                                    *)
(***************************************************************************)
EXTENDS Naturals, Sequences, SequencesExt, FiniteSets

Opt(S) == {{}} \cup {{x} : x \in S}
The(o) == CHOOSE x \in o : TRUE

\* The first of the specs s that declares something, as get says.
FirstDeclared(s, get(_)) ==
  LET declaring == {i \in 1..Len(s) : get(s[i]) # {}}
  IN IF declaring = {} THEN {} ELSE get(s[CHOOSE i \in declaring : \A j \in declaring : i <= j])

\* The first of s that is as wanted, or none.
FirstThat(s, wanted(_)) ==
  LET those == {i \in 1..Len(s) : wanted(s[i])}
  IN {s[i] : i \in {k \in those : \A j \in those : k <= j}}

Or(o, other) == IF o # {} THEN o ELSE other
Positive(o) == {n \in o : n > 0}  \* 0 is as good as absent
-----------------------------------------------------------------------------
(***************************************************************************)
(* Files under the roots, for manifests and for run configs. A file is the *)
(* real file it resolves to and what comes of it: it cannot be read or     *)
(* decoded, does not parse, is another project's document, one of ours     *)
(* that is malformed, or ours.                                             *)
(***************************************************************************)
FilesUnder(roots) ==
  FlattenSeq([i \in 1..Len(roots) |-> IF roots[i].exists THEN roots[i].files ELSE <<>>])

FirstSeenSlip(files) == files  \* two roots that overlap

\* Each real file once, where it is seen first.
FirstSeen(files) ==
  LET new == {i \in 1..Len(files) : \A j \in 1..i - 1 : files[j].real # files[i].real}
  IN [k \in 1..Cardinality(new) |->
        files[CHOOSE i \in new : Cardinality({j \in new : j <= i}) = k]]

Book(roots, reported) ==
  LET files == FirstSeen(FilesUnder(roots))
  IN [found   |-> SelectSeq(files, LAMBDA f : f.holds = "ours"),
      skipped |-> Cardinality({i \in 1..Len(roots) : ~roots[i].exists})
                  + Len(SelectSeq(files, LAMBDA f : f.holds \in reported))]

\* packages.discover: foreign documents are ignored, broken ones reported.
DiscoverPackages(roots) == Book(roots, {"unreadable", "unparsable", "malformed"})

\* runs.discover: what does not parse may be any file of that suffix, and a file
\* that cannot be read or decoded ends the discovery, which then gives no book.
DiscoverRuns(roots) ==
  IF \E f \in ToSet(FilesUnder(roots)) : f.holds = "unreadable" THEN {}
  ELSE {Book(roots, {"malformed"})}

\* Each run config and manifest under the roots is taken, and once, although
\* roots overlap and link to each other, unless a file that cannot be read leaves
\* no book of runs; the order of the roots decides neither that nor what is taken
\* and reported (catalog/packages.py, catalog/runs.py).
TakenOnce(roots) ==
  LET packages(rs) == {DiscoverPackages(rs)}
      reals(book) == [i \in 1..Len(book.found) |-> book.found[i].real]
      gist(books) == {[taken |-> ToSet(reals(b)), skipped |-> b.skipped] : b \in books}
      ours == {f.real : f \in {g \in ToSet(FilesUnder(roots)) : g.holds = "ours"}}
  IN /\ \A book \in packages(roots) \cup DiscoverRuns(roots) :
          IsInjective(reals(book)) /\ ToSet(reals(book)) = ours
     /\ gist(packages(roots)) = gist(packages(Reverse(roots)))
     /\ gist(DiscoverRuns(roots)) = gist(DiscoverRuns(Reverse(roots)))
-----------------------------------------------------------------------------
(***************************************************************************)
(* One manifest.                                                           *)
(***************************************************************************)
Kind(p) ==
  CASE p.offers # {} /\ p.requires = {} -> "data"
    [] p.offers = {} /\ p.requires # {} -> "model"
    [] OTHER -> "unknown"

AllFields(p) == p.fields \o p.input \o p.output
Cadence(p) ==
  Positive(Or(FirstDeclared(AllFields(p), LAMBDA f : Positive(f.cadence)), p.cadence))

\* ruler_defaults: the first named field, and what it or the package declares.
PrimaryField(p) ==
  Or(FirstThat(AllFields(p), LAMBDA f : f.name # {}), FirstThat(AllFields(p), LAMBDA f : TRUE))

RulerDefaults(p) ==
  LET field == PrimaryField(p)
  IN [unit |-> UNION {f.unit : f \in field},
      step |-> Cadence(p),
      extent |-> Or(p.extent, UNION {f.extent : f \in field})]

\* Catalog.problems, for a catalog of the packages in ps, in order.
CatalogProblems(ps) ==
  {<<"duplicate", i>> : i \in {k \in 1..Len(ps) : \E j \in 1..k - 1 : ps[j].id = ps[k].id}}
  \cup {<<"neither", i>> : i \in {k \in 1..Len(ps) : Kind(ps[k]) = "unknown"}}
  \cup {<<"no fields", i>> : i \in {k \in 1..Len(ps) : Kind(ps[k]) = "data" /\ ps[k].fields = <<>>}}
  \cup {<<"no input", i>> :
          i \in {k \in 1..Len(ps) : Kind(ps[k]) = "model" /\ ps[k].input \o ps[k].fields = <<>>}}
  \cup {<<"no output", i>> : i \in {k \in 1..Len(ps) : Kind(ps[k]) = "model" /\ ps[k].output = <<>>}}

\* Catalog.get: the first package of that id.
Get(ps, id) == FirstThat(ps, LAMBDA p : p.id = id)
-----------------------------------------------------------------------------
(***************************************************************************)
(* check_pair: hard errors and warnings. The lookups are matching.py's.    *)
(***************************************************************************)
OrFields(s, other) == IF s # <<>> THEN s ELSE other
Frames(s) == FirstDeclared(s, LAMBDA f : f.frames)
Shape(p, s) == Or(FirstDeclared(s, LAMBDA f : f.shape), p.shape)
UnitOf(s) == FirstDeclared(s, LAMBDA f : IF f.name # {} THEN f.unit ELSE {})
Names(s) == UNION {f.name : f \in ToSet(s)}

Missing(data, model) ==
  LET inputs == Names(model.input)
      wanted == IF inputs # {} THEN inputs ELSE Names(model.fields)
      have == Names(data.fields)
  IN IF have = {} THEN {} ELSE wanted \ have

Differ(a, b) == a # {} /\ b # {} /\ a # b
More(a, b) == \E m \in a, n \in b : m > n

UndeclaredSlip(a, b) == a = {} /\ b = {}

\* One side is enough for a value not to be checked.
Undeclared(a, b) == a = {} \/ b = {}

PairErrors(data, model) ==
  LET wrong == {e \in {"not data", "not model"} :
                  \/ e = "not data" /\ Kind(data) # "data"
                  \/ e = "not model" /\ Kind(model) # "model"}
      dataUnit == UnitOf(OrFields(data.fields, data.output))
      modelUnit == UnitOf(OrFields(model.output, model.fields))
  IN IF wrong # {} THEN wrong ELSE
     {e \in {"profile", "cadence", "context", "shape", "length", "fields", "unit"} :
        \/ e = "profile" /\ ~(model.requires \subseteq data.offers)
        \/ e = "cadence" /\ Differ(Cadence(data), Cadence(model))
        \/ e = "context" /\ More(model.context, Or(Frames(data.fields), data.context))
        \/ e = "shape" /\ Differ(Shape(data, OrFields(data.fields, data.input)),
                                 Shape(model, OrFields(model.input, model.fields)))
        \/ e = "length" /\ Differ(data.target, Frames(model.output))
        \/ e = "fields" /\ Missing(data, model) # {}
        \/ e = "unit" /\ Differ(dataUnit, modelUnit)}

PairWarnings(data, model) ==
  IF Kind(data) # "data" \/ Kind(model) # "model" THEN {} ELSE
  {w \in {"cadence", "context", "shape", "unit", "dtype", "domain"} :
     \/ w = "cadence" /\ Undeclared(Cadence(data), Cadence(model))
     \/ w = "context" /\ model.context # {} /\ Or(Frames(data.fields), data.context) = {}
     \/ w = "shape" /\ Undeclared(Shape(data, OrFields(data.fields, data.input)),
                                  Shape(model, OrFields(model.input, model.fields)))
     \/ w = "unit" /\ Undeclared(UnitOf(OrFields(data.fields, data.output)),
                                 UnitOf(OrFields(model.output, model.fields)))
     \/ w = "dtype" /\ \E f \in ToSet(OrFields(model.input, model.fields)), g \in ToSet(data.fields) :
                         f.name # {} /\ f.name = g.name /\ Differ(f.dtype, g.dtype)
     \/ w = "domain" /\ Differ(data.domain, model.domain)}

\* catalog_payload: the pairs the page offers, by the ids a run names them with.
\* A warning does not keep a pair off the page.
OfferedPairs(ps) ==
  {<<pair[1].id, pair[2].id>> :
     pair \in {q \in {p \in ToSet(ps) : Kind(p) = "data"} \X {p \in ToSet(ps) : Kind(p) = "model"} :
                 PairErrors(q[1], q[2]) = {}}}

\* A pair without an error steps as the ruler its data package fills in, where
\* check_pair does not warn that a cadence is undeclared, and is in the unit of
\* that ruler, where it does not warn of the unit: the two look the values up in
\* different places of the manifests.
SameScale(data, model) ==
  /\ "cadence" \notin PairWarnings(data, model) => Cadence(model) = RulerDefaults(data).step
  /\ "unit" \notin PairWarnings(data, model) /\ data.fields # <<>> /\ RulerDefaults(data).unit # {} =>
       UnitOf(OrFields(model.output, model.fields)) = RulerDefaults(data).unit
-----------------------------------------------------------------------------
(***************************************************************************)
(* The review server, for a config that is to be created.                  *)
(***************************************************************************)
\* fill_ruler_from_ground_truth: only blanks, only what the manifest declares.
Filled(ruler, p) == [f \in DOMAIN ruler |-> Or(ruler[f], RulerDefaults(p)[f])]

\* _validate_against_catalog, for a ruler with truth p (or none) and members.
ConfigWarnings(ruler, truth, members, ps) ==
  IF ps = <<>> THEN {} ELSE
  {<<"truth">> : x \in {t \in {truth} : Get(ps, t) = {}}}
  \cup {<<"step">> : x \in {p \in Get(ps, truth) : Differ(Cadence(p), ruler.step)}}
  \cup {<<"member", m>> : m \in {n \in members : Get(ps, n) = {}}}

\* What a person filled in stays, a second filling changes nothing, and a ruler
\* that was left blank steps as its truth does, so that no warning follows.
FillingKeeps(ruler, p) ==
  LET filled == Filled(ruler, p)
  IN /\ \A f \in DOMAIN ruler : ruler[f] # {} => filled[f] = ruler[f]
     /\ Filled(filled, p) = filled
     /\ ruler.step = {} => <<"step">> \notin ConfigWarnings(filled, p.id, {}, <<p>>)
=============================================================================

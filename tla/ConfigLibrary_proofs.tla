------------------------ MODULE ConfigLibrary_proofs -------------------------
(***************************************************************************)
(* The library of configs for any number of requests, rulers, members,     *)
(* metrics and days.                                                       *)
(***************************************************************************)
EXTENDS ConfigLibrary, TLAPS, FiniteSetTheorems

Entries(S, T) == UNION {[N -> T] : N \in (SUBSET S) \ {{}}}
Roster == Entries(Name, Membership)
MetricEntries == Entries(Metric, SUBSET Level)
Config == [ruler : Ruler, roster : Roster, metrics : MetricEntries]

\* At most one.
Single(S) == \A x, y \in S : x = y
Path == [there : BOOLEAN, holds : SUBSET Config]

PathSound(f) == f \in Path /\ Single(f.holds) /\ (~f.there => f.holds = {})

Steps == {"idle", "save", "open", "place", "fill", "rename", "purge", "score"}
Kinds == {"none", "create", "edit", "delete", "pass", "tool"}

LibraryTyped ==
  /\ mode \in Modes
  /\ PathSound(file) /\ PathSound(spare)
  /\ at \in [Request -> Steps]
  /\ op \in [Request -> Kinds]
  /\ draft \in [Request -> SUBSET Config] /\ \A r \in Request : Single(draft[r])
  /\ handle \in [Request -> {"none", "file", "spare", "unlinked"}]
  /\ measure \in [Request -> SUBSET Ruler]
  /\ rows \subseteq Ruler

\* What a request is for says where it can be.
StepsOf(o) ==
  CASE o = "none" -> {"idle"}
    [] o \in {"create", "edit"} -> {"save", "open", "fill", "rename"}
    [] o = "delete" -> {"purge"}
    [] o = "pass" -> {"score"}
    [] OTHER -> {"place", "fill"}

Guarded == mode \in {"serial", "overwrite", "edits"}
Serial == mode \in {"serial", "overwrite"}

\* In the modes the properties hold in, no command is under way, and only edits
\* and passes overlap.
Overlap(r, q) ==
  mode = "edits" /\ op[r] \in {"edit", "pass"} /\ op[q] \in {"edit", "pass"}

RequestsSound ==
  \A r \in Request :
    /\ op[r] # "tool" /\ at[r] \in StepsOf(op[r])
    /\ at[r] # "score" => measure[r] = {}
    /\ \A q \in Request \ {r} : Idle(r) \/ Idle(q) \/ Overlap(r, q)

\* The rulers of the configs that are in the file, or that may get there without
\* another comparison.
Landing(r) == at[r] \in {"fill", "rename"}
Writing(r) == at[r] = "open" \/ Landing(r)
Placed ==
  file.holds
  \cup (UNION {draft[r] : r \in {q \in Request : Writing(q)}})
  \cup (UNION {spare.holds : r \in {q \in Request : Landing(q)}})
Written == {c.ruler : c \in Placed}

\* The rulers that rows have, or that passes under way will give them.
Measured == rows \cup UNION {measure[r] : r \in Request}

\* There is one ruler; and without a file there are no rows that a deletion is
\* not about to remove, nor a pass that will store some.
RulersSound ==
  /\ Single(Written)
  /\ ~PurgeFaults =>
       /\ Single(Written \cup Measured)
       /\ ~file.there => /\ \A r \in Request : at[r] # "score"
                         /\ rows = {} \/ \E r \in Request : at[r] = "purge"

\* One after the other, requests fill the spare file only, and what they bring
\* to it agrees with what is there.
WriterSound(r) ==
  /\ ~Landing(r) => handle[r] = "none"
  /\ at[r] = "fill" => handle[r] = "spare" /\ spare.there /\ spare.holds = {}
  /\ at[r] = "rename" => spare.there /\ spare.holds = draft[r]
  /\ at[r] = "save" \/ Writing(r) => draft[r] # {}
  /\ Writing(r) => \A c \in draft[r], d \in file.holds : NamesStay(d, c)
  /\ mode = "serial" /\ (at[r] = "save" \/ Writing(r)) =>
       \A c \in draft[r], d \in file.holds : EntriesStay(d, c)
WritersSound ==
  /\ file.there => file.holds # {}
  /\ \A r \in Request : WriterSound(r)

LibraryInv ==
  /\ LibraryTyped
  /\ Guarded => RequestsSound /\ RulersSound
  /\ Serial => WritersSound
-----------------------------------------------------------------------------
(***************************************************************************)
(* The rules on configs.                                                   *)
(***************************************************************************)
\* A config is its three parts.
LEMMA ConfigParts ==
  ASSUME NEW c \in Config
  PROVE  /\ c.ruler \in Ruler /\ c.roster \in Roster /\ c.metrics \in MetricEntries
         /\ c = [ruler |-> c.ruler, roster |-> c.roster, metrics |-> c.metrics]
BY DEF Config

\* An entry more.
LEMMA AddedTyped ==
  ASSUME NEW S, NEW T, NEW f \in Entries(S, T), NEW n \in S, NEW m \in T
  PROVE  Added(f, n, m) \in Entries(S, T)
<1>1. PICK N \in (SUBSET S) \ {{}} : f \in [N -> T]
  BY DEF Entries
<1>2. Added(f, n, m) = [x \in {n} \cup N |-> IF x = n THEN m ELSE f[x]]
  BY <1>1 DEF Added
<1>3. Added(f, n, m) \in [{n} \cup N -> T]
  BY <1>1, <1>2
<1>. QED
  BY <1>3 DEF Entries

\* Another value for an entry that is there.
LEMMA ChangedTyped ==
  ASSUME NEW f \in Roster, NEW n \in DOMAIN f, NEW m \in Membership
  PROVE  /\ n \in Name /\ f[n] \in Membership
         /\ [f EXCEPT ![n] = m] \in Roster
         /\ DOMAIN [f EXCEPT ![n] = m] = DOMAIN f
         /\ \A x \in DOMAIN f : [f EXCEPT ![n] = m][x] = IF x = n THEN m ELSE f[x]
<1>1. PICK N \in (SUBSET Name) \ {{}} : f \in [N -> Membership]
  BY DEF Roster, Entries
<1>. QED
  BY <1>1 DEF Roster, Entries

\* A roster or metric table of one entry.
LEMMA OneEntry ==
  ASSUME NEW S, NEW T, NEW n \in S, NEW m \in T
  PROVE  Only(n, m) \in Entries(S, T)
<1>1. Only(n, m) \in [{n} -> T] /\ {n} \in (SUBSET S) \ {{}}
  BY DEF Only
<1>. QED
  BY <1>1 DEF Entries

\* What a request to create a config writes is a config.
LEMMA NewTyped ==
  ASSUME NEW c \in NewConfigs
  PROVE  c \in Config
<1>1. PICK u \in Ruler, n \in Name, m \in Membership, i \in Metric, levels \in SUBSET Level :
        c = [ruler |-> u, roster |-> Only(n, m), metrics |-> Only(i, levels)]
  BY DEF NewConfigs
<1>2. Only(n, m) \in Roster /\ Only(i, levels) \in MetricEntries
  BY OneEntry DEF Roster, MetricEntries
<1>. QED
  BY <1>1, <1>2 DEF Config

\* What an edit of c may give: a config with the ruler and the names of c.
EditOf(c, d) == d \in Config /\ d.ruler = c.ruler /\ NamesStay(c, d)

\* A roster that replaces the one of c.
LEMMA RosterEdit ==
  ASSUME NEW c \in Config, NEW f \in Roster, NEW d, d = [c EXCEPT !.roster = f]
  PROVE  EditOf(c, d) /\ d.roster = f /\ d.metrics = c.metrics
<1>1. d = [ruler |-> c.ruler, roster |-> f, metrics |-> c.metrics]
  BY ConfigParts
<1>. QED
  BY <1>1, ConfigParts DEF EditOf, Config, NamesStay

\* The day on which a member left is within its own days.
LEMMA MembershipStays ==
  ASSUME NEW m \in Membership
  PROVE  m.to # Never => m.to \in 1..m.to
BY ConfigLibraryAssumption DEF Membership, Never

\* Adding a member, or leads to one, keeps the ruler and every earlier entry.
LEMMA MemberAdded ==
  ASSUME NEW c \in Config, NEW n \in Name, NEW m \in Membership,
         NEW d \in WithMember(c, n, m)
  PROVE  EditOf(c, d) /\ EntriesStay(c, d)
<1>1. c.roster \in Roster
  BY ConfigParts
<1>2. \A x \in DOMAIN c.roster : c.roster[x] \in Membership
  BY <1>1 DEF Roster, Entries
<1>3. CASE n \notin DOMAIN c.roster
  <2> DEFINE f == Added(c.roster, n, m)
  <2>1. d = [c EXCEPT !.roster = f]
    BY <1>3 DEF WithMember
  <2>2. /\ f \in Roster /\ DOMAIN f = DOMAIN c.roster \cup {n}
        /\ \A x \in DOMAIN c.roster : f[x] = c.roster[x]
    <3>1. f \in Entries(Name, Membership)
      BY <1>1, AddedTyped DEF Roster
    <3>2. /\ DOMAIN f = DOMAIN c.roster \cup {n}
          /\ \A x \in DOMAIN c.roster \ {n} : f[x] = c.roster[x]
      BY DEF Added
    <3>. QED
      BY <1>3, <3>1, <3>2 DEF Roster
  <2> HIDE DEF f
  <2>3. EditOf(c, d) /\ d.roster = f /\ d.metrics = c.metrics
    BY <2>1, <2>2, RosterEdit
  <2>. QED
    BY <1>2, <2>2, <2>3, MembershipStays DEF EntriesStay
<1>4. CASE n \in DOMAIN c.roster
  <2> DEFINE old == c.roster[n]
             new == [old EXCEPT !.leads = m.leads]
             f == [c.roster EXCEPT ![n] = new]
  <2>1. old \in Membership
    BY <1>2, <1>4
  <2>2. new \in Membership /\ new.variable = old.variable /\ new.to = old.to
    BY <2>1 DEF Membership
  <2>3. d = [c EXCEPT !.roster = f]
    BY <1>4 DEF WithMember
  <2>4. /\ f \in Roster /\ DOMAIN f = DOMAIN c.roster
        /\ \A x \in DOMAIN c.roster : f[x] = IF x = n THEN new ELSE c.roster[x]
    BY <1>1, <1>4, <2>2, ChangedTyped
  <2> HIDE DEF f, new
  <2>5. EditOf(c, d) /\ d.roster = f /\ d.metrics = c.metrics
    BY <2>3, <2>4, RosterEdit
  <2>. QED
    BY <1>2, <2>1, <2>2, <2>4, <2>5, MembershipStays DEF EntriesStay
<1>. QED
  BY <1>3, <1>4

WithTo(c, n, on) == [c EXCEPT !.roster[n].to = on]

\* Retiring a member keeps the ruler; only a later end would add days to it.
LEMMA MemberRetired ==
  ASSUME NEW c \in Config, NEW n \in DOMAIN c.roster, NEW on \in 1..MaxDay,
         NEW d, d = WithTo(c, n, on)
  PROVE  /\ EditOf(c, d)
         /\ c.roster[n].to = Never \/ on < c.roster[n].to => EntriesStay(c, d)
<1>1. c.roster \in Roster
  BY ConfigParts
<1>2. \A x \in DOMAIN c.roster : c.roster[x] \in Membership
  BY <1>1 DEF Roster, Entries
<1> DEFINE old == c.roster[n]
           new == [old EXCEPT !.to = on]
           f == [c.roster EXCEPT ![n] = new]
<1>3. old \in Membership
  BY <1>2
<1>4. new \in Membership /\ new.variable = old.variable /\ new.to = on
  BY <1>3 DEF Membership
<1>5. d = [c EXCEPT !.roster = f]
  BY DEF WithTo
<1>6. /\ f \in Roster /\ DOMAIN f = DOMAIN c.roster
      /\ \A x \in DOMAIN c.roster : f[x] = IF x = n THEN new ELSE c.roster[x]
  BY <1>1, <1>4, ChangedTyped
<1> HIDE DEF f, new
<1>7. EditOf(c, d) /\ d.roster = f /\ d.metrics = c.metrics
  BY <1>5, <1>6, RosterEdit
<1>8. ASSUME old.to = Never \/ on < old.to
      PROVE  EntriesStay(c, d)
  <2>1. old.to # Never => on \in 1..old.to
    BY <1>3, <1>8, ConfigLibraryAssumption DEF Membership, Never
  <2>. QED
    BY <1>2, <1>4, <1>6, <1>7, <2>1, MembershipStays DEF EntriesStay
<1>. QED
  BY <1>7, <1>8

\* Adding a metric, or levels to one, keeps the ruler and every earlier entry.
LEMMA MetricAdded ==
  ASSUME NEW c \in Config, NEW i \in Metric, NEW levels \in SUBSET Level,
         NEW d \in WithMetric(c, i, levels)
  PROVE  EditOf(c, d) /\ EntriesStay(c, d)
<1> DEFINE g == Added(c.metrics, i, levels)
<1>1. i \notin DOMAIN c.metrics /\ d = [c EXCEPT !.metrics = g]
  BY DEF WithMetric
<1>2. /\ g \in MetricEntries /\ DOMAIN g = DOMAIN c.metrics \cup {i}
      /\ \A x \in DOMAIN c.metrics : g[x] = c.metrics[x]
  <2>1. c.metrics \in Entries(Metric, SUBSET Level)
    BY ConfigParts DEF MetricEntries
  <2>2. g \in Entries(Metric, SUBSET Level)
    BY <2>1, AddedTyped
  <2>3. /\ DOMAIN g = DOMAIN c.metrics \cup {i}
        /\ \A x \in DOMAIN c.metrics \ {i} : g[x] = c.metrics[x]
    BY DEF Added
  <2>. QED
    BY <1>1, <2>2, <2>3 DEF MetricEntries
<1>3. \A x \in DOMAIN c.roster : c.roster[x] \in Membership
  BY ConfigParts DEF Roster, Entries
<1> HIDE DEF g
<1>4. d = [ruler |-> c.ruler, roster |-> c.roster, metrics |-> g]
  BY <1>1, ConfigParts
<1>5. d \in Config /\ d.ruler = c.ruler /\ d.roster = c.roster /\ d.metrics = g
  BY <1>2, <1>4, ConfigParts DEF Config
<1>6. EditOf(c, d)
  BY <1>2, <1>5 DEF EditOf, NamesStay
<1>7. \A x \in DOMAIN c.roster : c.roster[x].to # Never => c.roster[x].to \in 1..c.roster[x].to
  BY <1>3, MembershipStays
<1>. QED
  BY <1>2, <1>5, <1>6, <1>7 DEF EntriesStay

\* A request's edit of what it read changes neither the ruler nor the entries
\* that numbers hang on.
LEMMA RequestEdit ==
  ASSUME NEW c \in Config, NEW kinds, NEW d \in RequestEdits(c, kinds)
  PROVE  EditOf(c, d) /\ EntriesStay(c, d)
<1>1. CASE \E n \in Name, m \in Membership : d \in WithMember(c, n, m)
  BY <1>1, MemberAdded
<1>2. CASE \E n \in Name, on \in 1..MaxDay : d \in Retired(c, n, on)
  BY <1>2, MemberRetired DEF Retired, WithTo
<1>3. CASE \E i \in Metric, ls \in SUBSET Level : d \in WithMetric(c, i, ls)
  BY <1>3, MetricAdded
<1>4. \/ \E n \in Name, m \in Membership : d \in WithMember(c, n, m)
      \/ \E n \in Name, on \in 1..MaxDay : d \in Retired(c, n, on)
      \/ \E i \in Metric, ls \in SUBSET Level : d \in WithMetric(c, i, ls)
  <2>1. CASE d \in UNION {MemberEdits(c) : k \in kinds \cap {"roster"}}
    BY <2>1 DEF MemberEdits
  <2>2. CASE d \in UNION {Retired(c, n, on) : n \in Name, on \in 1..MaxDay,
                                              k \in kinds \cap {"retire"}}
    BY <2>2
  <2>3. CASE d \in UNION {WithMetric(c, i, ls) : i \in Metric, ls \in SUBSET Level,
                                                 k \in kinds \cap {"metrics"}}
    BY <2>3
  <2>. QED
    BY <2>1, <2>2, <2>3 DEF RequestEdits
<1>. QED
  BY <1>1, <1>2, <1>3, <1>4

\* Whatever a command writes in place is a config.
LEMMA ToolEdit ==
  ASSUME NEW c \in Config, NEW d \in ToolEdits(c)
  PROVE  d \in Config
<1>1. CASE \E n \in Name, m \in Membership : d \in WithMember(c, n, m)
  BY <1>1, MemberAdded DEF EditOf
<1>2. CASE \E n \in Name, on \in 1..MaxDay : d \in RetiredByTool(c, n, on)
  BY <1>2, MemberRetired DEF RetiredByTool, EditOf, WithTo
<1>. QED
  BY <1>1, <1>2 DEF ToolEdits, MemberEdits
-----------------------------------------------------------------------------
(***************************************************************************)
(* Types.                                                                  *)
(***************************************************************************)
\* What a request is doing, apart from the file it has open.
DoingTyped ==
  /\ mode \in Modes
  /\ at \in [Request -> Steps] /\ op \in [Request -> Kinds]
  /\ draft \in [Request -> SUBSET Config] /\ \A r \in Request : Single(draft[r])
  /\ measure \in [Request -> SUBSET Ruler]

HandleTyped == handle \in [Request -> {"none", "file", "spare", "unlinked"}]

\* The type invariant, part by part.
LEMMA TypedParts ==
  LibraryTyped <=> /\ DoingTyped /\ HandleTyped
                   /\ PathSound(file) /\ PathSound(spare) /\ rows \subseteq Ruler
BY DEF LibraryTyped, DoingTyped, HandleTyped

\* A file that reads as a config is there and holds one config.
LEMMA StoredIsConfig ==
  ASSUME LibraryTyped, Readable
  PROVE  Stored \in Config /\ file.holds = {Stored} /\ file.there
BY DEF LibraryTyped, Readable, Stored, PathSound, Path, Single

\* A path without a file, or with half of one, holds no config.
LEMMA EmptyPaths == PathSound(Missing) /\ PathSound(Torn)
BY DEF PathSound, Missing, Torn, Path, Single

\* A path with one whole config is sound.
LEMMA HoldingSound ==
  ASSUME NEW C \in SUBSET Config, Single(C)
  PROVE  PathSound(Holding(C))
BY DEF PathSound, Holding, Path

\* Moving a request to its next step keeps the types.
LEMMA GoesTyped ==
  ASSUME LibraryTyped, NEW r \in Request, NEW s \in Steps, Goes(r, s)
  PROVE  DoingTyped'
BY DEF LibraryTyped, DoingTyped, Goes, Single

\* So does taking a request in,
LEMMA AsksTyped ==
  ASSUME LibraryTyped, NEW r \in Request, NEW o \in Kinds, NEW s \in Steps,
         NEW C \in SUBSET Config, Single(C), Asks(r, o, s, C),
         measure' \in [Request -> SUBSET Ruler]
  PROVE  DoingTyped' /\ HandleTyped'
<1>1. at' \in [Request -> Steps] /\ op' \in [Request -> Kinds] /\ mode' \in Modes
  BY DEF LibraryTyped, Asks
<1>2. /\ draft' \in [Request -> SUBSET Config]
      /\ \A q \in Request : Single(draft'[q])
  BY DEF LibraryTyped, Asks, Single
<1>. QED
  BY <1>1, <1>2 DEF LibraryTyped, DoingTyped, HandleTyped, Asks

\* and so does answering it.
LEMMA FinishesTyped ==
  ASSUME LibraryTyped, NEW r \in Request, Finishes(r)
  PROVE  DoingTyped' /\ HandleTyped'
<1>1. /\ at' \in [Request -> Steps] /\ op' \in [Request -> Kinds] /\ mode' \in Modes
      /\ measure' \in [Request -> SUBSET Ruler]
  BY DEF LibraryTyped, Finishes, Steps, Kinds
<1>2. /\ draft' \in [Request -> SUBSET Config]
      /\ \A q \in Request : Single(draft'[q])
  BY DEF LibraryTyped, Finishes, Single
<1>3. HandleTyped'
  BY DEF LibraryTyped, Finishes, HandleTyped
<1>. QED
  BY <1>1, <1>2, <1>3 DEF DoingTyped

\* The steps of one request.
RequestStep(r) ==
  \/ \E c \in NewConfigs : CreateAsked(r, c) \/ OverwriteAsked(r, c)
  \/ EditAsked(r) \/ SaveAccepts(r) \/ SaveDeclines(r)
  \/ SpareOpened(r) \/ PathOpened(r) \/ Filled(r)
  \/ Renamed(r) \/ RenameFails(r)
  \/ DeleteAsked(r) \/ Purged(r)
  \/ PassAsked(r) \/ PassCommits(r)
  \/ ToolAsked(r)

\* Every step is a step of one request or the death of the server.
LEMMA NextSteps == Next <=> (\E r \in Request : RequestStep(r)) \/ Dies
BY DEF Next, RequestStep

\* The initial states are well typed.
LEMMA FirstTyped == Init => LibraryTyped
BY EmptyPaths DEF Init, LibraryTyped, Steps, Kinds, Single

\* Each step of a request keeps the types.
LEMMA StepTyped ==
  ASSUME LibraryTyped, NEW r \in Request, RequestStep(r)
  PROVE  LibraryTyped'
<1>1. DoingTyped /\ HandleTyped /\ PathSound(file) /\ PathSound(spare) /\ rows \subseteq Ruler
  BY TypedParts
<1>2. ASSUME NEW c \in NewConfigs, CreateAsked(r, c) \/ OverwriteAsked(r, c)
      PROVE  LibraryTyped'
  <2>1. c \in Config /\ Single({c})
    BY NewTyped DEF Single
  <2>2. PICK s \in {"open", "save"} : Asks(r, "create", s, {c})
    BY <1>2 DEF CreateAsked, OverwriteAsked
  <2>3. UNCHANGED <<files, measure, rows>>
    BY <1>2 DEF CreateAsked, OverwriteAsked
  <2>4. DoingTyped' /\ HandleTyped'
    <3>1. s \in Steps /\ "create" \in Kinds /\ {c} \in SUBSET Config
      BY <2>1 DEF Steps, Kinds
    <3>. QED
      BY <1>1, <2>1, <2>2, <2>3, <3>1, AsksTyped DEF DoingTyped
  <2>. QED
    BY <1>1, <2>3, <2>4, TypedParts DEF files, LibraryTyped, DoingTyped, HandleTyped
<1>3. CASE EditAsked(r)
  <2>1. PICK kinds : \E c \in RequestEdits(Stored, kinds) : Asks(r, "edit", "save", {c})
    BY <1>3 DEF EditAsked
  <2>2. PICK c \in RequestEdits(Stored, kinds) : Asks(r, "edit", "save", {c})
    BY <2>1
  <2>3. c \in Config /\ Single({c})
    BY <1>3, StoredIsConfig, RequestEdit DEF EditOf, EditAsked, Single
  <2>4. UNCHANGED <<files, measure, rows>>
    BY <1>3 DEF EditAsked
  <2>5. DoingTyped' /\ HandleTyped'
    <3>1. "save" \in Steps /\ "edit" \in Kinds /\ {c} \in SUBSET Config
      BY <2>3 DEF Steps, Kinds
    <3>. QED
      BY <1>1, <2>2, <2>3, <2>4, <3>1, AsksTyped DEF DoingTyped
  <2>. QED
    BY <1>1, <2>4, <2>5 DEF files, LibraryTyped, DoingTyped, HandleTyped
<1>4. CASE SaveAccepts(r)
  <2>1. "open" \in Steps /\ Goes(r, "open") /\ UNCHANGED <<files, handle, rows>>
    BY <1>4 DEF SaveAccepts, Steps
  <2>2. DoingTyped'
    BY <2>1, GoesTyped
  <2>. QED
    BY <1>1, <2>1, <2>2 DEF files, LibraryTyped, DoingTyped, HandleTyped
<1>5. CASE SaveDeclines(r) \/ RenameFails(r)
  <2>1. Finishes(r) /\ UNCHANGED <<files, rows>>
    BY <1>5 DEF SaveDeclines, RenameFails
  <2>. QED
    BY <1>1, <2>1, FinishesTyped DEF files, LibraryTyped, DoingTyped, HandleTyped
<1>6. CASE SpareOpened(r) \/ PathOpened(r)
  <2>1. PICK f \in {"file", "spare"} : Opens(r, f)
    BY <1>6 DEF SpareOpened, PathOpened
  <2>2. file' \in {file, Torn} /\ spare' \in {spare, Torn}
    BY <1>6 DEF SpareOpened, PathOpened
  <2>3. PathSound(file)' /\ PathSound(spare)'
    BY <1>1, <2>2, EmptyPaths
  <2>4. DoingTyped' /\ HandleTyped' /\ rows' = rows
    BY <1>1, <2>1 DEF Opens, DoingTyped, HandleTyped, Steps, Single
  <2>. QED
    BY <1>1, <2>3, <2>4 DEF LibraryTyped, DoingTyped, HandleTyped
<1>7. CASE Filled(r)
  <2>1. /\ file' \in {file, Holding(draft[r]), Torn}
        /\ spare' \in {spare, Holding(draft[r]), Torn} /\ rows' = rows
    BY <1>7 DEF Filled, Fills
  <2>2. PathSound(Holding(draft[r]))
    BY <1>1, HoldingSound DEF DoingTyped
  <2>3. PathSound(file)' /\ PathSound(spare)'
    BY <1>1, <2>1, <2>2, EmptyPaths
  <2>4. DoingTyped' /\ HandleTyped'
    <3>1. CASE Finishes(r)
      BY <3>1, FinishesTyped
    <3>2. CASE Goes(r, "rename") /\ UNCHANGED handle
      BY <1>1, <3>2, GoesTyped DEF Steps, HandleTyped
    <3>. QED
      BY <1>7, <3>1, <3>2 DEF Filled
  <2>. QED
    BY <1>1, <2>1, <2>3, <2>4 DEF LibraryTyped, DoingTyped, HandleTyped
<1>8. CASE Renamed(r)
  <2>1. file' = spare /\ spare' = Missing /\ rows' = rows
    BY <1>8 DEF Renamed
  <2>2. PathSound(file)' /\ PathSound(spare)'
    BY <1>1, <2>1, EmptyPaths
  <2>3. DoingTyped'
    BY <1>1, <1>8 DEF Renamed, DoingTyped, Steps, Kinds, Single
  <2>4. HandleTyped'
    BY <1>1, <1>8 DEF Renamed, HandleTyped
  <2>. QED
    BY <1>1, <2>1, <2>2, <2>3, <2>4 DEF LibraryTyped, DoingTyped, HandleTyped
<1>9. CASE DeleteAsked(r)
  <2>1. file' = Missing /\ spare' = spare /\ rows' = rows
    BY <1>9 DEF DeleteAsked
  <2>2. PathSound(file)' /\ PathSound(spare)'
    BY <1>1, <2>1, EmptyPaths
  <2>3. DoingTyped'
    BY <1>1, <1>9 DEF DeleteAsked, DoingTyped, Steps, Kinds
  <2>4. HandleTyped'
    BY <1>1, <1>9 DEF DeleteAsked, HandleTyped
  <2>. QED
    BY <1>1, <2>1, <2>2, <2>3, <2>4 DEF LibraryTyped, DoingTyped, HandleTyped
<1>10. CASE Purged(r) \/ PassCommits(r)
  <2>1. Finishes(r) /\ UNCHANGED files /\ rows' \subseteq rows \cup measure[r]
    BY <1>10 DEF Purged, PassCommits
  <2>. QED
    BY <1>1, <2>1, FinishesTyped DEF files, LibraryTyped, DoingTyped, HandleTyped
<1>11. CASE PassAsked(r)
  <2>1. /\ Asks(r, "pass", "score", {}) /\ UNCHANGED <<files, rows>>
        /\ measure' = [measure EXCEPT ![r] = {Stored.ruler}]
    BY <1>11 DEF PassAsked
  <2>2. Stored.ruler \in Ruler
    BY <1>11, StoredIsConfig, ConfigParts DEF PassAsked
  <2>3. DoingTyped' /\ HandleTyped'
    <3>1. "score" \in Steps /\ "pass" \in Kinds /\ {} \in SUBSET Config /\ Single({})
      BY DEF Steps, Kinds, Single
    <3>2. measure' \in [Request -> SUBSET Ruler]
      BY <1>1, <2>1, <2>2 DEF DoingTyped
    <3>. QED
      BY <2>1, <3>1, <3>2, AsksTyped
  <2>. QED
    BY <1>1, <2>1, <2>3 DEF files, LibraryTyped, DoingTyped, HandleTyped
<1>12. CASE ToolAsked(r)
  <2>1. PICK c \in NewConfigs \cup (IF Readable THEN ToolEdits(Stored) ELSE {}) :
          Asks(r, "tool", "place", {c})
    BY <1>12 DEF ToolAsked
  <2>2. c \in Config /\ Single({c})
    BY <2>1, StoredIsConfig, NewTyped, ToolEdit DEF Single
  <2>3. UNCHANGED <<files, measure, rows>>
    BY <1>12 DEF ToolAsked
  <2>4. DoingTyped' /\ HandleTyped'
    <3>1. "place" \in Steps /\ "tool" \in Kinds /\ {c} \in SUBSET Config
      BY <2>2 DEF Steps, Kinds
    <3>. QED
      BY <1>1, <2>1, <2>2, <2>3, <3>1, AsksTyped DEF DoingTyped
  <2>. QED
    BY <1>1, <2>3, <2>4 DEF files, LibraryTyped, DoingTyped, HandleTyped
<1>. QED
  BY <1>2, <1>3, <1>4, <1>5, <1>6, <1>7, <1>8, <1>9, <1>10, <1>11, <1>12 DEF RequestStep

\* So does a death.
LEMMA DeathTyped ==
  ASSUME LibraryTyped, Dies
  PROVE  LibraryTyped'
<1>1. PathSound(spare)'
  BY EmptyPaths DEF Dies
<1>2. file' = file /\ rows' = rows
  BY DEF Dies
<1>3. DoingTyped' /\ HandleTyped'
  BY DEF Dies, LibraryTyped, DoingTyped, HandleTyped, Steps, Kinds, Single
<1>. QED
  BY <1>1, <1>2, <1>3 DEF LibraryTyped, DoingTyped, HandleTyped

\* LibraryTyped is inductive.
LEMMA TypeKept == LibraryTyped /\ [Next]_vars => LibraryTyped'
<1> SUFFICES ASSUME LibraryTyped, [Next]_vars PROVE LibraryTyped'
  OBVIOUS
<1>1. CASE UNCHANGED vars
  BY <1>1 DEF vars, files, LibraryTyped
<1>2. CASE Next
  BY <1>2, StepTyped, DeathTyped, NextSteps
<1>. QED
  BY <1>1, <1>2

\* The file and the spare file hold a whole config or nothing that can be read,
\* and requests are always somewhere in what they do.
THEOREM LibraryTypeCorrect == Spec => []LibraryTypeOK
<1>1. \A C : Single(C) => Cardinality(C) <= 1
  <2> SUFFICES ASSUME NEW C, Single(C) PROVE Cardinality(C) <= 1
    OBVIOUS
  <2>1. CASE C = {}
    BY <2>1, FS_EmptySet
  <2>2. CASE C # {}
    <3>1. PICK x \in C : C = {x}
      BY <2>2 DEF Single
    <3>. QED
      BY <3>1, FS_Singleton
  <2>. QED
    BY <2>1, <2>2
<1>2. \A c \in Config : IsConfig(c)
  BY DEF Config, Roster, MetricEntries, Entries, IsConfig
<1>3. LibraryTyped => LibraryTypeOK
  <2> SUFFICES ASSUME LibraryTyped PROVE LibraryTypeOK
    OBVIOUS
  <2>1. ASSUME NEW f, PathSound(f)
        PROVE  IsConfigs(f.holds) /\ f.there \in BOOLEAN /\ (~f.there => f = Missing)
    BY <1>1, <1>2, <2>1 DEF PathSound, Path, IsConfigs, Missing
  <2>2. \A r \in Request : IsConfigs(draft[r])
    BY <1>1, <1>2 DEF LibraryTyped, IsConfigs
  <2>. QED
    BY <2>1, <2>2 DEF LibraryTyped, LibraryTypeOK, Steps, Kinds
<1>. QED
  BY <1>3, FirstTyped, TypeKept, PTL DEF Spec
-----------------------------------------------------------------------------
(***************************************************************************)
(* One ruler at a time.                                                    *)
(***************************************************************************)
\* What a request is at, for and measures, of one request only.
Place(r) == /\ op[r] # "tool" /\ at[r] \in StepsOf(op[r])
            /\ at[r] # "score" => measure[r] = {}

\* RequestsSound: each request is where its handler may be, and two are under way
\* at once only where they may overlap.
LEMMA RequestsPlaced ==
  RequestsSound <=> /\ \A r \in Request : Place(r)
                    /\ \A r \in Request : \A q \in Request \ {r} :
                         Idle(r) \/ Idle(q) \/ Overlap(r, q)
BY DEF RequestsSound, Place

\* A request that goes on, for the same thing or when it has come to nothing.
LEMMA MoveSound ==
  ASSUME RequestsSound, LibraryTyped, NEW r \in Request, UNCHANGED mode,
         at' \in [Request -> Steps], op' \in [Request -> Kinds],
         measure' \in [Request -> SUBSET Ruler],
         \A q \in Request \ {r} : at'[q] = at[q] /\ op'[q] = op[q] /\ measure'[q] = measure[q],
         Place(r)',
         \/ op'[r] = op[r] /\ at[r] # "idle"
         \/ at'[r] = "idle"
         \/ \A q \in Request \ {r} : Idle(q)
         \/ /\ mode = "edits" /\ op'[r] \in {"edit", "pass"}
            /\ \A q \in Request : Idle(q) \/ op[q] \in {"edit", "pass"}
  PROVE  RequestsSound'
<1>1. \A q \in Request : Place(q)'
  BY DEF RequestsSound, Place
<1>2. ASSUME NEW p \in Request, NEW q \in Request \ {p}
      PROVE  (Idle(p) \/ Idle(q) \/ Overlap(p, q))'
  BY <1>2 DEF RequestsSound, Idle, Overlap
<1>. QED
  BY <1>1, <1>2 DEF RequestsSound, Place

\* Each step of a request keeps RequestsSound.
LEMMA StepSound ==
  ASSUME LibraryTyped, Guarded, RequestsSound, NEW r \in Request, RequestStep(r),
         LibraryTyped'
  PROVE  RequestsSound'
<1>1. /\ at' \in [Request -> Steps] /\ op' \in [Request -> Kinds]
      /\ measure' \in [Request -> SUBSET Ruler]
      /\ at \in [Request -> Steps] /\ op \in [Request -> Kinds]
      /\ measure \in [Request -> SUBSET Ruler]
  BY DEF LibraryTyped
<1>2. Place(r)
  BY DEF RequestsSound, Place
<1>3. ASSUME NEW o \in {"create", "edit"}, NEW s \in {"open", "save"}, NEW C, Asks(r, o, s, C),
             UNCHANGED measure
      PROVE  RequestsSound'
  <2>1. at'[r] = s /\ op'[r] = o /\ at[r] = "idle" /\ UNCHANGED mode
    BY <1>1, <1>3 DEF Asks, MayBegin, Idle
  <2>2. Place(r)'
    BY <1>2, <1>3, <2>1 DEF Place, StepsOf
  <2>3. \/ \A q \in Request \ {r} : Idle(q)
        \/ /\ mode = "edits" /\ op'[r] \in {"edit", "pass"}
           /\ \A q \in Request : Idle(q) \/ op[q] \in {"edit", "pass"}
    BY <1>3, <2>1 DEF Asks, MayBegin, Alone, Guarded
  <2>4. \A q \in Request \ {r} : at'[q] = at[q] /\ op'[q] = op[q] /\ measure'[q] = measure[q]
    BY <1>1, <1>3 DEF Asks
  <2>. QED
    BY <1>1, <2>1, <2>2, <2>3, <2>4, MoveSound
<1>4. ASSUME NEW s \in Steps, Goes(r, s), at[r] # "idle",
             s \in StepsOf(op[r]), at[r] # "score" /\ s # "score"
      PROVE  RequestsSound'
  <2>1. at'[r] = s /\ op'[r] = op[r] /\ measure'[r] = {} /\ UNCHANGED mode
    BY <1>1, <1>2, <1>4 DEF Goes, Place
  <2>2. Place(r)'
    BY <1>2, <1>4, <2>1 DEF Place
  <2>3. \A q \in Request \ {r} : at'[q] = at[q] /\ op'[q] = op[q] /\ measure'[q] = measure[q]
    BY <1>1, <1>4 DEF Goes
  <2>. QED
    BY <1>1, <1>4, <2>1, <2>2, <2>3, MoveSound
<1>5. ASSUME Finishes(r)
      PROVE  RequestsSound'
  <2>1. at'[r] = "idle" /\ op'[r] = "none" /\ measure'[r] = {} /\ UNCHANGED mode
    BY <1>1, <1>5 DEF Finishes
  <2>2. Place(r)'
    BY <2>1 DEF Place, StepsOf
  <2>3. \A q \in Request \ {r} : at'[q] = at[q] /\ op'[q] = op[q] /\ measure'[q] = measure[q]
    BY <1>1, <1>5 DEF Finishes
  <2>. QED
    BY <1>1, <2>1, <2>2, <2>3, MoveSound
<1>6. ASSUME NEW c \in NewConfigs, CreateAsked(r, c) \/ OverwriteAsked(r, c)
      PROVE  RequestsSound'
  BY <1>3, <1>6 DEF CreateAsked, OverwriteAsked
<1>7. CASE EditAsked(r)
  BY <1>3, <1>7 DEF EditAsked
<1>8. CASE SaveAccepts(r)
  BY <1>2, <1>4, <1>8 DEF SaveAccepts, Place, StepsOf, Steps
<1>9. CASE SaveDeclines(r) \/ RenameFails(r)
  BY <1>5, <1>9 DEF SaveDeclines, RenameFails
<1>10. CASE SpareOpened(r)
  <2>1. /\ at[r] = "open" /\ at' = [at EXCEPT ![r] = "fill"]
        /\ UNCHANGED <<mode, op, measure>>
    BY <1>10 DEF SpareOpened, Opens
  <2>2. at'[r] = "fill" /\ Place(r)'
    BY <1>1, <1>2, <2>1 DEF Place, StepsOf
  <2>3. \A q \in Request \ {r} : at'[q] = at[q] /\ op'[q] = op[q] /\ measure'[q] = measure[q]
    BY <1>1, <2>1
  <2>. QED
    BY <1>1, <2>1, <2>2, <2>3, MoveSound
<1>11. CASE PathOpened(r) \/ ToolAsked(r)
  <2>1. ~PathOpened(r)
    BY <1>1, <1>2 DEF PathOpened, Place, StepsOf, Kinds
  <2>2. ~ToolAsked(r)
    BY DEF ToolAsked, Asks, MayBegin, Guarded
  <2>. QED
    BY <1>11, <2>1, <2>2
<1>12. CASE Filled(r)
  <2>1. at[r] = "fill" /\ op[r] # "tool" /\ Goes(r, "rename")
    BY <1>2, <1>12 DEF Filled, Place
  <2>2. "rename" \in StepsOf(op[r]) /\ "rename" \in Steps
    BY <1>1, <1>2, <2>1 DEF Place, StepsOf, Steps, Kinds
  <2>. QED
    BY <1>4, <2>1, <2>2
<1>13. CASE Renamed(r)
  <2>1. /\ at' = [at EXCEPT ![r] = "idle"] /\ op' = [op EXCEPT ![r] = "none"]
        /\ at[r] = "rename" /\ UNCHANGED <<mode, measure>>
    BY <1>13 DEF Renamed
  <2>2. at'[r] = "idle" /\ Place(r)'
    BY <1>1, <1>2, <2>1 DEF Place, StepsOf
  <2>3. \A q \in Request \ {r} : at'[q] = at[q] /\ op'[q] = op[q] /\ measure'[q] = measure[q]
    BY <1>1, <2>1
  <2>. QED
    BY <1>1, <2>1, <2>2, <2>3, MoveSound
<1>14. CASE DeleteAsked(r)
  <2>1. /\ at' = [at EXCEPT ![r] = "purge"] /\ op' = [op EXCEPT ![r] = "delete"]
        /\ at[r] = "idle" /\ UNCHANGED <<mode, measure>>
        /\ \A q \in Request \ {r} : Idle(q)
    BY <1>14 DEF DeleteAsked, MayBegin, Idle, Alone, Guarded
  <2>2. Place(r)'
    BY <1>1, <1>2, <2>1 DEF Place, StepsOf
  <2>3. \A q \in Request \ {r} : at'[q] = at[q] /\ op'[q] = op[q] /\ measure'[q] = measure[q]
    BY <1>1, <2>1
  <2>. QED
    BY <1>1, <2>1, <2>2, <2>3, MoveSound
<1>15. CASE Purged(r) \/ PassCommits(r)
  BY <1>5, <1>15 DEF Purged, PassCommits
<1>16. CASE PassAsked(r)
  <2>1. /\ at' = [at EXCEPT ![r] = "score"] /\ op' = [op EXCEPT ![r] = "pass"]
        /\ UNCHANGED mode /\ measure' = [measure EXCEPT ![r] = {Stored.ruler}]
    BY <1>16 DEF PassAsked, Asks
  <2>2. \/ \A q \in Request \ {r} : Idle(q)
        \/ /\ mode = "edits"
           /\ \A q \in Request : Idle(q) \/ op[q] \in {"edit", "pass"}
    BY <1>16 DEF PassAsked, Asks, MayBegin, Alone, Guarded
  <2>3. op'[r] = "pass" /\ Place(r)'
    BY <1>1, <2>1 DEF Place, StepsOf
  <2>4. \A q \in Request \ {r} : at'[q] = at[q] /\ op'[q] = op[q] /\ measure'[q] = measure[q]
    BY <1>1, <2>1
  <2>. QED
    BY <1>1, <2>1, <2>2, <2>3, <2>4, MoveSound
<1>. QED
  BY <1>6, <1>7, <1>8, <1>9, <1>10, <1>11, <1>12, <1>13, <1>14, <1>15, <1>16 DEF RequestStep

\* A death leaves every request idle.
LEMMA DeathSound ==
  ASSUME Dies
  PROVE  RequestsSound'
BY DEF Dies, RequestsSound, StepsOf, Idle

\* Where a ruler that counts as written is found, and what makes none new.
LEMMA WrittenHas ==
  /\ \A c \in file.holds : c.ruler \in Written
  /\ \A r \in Request : Writing(r) => \A c \in draft[r] : c.ruler \in Written
  /\ \A r \in Request : Landing(r) => \A c \in spare.holds : c.ruler \in Written
BY DEF Written, Placed

\* Where to look for a config that some path, draft or request still holds.
LEMMA WrittenOnly ==
  ASSUME NEW S,
         \A c \in file'.holds : c.ruler \in S,
         \A q \in Request : Writing(q)' => \A c \in draft'[q] : c.ruler \in S,
         \A q \in Request : Landing(q)' => \A c \in spare'.holds : c.ruler \in S
  PROVE  Written' \subseteq S
BY DEF Written, Placed

\* The step is one request's.
Others(r) ==
  \A q \in Request \ {r} : at'[q] = at[q] /\ draft'[q] = draft[q] /\ measure'[q] = measure[q]

\* Without a file.
NoFile ==
  ~PurgeFaults /\ ~file.there =>
    /\ \A r \in Request : at[r] # "score"
    /\ rows = {} \/ \E r \in Request : at[r] = "purge"

\* RulersSound, part by part.
LEMMA RulersParts ==
  RulersSound <=> /\ Single(Written)
                  /\ ~PurgeFaults => Single(Written \cup Measured)
                  /\ NoFile
BY DEF RulersSound, NoFile

\* A step that writes and measures with no other ruler.
LEMMA RulersStay ==
  ASSUME RulersSound, Written' \subseteq Written, Measured' \subseteq Measured \cup Written,
         NoFile'
  PROVE  RulersSound'
<1>1. Single(Written')
  BY RulersParts DEF Single
<1>2. ~PurgeFaults => Single(Written' \cup Measured')
  BY RulersParts DEF Single
<1>. QED
  BY <1>1, <1>2 DEF RulersSound, NoFile

\* A request moves and leaves the file and the rows alone.
LEMMA QuietMove ==
  ASSUME LibraryTyped, RulersSound, NEW r \in Request, Others(r),
         UNCHANGED <<file, rows>>,
         Writing(r)' => \A c \in draft'[r] : c.ruler \in Written,
         \A q \in Request : Landing(q)' => \A c \in spare'.holds : c.ruler \in Written,
         measure'[r] \subseteq measure[r] \cup Written,
         at[r] # "purge" \/ rows = {},
         at'[r] = "score" => file.there
  PROVE  RulersSound'
<1>1. Written' \subseteq Written
  <2>1. \A c \in file'.holds : c.ruler \in Written
    BY WrittenHas
  <2>2. ASSUME NEW q \in Request, Writing(q)'
        PROVE  \A c \in draft'[q] : c.ruler \in Written
    <3>1. CASE q = r
      BY <2>2, <3>1
    <3>2. CASE q # r
      BY <2>2, <3>2, WrittenHas DEF Writing, Landing, Others
    <3>. QED
      BY <3>1, <3>2
  <2>. QED
    BY <2>1, <2>2, WrittenOnly
<1>2. Measured' \subseteq Measured \cup Written
  BY DEF Measured, Others
<1>3. NoFile'
  BY RulersParts DEF NoFile, Others
<1>. QED
  BY <1>1, <1>2, <1>3, RulersStay

\* A request that is answered leaves the rulers as they are.
LEMMA FinishStays ==
  ASSUME LibraryTyped, RulersSound, NEW r \in Request, Finishes(r), UNCHANGED <<files, rows>>,
         at[r] # "purge" \/ rows = {}
  PROVE  RulersSound'
<1>1. /\ at'[r] = "idle" /\ measure'[r] = {} /\ Others(r)
      /\ UNCHANGED <<file, spare, rows>>
  BY DEF Finishes, LibraryTyped, Others, files
<1>2. \A q \in Request : Landing(q)' => Landing(q)
  BY <1>1 DEF Landing, Others
<1>3. \A q \in Request : Landing(q)' => \A c \in spare'.holds : c.ruler \in Written
  BY <1>1, <1>2, WrittenHas
<1>4. ~Writing(r)'
  BY <1>1 DEF Writing, Landing
<1>. QED
  BY <1>1, <1>3, <1>4, QuietMove

\* A request that begins without writing.
LEMMA AskStays ==
  ASSUME LibraryTyped, RulersSound, NEW r \in Request, NEW o, NEW s \in {"save", "score"},
         NEW C, Asks(r, o, s, C),
         UNCHANGED <<files, rows>>, measure' \in [Request -> SUBSET Ruler],
         \A q \in Request \ {r} : measure'[q] = measure[q],
         measure'[r] \subseteq measure[r] \cup Written, file.there
  PROVE  RulersSound'
<1>1. /\ at'[r] = s /\ at[r] = "idle" /\ Others(r)
      /\ UNCHANGED <<file, spare, rows>>
  BY DEF Asks, MayBegin, Idle, LibraryTyped, Others, files
<1>2. \A q \in Request : Landing(q)' => Landing(q)
  BY <1>1 DEF Landing, Others
<1>3. \A q \in Request : Landing(q)' => \A c \in spare'.holds : c.ruler \in Written
  BY <1>1, <1>2, WrittenHas
<1>4. ~Writing(r)'
  BY <1>1 DEF Writing, Landing
<1>. QED
  BY <1>1, <1>3, <1>4, QuietMove

\* Only a creation brings a ruler, when no other request is under way and no
\* rows are left.
LEMMA CreateStays ==
  ASSUME LibraryTyped, Guarded, RequestsSound, RulersSound,
         NEW r \in Request, NEW c \in NewConfigs, CreateAsked(r, c)
  PROVE  RulersSound'
<1>1. /\ at' = [at EXCEPT ![r] = "open"] /\ draft' = [draft EXCEPT ![r] = {c}]
      /\ UNCHANGED <<file, spare, measure, rows>> /\ ~file.there
      /\ \A q \in Request : at[q] = "idle"
  BY DEF CreateAsked, Asks, MayBegin, Idle, Alone, Guarded, files
<1>2. file.holds = {} /\ \A q \in Request : measure[q] = {}
  BY <1>1 DEF LibraryTyped, PathSound, RequestsSound
<1>3. \A q \in Request : at'[q] = IF q = r THEN "open" ELSE "idle"
  BY <1>1 DEF LibraryTyped
<1>4. Written' \subseteq {c.ruler}
  <2>1. \A q \in Request : ~Landing(q)' /\ (Writing(q)' => draft'[q] = {c})
    BY <1>1, <1>3 DEF Landing, Writing, LibraryTyped
  <2>2. \A d \in file'.holds : d.ruler \in {c.ruler}
    BY <1>1, <1>2
  <2>. QED
    BY <2>1, <2>2, WrittenOnly
<1>5. ~PurgeFaults => rows = {}
  BY <1>1, RulersParts DEF NoFile
<1>6. ~PurgeFaults => Measured' = {}
  BY <1>1, <1>2, <1>5 DEF Measured
<1>7. NoFile'
  BY <1>1, <1>3, <1>5 DEF NoFile
<1>8. Single(Written') /\ (~PurgeFaults => Single(Written' \cup Measured'))
  BY <1>4, <1>6 DEF Single
<1>. QED
  BY <1>7, <1>8 DEF RulersSound, NoFile

\* Opening, filling and renaming the spare file keep RulersSound.
LEMMA WriteStays ==
  ASSUME LibraryTyped, Guarded, RequestsSound, RulersSound, NEW r \in Request,
         SpareOpened(r) \/ Filled(r) \/ Renamed(r)
  PROVE  RulersSound'
<1>1. /\ at \in [Request -> Steps] /\ draft \in [Request -> SUBSET Config] /\ op[r] # "tool"
      /\ handle \in [Request -> {"none", "file", "spare", "unlinked"}]
      /\ measure \in [Request -> SUBSET Ruler]
  BY DEF LibraryTyped, RequestsSound
<1>2. CASE SpareOpened(r)
  <2>1. /\ at[r] = "open" /\ at' = [at EXCEPT ![r] = "fill"] /\ spare' = Torn
        /\ UNCHANGED <<draft, measure, rows, file>>
    BY <1>2 DEF SpareOpened, Opens
  <2>2. Others(r) /\ at'[r] = "fill"
    BY <1>1, <2>1 DEF Others
  <2>3. \A c \in draft'[r] : c.ruler \in Written
    BY <2>1, WrittenHas DEF Writing
  <2>4. \A c \in spare'.holds : c.ruler \in Written
    BY <2>1 DEF Torn
  <2>. QED
    BY <2>1, <2>2, <2>3, <2>4, QuietMove
<1>3. CASE Filled(r)
  <2>1. /\ at[r] = "fill" /\ at' = [at EXCEPT ![r] = "rename"]
        /\ UNCHANGED <<draft, measure, rows>>
        /\ file' \in {file, Holding(draft[r]), Torn}
        /\ spare' \in {spare, Holding(draft[r]), Torn}
    BY <1>1, <1>3 DEF Filled, Fills, Goes
  <2>2. Others(r) /\ at'[r] = "rename"
    BY <1>1, <2>1 DEF Others
  <2>3. \A c \in draft[r] \cup file.holds \cup spare.holds : c.ruler \in Written
    BY <2>1, WrittenHas DEF Writing, Landing
  <2>4. \A c \in file'.holds \cup spare'.holds : c.ruler \in Written
    BY <2>1, <2>3 DEF Holding, Torn
  <2>5. Written' \subseteq Written
    <3>1. ASSUME NEW q \in Request, Writing(q)'
          PROVE  \A c \in draft'[q] : c.ruler \in Written
      BY <2>1, <2>2, <2>3, <3>1, WrittenHas DEF Writing, Landing, Others
    <3>. QED
      BY <2>4, <3>1, WrittenOnly
  <2>6. Measured' = Measured
    BY <2>1 DEF Measured
  <2>7. NoFile'
    <3>1. ~file'.there => ~file.there
      BY <2>1 DEF Holding, Torn
    <3>2. \A q \in Request : (at'[q] = "score" => at[q] = "score") /\ (at[q] = "purge" => at'[q] = "purge")
      BY <2>1, <2>2 DEF Others
    <3>. QED
      BY <2>1, <3>1, <3>2, RulersParts DEF NoFile
  <2>. QED
    BY <2>5, <2>6, <2>7, RulersStay
<1>4. CASE Renamed(r)
  <2>1. /\ at[r] = "rename" /\ at' = [at EXCEPT ![r] = "idle"]
        /\ draft' = [draft EXCEPT ![r] = {}]
        /\ UNCHANGED <<measure, rows>>
        /\ spare.there /\ file' = spare /\ spare' = Missing
    BY <1>4 DEF Renamed
  <2>2. Others(r) /\ at'[r] = "idle" /\ draft'[r] = {}
    BY <1>1, <2>1 DEF Others
  <2>3. \A c \in file'.holds \cup spare'.holds : c.ruler \in Written
    BY <2>1, WrittenHas DEF Landing, Missing
  <2>4. Written' \subseteq Written
    <3>1. ASSUME NEW q \in Request, Writing(q)'
          PROVE  \A c \in draft'[q] : c.ruler \in Written
      BY <2>1, <2>2, <3>1, WrittenHas DEF Writing, Landing, Others
    <3>. QED
      BY <2>3, <3>1, WrittenOnly
  <2>5. Measured' = Measured
    BY <2>1 DEF Measured
  <2>6. NoFile'
    BY <2>1 DEF NoFile
  <2>. QED
    BY <2>4, <2>5, <2>6, RulersStay
<1>. QED
  BY <1>2, <1>3, <1>4

\* Each step of a request keeps RulersSound.
LEMMA StepRulers ==
  ASSUME LibraryTyped, Guarded, RequestsSound, RulersSound, NEW r \in Request, RequestStep(r)
  PROVE  RulersSound'
<1>1. /\ at \in [Request -> Steps] /\ op \in [Request -> Kinds]
      /\ draft \in [Request -> SUBSET Config] /\ measure \in [Request -> SUBSET Ruler]
      /\ op[r] # "tool" /\ at[r] \in StepsOf(op[r])
  BY DEF LibraryTyped, RequestsSound
<1>2. ASSUME NEW c \in NewConfigs, OverwriteAsked(r, c)
      PROVE  RulersSound'
  BY <1>1, <1>2, AskStays DEF OverwriteAsked
<1>3. CASE EditAsked(r)
  BY <1>1, <1>3, AskStays, StoredIsConfig DEF EditAsked
<1>4. CASE SaveAccepts(r)
  <2>1. /\ at[r] = "save" /\ at' = [at EXCEPT ![r] = "open"] /\ Readable
        /\ UNCHANGED <<draft, measure, rows, file, spare>>
        /\ \E c \in draft[r] : c.ruler = Stored.ruler
    BY <1>4 DEF SaveAccepts, SaveAllowed, Goes, files, Allows
  <2>2. Others(r) /\ at'[r] = "open"
    BY <1>1, <2>1 DEF Others
  <2>3. \A c \in draft'[r] : c.ruler \in Written
    BY <2>1, WrittenHas, StoredIsConfig DEF LibraryTyped, Single
  <2>4. \A q \in Request : Landing(q)' => Landing(q)
    BY <2>2 DEF Landing, Others
  <2>5. \A q \in Request : Landing(q)' => \A c \in spare'.holds : c.ruler \in Written
    BY <2>1, <2>4, WrittenHas
  <2>. QED
    BY <2>1, <2>2, <2>3, <2>5, QuietMove
<1>5. CASE SaveDeclines(r) \/ RenameFails(r)
  BY <1>5, FinishStays DEF SaveDeclines, RenameFails
<1>6. CASE DeleteAsked(r)
  <2>1. /\ at' = [at EXCEPT ![r] = "purge"] /\ file' = Missing
        /\ UNCHANGED <<draft, measure, rows, spare>>
        /\ \A q \in Request : at[q] = "idle"
    BY <1>6 DEF DeleteAsked, MayBegin, Idle, Alone, Guarded
  <2>2. \A q \in Request : at'[q] = IF q = r THEN "purge" ELSE "idle"
    BY <1>1, <2>1
  <2>3. Written' \subseteq Written
    <3>1. \A q \in Request : ~Landing(q)' /\ ~Writing(q)'
      BY <2>2 DEF Landing, Writing
    <3>2. \A c \in file'.holds : c.ruler \in Written
      BY <2>1 DEF Missing
    <3>. QED
      BY <3>1, <3>2, WrittenOnly
  <2>4. Measured' = Measured
    BY <2>1 DEF Measured
  <2>5. NoFile'
    BY <2>2 DEF NoFile
  <2>. QED
    BY <2>3, <2>4, <2>5, RulersStay
<1>7. CASE Purged(r)
  <2>1. /\ at[r] = "purge" /\ Finishes(r) /\ rows' = {} /\ UNCHANGED <<file, spare>>
    BY <1>7 DEF Purged, files
  <2>2. Others(r) /\ at'[r] = "idle" /\ measure'[r] = {}
    BY <1>1, <2>1 DEF Finishes, Others
  <2>3. Written' \subseteq Written
    <3>1. \A q \in Request : Writing(q)' => Writing(q) /\ draft'[q] = draft[q]
      BY <2>2 DEF Writing, Landing, Others
    <3>2. \A q \in Request : Landing(q)' => Landing(q)
      BY <2>2 DEF Landing, Others
    <3>. QED
      BY <2>1, <3>1, <3>2, WrittenOnly, WrittenHas
  <2>4. Measured' \subseteq Measured
    BY <2>1, <2>2 DEF Measured, Others
  <2>5. NoFile'
    BY <2>1, <2>2, RulersParts DEF NoFile, Others
  <2>. QED
    BY <2>3, <2>4, <2>5, RulersStay
<1>8. CASE PassAsked(r)
  <2>1. /\ Asks(r, "pass", "score", {}) /\ UNCHANGED <<files, rows>> /\ Readable
        /\ measure' = [measure EXCEPT ![r] = {Stored.ruler}]
    BY <1>8 DEF PassAsked
  <2>2. Stored.ruler \in Written /\ Stored.ruler \in Ruler /\ file.there
    BY <2>1, StoredIsConfig, WrittenHas, ConfigParts
  <2>3. /\ measure' \in [Request -> SUBSET Ruler] /\ measure'[r] = {Stored.ruler}
        /\ \A q \in Request \ {r} : measure'[q] = measure[q]
    BY <1>1, <2>1, <2>2
  <2>. QED
    BY <2>1, <2>2, <2>3, AskStays
<1>9. CASE PassCommits(r)
  <2>1. /\ at[r] = "score" /\ Finishes(r) /\ rows' = rows \cup measure[r]
        /\ UNCHANGED <<file, spare>>
    BY <1>9 DEF PassCommits, files
  <2>2. Others(r) /\ at'[r] = "idle" /\ measure'[r] = {}
    BY <1>1, <2>1 DEF Finishes, Others
  <2>3. Written' \subseteq Written
    <3>1. \A q \in Request : Writing(q)' => Writing(q) /\ draft'[q] = draft[q]
      BY <2>2 DEF Writing, Landing, Others
    <3>2. \A q \in Request : Landing(q)' => Landing(q)
      BY <2>2 DEF Landing, Others
    <3>. QED
      BY <2>1, <3>1, <3>2, WrittenOnly, WrittenHas
  <2>4. Measured' \subseteq Measured
    BY <2>1, <2>2 DEF Measured, Others
  <2>5. NoFile'
    BY <2>1, RulersParts DEF NoFile
  <2>. QED
    BY <2>3, <2>4, <2>5, RulersStay
<1>10. ~PathOpened(r) /\ ~ToolAsked(r)
  <2>1. ~PathOpened(r)
    BY <1>1 DEF PathOpened, StepsOf, Kinds
  <2>2. ~ToolAsked(r)
    BY DEF ToolAsked, Asks, MayBegin, Guarded
  <2>. QED
    BY <2>1, <2>2
<1>. QED
  BY <1>2, <1>3, <1>4, <1>5, <1>6, <1>7, <1>8, <1>9, <1>10, CreateStays, WriteStays
  DEF RequestStep

\* So does a death: what it leaves half written holds no config.
LEMMA DeathRulers ==
  ASSUME LibraryTyped, RulersSound, Dies
  PROVE  RulersSound'
<1>1. /\ \A q \in Request : at'[q] = "idle" /\ draft'[q] = {} /\ measure'[q] = {}
      /\ UNCHANGED <<file, rows>>
      /\ PurgeFaults \/ \A q \in Request : at[q] # "purge"
  BY DEF Dies
<1>2. Written' \subseteq Written
  <2>1. \A q \in Request : ~Landing(q)' /\ ~Writing(q)'
    BY <1>1 DEF Landing, Writing
  <2>. QED
    BY <1>1, <2>1, WrittenOnly, WrittenHas
<1>3. Measured' \subseteq Measured
  BY <1>1 DEF Measured
<1>4. NoFile'
  BY <1>1, RulersParts DEF NoFile
<1>. QED
  BY <1>2, <1>3, <1>4, RulersStay
-----------------------------------------------------------------------------
(***************************************************************************)
(* One request at a time.                                                  *)
(***************************************************************************)
LEMMA SerialAlone ==
  ASSUME Serial, RequestsSound, NEW r \in Request, ~Idle(r) \/ (\E o : MayBegin(r, o))
  PROVE  \A q \in Request \ {r} : at[q] = "idle"
BY DEF Serial, RequestsSound, Overlap, Idle, MayBegin, Alone

\* Beside the one request that moves, the others stay idle with nothing open.
LEMMA WriterMoves ==
  ASSUME Serial, WritersSound, NEW r \in Request, UNCHANGED mode,
         \A q \in Request \ {r} : at[q] = "idle" /\ at'[q] = "idle"
                                  /\ (handle[q] = "none" => handle'[q] = "none"),
         file'.there => file'.holds # {},
         WriterSound(r)'
  PROVE  WritersSound'
BY DEF WritersSound, WriterSound, Writing, Landing

\* Each step of a request keeps WritersSound.
LEMMA StepWriters ==
  ASSUME LibraryTyped, Serial, RequestsSound, WritersSound, NEW r \in Request, RequestStep(r)
  PROVE  WritersSound'
<1>1. /\ at \in [Request -> Steps] /\ op \in [Request -> Kinds]
      /\ draft \in [Request -> SUBSET Config] /\ Single(draft[r])
      /\ handle \in [Request -> {"none", "file", "spare", "unlinked"}]
      /\ op[r] # "tool" /\ at[r] \in StepsOf(op[r])
      /\ WriterSound(r) /\ (file.there => file.holds # {})
  BY DEF LibraryTyped, RequestsSound, WritersSound
<1>2. ASSUME NEW c \in NewConfigs, CreateAsked(r, c) \/ OverwriteAsked(r, c)
      PROVE  WritersSound'
  <2>1. PICK s \in {"open", "save"} : Asks(r, "create", s, {c})
    BY <1>2 DEF CreateAsked, OverwriteAsked
  <2>2. /\ at' = [at EXCEPT ![r] = s] /\ draft' = [draft EXCEPT ![r] = {c}]
        /\ UNCHANGED <<mode, handle, file, spare>> /\ at[r] = "idle"
        /\ \A q \in Request \ {r} : at[q] = "idle"
    BY <1>2, <2>1, SerialAlone DEF Asks, CreateAsked, OverwriteAsked, files, MayBegin, Idle
  <2>3. s = "open" => file.holds = {}
    BY <1>1, <1>2, <2>1, <2>2 DEF CreateAsked, OverwriteAsked, Asks, LibraryTyped, PathSound
  <2>4. s = "save" => mode = "overwrite"
    BY <1>1, <1>2, <2>1, <2>2 DEF CreateAsked, OverwriteAsked, Asks, Serial
  <2>5. at'[r] = s /\ draft'[r] = {c} /\ handle'[r] = "none"
    BY <1>1, <2>2 DEF WriterSound, Landing
  <2>6. WriterSound(r)'
    BY <2>2, <2>3, <2>4, <2>5 DEF WriterSound, Writing, Landing
  <2>. QED
    BY <1>1, <2>2, <2>6, WriterMoves
<1>3. CASE EditAsked(r)
  <2>1. PICK kinds : \E c \in RequestEdits(Stored, kinds) : Asks(r, "edit", "save", {c})
    BY <1>3 DEF EditAsked
  <2>2. PICK c \in RequestEdits(Stored, kinds) : Asks(r, "edit", "save", {c})
    BY <2>1
  <2>3. /\ at' = [at EXCEPT ![r] = "save"] /\ draft' = [draft EXCEPT ![r] = {c}]
        /\ UNCHANGED <<mode, handle, file, spare>> /\ at[r] = "idle"
        /\ \A q \in Request \ {r} : at[q] = "idle"
    BY <1>3, <2>2, SerialAlone DEF Asks, EditAsked, files, MayBegin, Idle
  <2>4. EntriesStay(Stored, c) /\ file.holds = {Stored}
    BY <1>3, StoredIsConfig, RequestEdit DEF EditAsked
  <2>5. at'[r] = "save" /\ draft'[r] = {c} /\ handle'[r] = "none"
    BY <1>1, <2>3 DEF WriterSound, Landing
  <2>6. WriterSound(r)'
    BY <2>3, <2>4, <2>5 DEF WriterSound, Writing, Landing
  <2>. QED
    BY <1>1, <2>3, <2>6, WriterMoves
<1>4. CASE SaveAccepts(r)
  <2>1. /\ at[r] = "save" /\ at' = [at EXCEPT ![r] = "open"] /\ Readable
        /\ UNCHANGED <<mode, draft, handle, file, spare>>
        /\ \E c \in draft[r] : NamesStay(Stored, c)
        /\ \A q \in Request \ {r} : at[q] = "idle"
    BY <1>4, SerialAlone DEF SaveAccepts, SaveAllowed, Goes, files, Allows, NamesStay, Idle
  <2>2. \A c \in draft[r], d \in file.holds : NamesStay(d, c)
    BY <1>1, <2>1, StoredIsConfig DEF Single
  <2>3. at'[r] = "open"
    BY <1>1, <2>1
  <2>4. WriterSound(r)'
    BY <1>1, <2>1, <2>2, <2>3 DEF WriterSound, Writing, Landing
  <2>. QED
    BY <1>1, <2>1, <2>4, WriterMoves
<1>5. CASE SaveDeclines(r) \/ RenameFails(r) \/ Purged(r) \/ PassCommits(r)
  <2>1. Finishes(r) /\ UNCHANGED <<file, spare>> /\ ~Idle(r)
    BY <1>5 DEF SaveDeclines, RenameFails, Purged, PassCommits, files, Idle
  <2>2. /\ at'[r] = "idle" /\ handle'[r] = "none" /\ UNCHANGED mode
        /\ \A q \in Request \ {r} : at[q] = "idle" /\ at'[q] = "idle" /\ handle'[q] = handle[q]
    BY <1>1, <2>1, SerialAlone DEF Finishes
  <2>3. WriterSound(r)'
    BY <2>2 DEF WriterSound, Writing, Landing
  <2>. QED
    BY <1>1, <2>1, <2>2, <2>3, WriterMoves
<1>6. CASE SpareOpened(r)
  <2>1. /\ at[r] = "open" /\ at' = [at EXCEPT ![r] = "fill"] /\ spare' = Torn
        /\ handle' = [handle EXCEPT ![r] = "spare"]
        /\ UNCHANGED <<mode, draft, file>>
        /\ \A q \in Request \ {r} : at[q] = "idle"
    BY <1>6, SerialAlone DEF SpareOpened, Opens, Idle
  <2>2. at'[r] = "fill" /\ handle'[r] = "spare"
        /\ \A q \in Request \ {r} : at'[q] = at[q] /\ handle'[q] = handle[q]
    BY <1>1, <2>1
  <2>3. WriterSound(r)'
    BY <1>1, <2>1, <2>2 DEF WriterSound, Writing, Landing, Torn
  <2>. QED
    BY <1>1, <2>1, <2>2, <2>3, WriterMoves
<1>7. CASE Filled(r)
  <2>1. /\ at[r] = "fill" /\ at' = [at EXCEPT ![r] = "rename"]
        /\ UNCHANGED <<mode, draft, handle>>
        /\ \A q \in Request \ {r} : at[q] = "idle"
    BY <1>1, <1>7, SerialAlone DEF Filled, Goes, Idle
  <2>2. handle[r] = "spare" /\ spare.holds = {}
    BY <1>1, <2>1 DEF WriterSound
  <2>3. file' = file /\ spare' = Holding(draft[r])
    BY <1>7, <2>2 DEF Filled, Fills
  <2>4. at'[r] = "rename"
    BY <1>1, <2>1
  <2>5. WriterSound(r)'
    BY <1>1, <2>1, <2>3, <2>4 DEF WriterSound, Writing, Landing, Holding
  <2>. QED
    BY <1>1, <2>1, <2>3, <2>5, WriterMoves
<1>8. CASE Renamed(r)
  <2>1. /\ at[r] = "rename" /\ at' = [at EXCEPT ![r] = "idle"]
        /\ file' = spare /\ UNCHANGED mode
        /\ \A q \in Request \ {r} : at[q] = "idle"
    BY <1>8, SerialAlone DEF Renamed, Idle
  <2>2. /\ handle'[r] = "none"
        /\ \A q \in Request \ {r} : handle[q] = "none" => handle'[q] = "none"
    BY <1>8 DEF Renamed
  <2>3. at'[r] = "idle" /\ \A q \in Request \ {r} : at'[q] = at[q]
    BY <1>1, <2>1
  <2>4. file'.holds # {}
    BY <1>1, <2>1 DEF WriterSound, Writing, Landing
  <2>5. WriterSound(r)'
    BY <2>2, <2>3 DEF WriterSound, Writing, Landing
  <2>. QED
    BY <2>1, <2>2, <2>3, <2>4, <2>5, WriterMoves
<1>9. CASE DeleteAsked(r)
  <2>1. /\ at[r] = "idle" /\ at' = [at EXCEPT ![r] = "purge"]
        /\ file' = Missing /\ UNCHANGED mode
        /\ \A q \in Request \ {r} : at[q] = "idle"
    BY <1>9, SerialAlone DEF DeleteAsked, MayBegin, Idle
  <2>2. \A q \in Request : handle[q] = "none" => handle'[q] = "none"
    BY <1>9 DEF DeleteAsked
  <2>3. at'[r] = "purge" /\ \A q \in Request \ {r} : at'[q] = at[q]
    BY <1>1, <2>1
  <2>4. WriterSound(r)'
    BY <1>1, <2>1, <2>2, <2>3 DEF WriterSound, Writing, Landing
  <2>. QED
    BY <2>1, <2>2, <2>3, <2>4, WriterMoves DEF Missing
<1>10. CASE PassAsked(r)
  <2>1. /\ at[r] = "idle" /\ at' = [at EXCEPT ![r] = "score"]
        /\ UNCHANGED <<mode, handle, file, spare>>
        /\ \A q \in Request \ {r} : at[q] = "idle"
    BY <1>10, SerialAlone DEF PassAsked, Asks, MayBegin, Idle, files
  <2>2. at'[r] = "score" /\ \A q \in Request \ {r} : at'[q] = at[q]
    BY <1>1, <2>1
  <2>3. WriterSound(r)'
    BY <1>1, <2>1, <2>2 DEF WriterSound, Writing, Landing
  <2>. QED
    BY <1>1, <2>1, <2>2, <2>3, WriterMoves
<1>11. ~PathOpened(r) /\ ~ToolAsked(r)
  <2>1. ~PathOpened(r)
    BY <1>1 DEF PathOpened, StepsOf, Kinds
  <2>2. ~ToolAsked(r)
    BY DEF ToolAsked, Asks, MayBegin, Serial
  <2>. QED
    BY <2>1, <2>2
<1>. QED
  BY <1>2, <1>3, <1>4, <1>5, <1>6, <1>7, <1>8, <1>9, <1>10, <1>11 DEF RequestStep

\* So does a death.
LEMMA DeathWriters ==
  ASSUME WritersSound, Dies
  PROVE  WritersSound'
BY DEF Dies, WritersSound, WriterSound, Writing, Landing
-----------------------------------------------------------------------------
(***************************************************************************)
(* The invariant and what follows from it.                                 *)
(***************************************************************************)
LEMMA LibraryStarts == Init => LibraryInv
<1> SUFFICES ASSUME Init PROVE LibraryInv
  OBVIOUS
<1>1. /\ file.holds = {} /\ ~file.there /\ rows = {}
      /\ \A r \in Request : /\ at[r] = "idle" /\ op[r] = "none" /\ measure[r] = {}
                            /\ draft[r] = {} /\ handle[r] = "none"
  BY DEF Init, Missing
<1>2. RequestsSound
  BY <1>1 DEF RequestsSound, StepsOf, Idle
<1>3. RulersSound
  BY <1>1 DEF RulersSound, Written, Placed, Measured, Writing, Landing, Single
<1>4. WritersSound
  BY <1>1 DEF WritersSound, WriterSound, Writing, Landing
<1>. QED
  BY <1>2, <1>3, <1>4, FirstTyped DEF LibraryInv

\* LibraryInv is inductive.
LEMMA LibraryKept == LibraryInv /\ [Next]_vars => LibraryInv'
<1> SUFFICES ASSUME LibraryInv, [Next]_vars PROVE LibraryInv'
  OBVIOUS
<1>1. LibraryTyped /\ LibraryTyped' /\ (Serial => Guarded)
  BY TypeKept DEF LibraryInv, Serial, Guarded
<1>2. CASE UNCHANGED vars
  <2>1. UNCHANGED <<mode, file, spare, at, op, draft, handle, measure, rows>>
    BY <1>2 DEF vars, files
  <2>2. RequestsSound => RequestsSound'
    BY <2>1 DEF RequestsSound, Idle, Overlap
  <2>3. Written' = Written
    BY <2>1 DEF Written, Placed, Writing, Landing
  <2>4. RulersSound => RulersSound'
    BY <2>1, <2>3 DEF RulersSound, Measured
  <2>5. WritersSound => WritersSound'
    BY <2>1 DEF WritersSound, WriterSound, Writing, Landing
  <2>. QED
    BY <1>1, <2>1, <2>2, <2>4, <2>5 DEF LibraryInv, Guarded, Serial
<1>3. CASE Dies
  <2>1. mode' = mode
    BY <1>3 DEF Dies
  <2>. QED
    BY <1>1, <1>3, <2>1, DeathSound, DeathRulers, DeathWriters DEF LibraryInv, Guarded, Serial
<1>4. ASSUME NEW r \in Request, RequestStep(r)
      PROVE  LibraryInv'
  <2>1. mode' = mode
    BY <1>4 DEF CreateAsked, OverwriteAsked, EditAsked, SaveAccepts, SaveDeclines, SpareOpened,
       PathOpened, Filled, Renamed, RenameFails, DeleteAsked, Purged, PassAsked, PassCommits,
       ToolAsked, Asks, Goes, Finishes, Opens, RequestStep
  <2>2. Guarded => RequestsSound'
    BY <1>1, <1>4, StepSound DEF LibraryInv
  <2>3. Guarded => RulersSound'
    BY <1>1, <1>4, StepRulers DEF LibraryInv
  <2>4. Serial => WritersSound'
    BY <1>1, <1>4, StepWriters DEF LibraryInv
  <2>. QED
    BY <1>1, <2>1, <2>2, <2>3, <2>4 DEF LibraryInv, Guarded, Serial
<1>. QED
  BY <1>2, <1>3, <1>4, NextSteps

\* Where a file that can be read comes from, when it is another one.
LEMMA FileComesFrom ==
  ASSUME LibraryTyped, Guarded, RequestsSound, [Next]_vars, file' # file, file'.holds # {}
  PROVE  \/ ~Readable
         \/ \E r \in Request : at[r] = "fill" /\ file' = Holding(draft[r]) /\ handle[r] = "file"
         \/ \E r \in Request : at[r] = "rename" /\ file' = spare
<1>1. Missing.holds = {} /\ Torn.holds = {}
  BY DEF Missing, Torn
<1>2. ~UNCHANGED vars /\ ~Dies
  BY DEF vars, files, Dies
<1>3. PICK r \in Request : RequestStep(r)
  BY <1>2, NextSteps
<1>4. CASE Filled(r)
  BY <1>1, <1>4 DEF Filled, Fills
<1>5. CASE Renamed(r)
  BY <1>5 DEF Renamed
<1>6. CASE DeleteAsked(r) \/ PathOpened(r)
  BY <1>1, <1>6 DEF DeleteAsked, PathOpened
<1>7. CASE EditAsked(r) \/ SaveAccepts(r) \/ SaveDeclines(r) \/ SpareOpened(r)
           \/ RenameFails(r) \/ Purged(r) \/ PassAsked(r) \/ PassCommits(r) \/ ToolAsked(r)
  BY <1>7 DEF EditAsked, SaveAccepts, SaveDeclines, SpareOpened, RenameFails, Purged,
     PassAsked, PassCommits, ToolAsked, files
<1>8. ASSUME NEW c \in NewConfigs, CreateAsked(r, c) \/ OverwriteAsked(r, c)
      PROVE  FALSE
  BY <1>8 DEF CreateAsked, OverwriteAsked, files
<1>. QED
  BY <1>3, <1>4, <1>5, <1>6, <1>7, <1>8 DEF RequestStep

\* A writer fills the spare file and renames it: in whatever step it has died, a
\* reader finds a whole config or none.
THEOREM FileIsWholeHolds == Spec => []FileIsWhole
<1>1. LibraryInv => FileIsWhole
  BY DEF LibraryInv, FileIsWhole, Serial, WritersSound, Readable
<1>. QED
  BY <1>1, LibraryStarts, LibraryKept, PTL DEF Spec

\* Unless a deletion dies between the file and the rows, the rows under a
\* config's name were computed with the ruler the config has.
THEOREM RowsUnderRulerHolds ==
  ASSUME ~PurgeFaults
  PROVE  Spec => []RowsUnderRuler
<1>1. LibraryInv => RowsUnderRuler
  <2> SUFFICES ASSUME LibraryInv, Guarded, Readable PROVE rows \subseteq {Stored.ruler}
    BY DEF RowsUnderRuler, Guarded
  <2>1. Stored.ruler \in Written /\ rows \subseteq Measured
    BY StoredIsConfig, WrittenHas DEF LibraryInv, Measured
  <2>2. Single(Written \cup Measured)
    BY DEF LibraryInv, RulersSound
  <2>. QED
    BY <2>1, <2>2 DEF Single
<1>. QED
  BY <1>1, LibraryStarts, LibraryKept, PTL DEF Spec

\* However edits, passes, creations, deletions and deaths follow each other, a
\* ruler in place is not replaced by another one.
THEOREM RulerKeptHolds == Spec => RulerKept
<1>1. LibraryInv /\ [Next]_vars =>
        [Replaced /\ mode \in {"serial", "overwrite", "edits"} => SameRuler(Stored, Stored')]_vars
  <2> SUFFICES ASSUME LibraryInv, [Next]_vars, Replaced, Guarded
               PROVE  SameRuler(Stored, Stored')
    BY DEF Guarded
  <2>1. Stored \in file.holds /\ Stored' \in file'.holds
    BY DEF Replaced, Readable, Stored
  <2>2. LibraryTyped /\ RequestsSound /\ Single(Written)
    BY DEF LibraryInv, RulersSound
  <2>3. Stored' # Stored /\ file' # file /\ Readable
    BY DEF Replaced, Stored
  <2>4. Stored'.ruler \in Written
    BY <2>1, <2>2, <2>3, FileComesFrom, WrittenHas DEF Writing, Landing, Holding
  <2>5. Stored.ruler \in Written
    BY <2>1, WrittenHas
  <2>. QED
    BY <2>2, <2>4, <2>5 DEF Single, SameRuler
<1>. QED
  BY <1>1, LibraryStarts, LibraryKept, PTL DEF Spec, RulerKept

\* Of requests one at a time, overwriting or not, none drops the name of a
\* metric, and without overwriting none changes an entry that numbers hang on.
THEOREM EditsKeptHolds == Spec => EditsKept
<1>1. LibraryInv /\ [Next]_vars =>
        [Replaced => /\ mode \in {"serial", "overwrite"} => NamesStay(Stored, Stored')
                     /\ mode = "serial" => EntriesStay(Stored, Stored')]_vars
  <2> SUFFICES ASSUME LibraryInv, [Next]_vars, Replaced, Serial
               PROVE  /\ NamesStay(Stored, Stored')
                      /\ mode = "serial" => EntriesStay(Stored, Stored')
    BY DEF Serial
  <2>1. Stored \in file.holds /\ Stored' \in file'.holds
    BY DEF Replaced, Readable, Stored
  <2>2. LibraryTyped /\ Guarded /\ RequestsSound /\ WritersSound
    BY DEF LibraryInv, Serial, Guarded
  <2>3. Stored' # Stored /\ file' # file /\ Readable
    BY DEF Replaced, Stored
  <2>4. PICK r \in Request : at[r] = "rename" /\ file' = spare
    BY <2>1, <2>2, <2>3, FileComesFrom DEF WritersSound, WriterSound
  <2>5. Stored' \in draft[r] /\ Writing(r) /\ WriterSound(r)
    BY <2>1, <2>2, <2>4 DEF WritersSound, WriterSound, Writing, Landing
  <2>. QED
    BY <2>1, <2>5 DEF WriterSound
<1>. QED
  BY <1>1, LibraryStarts, LibraryKept, PTL DEF Spec, EditsKept
=============================================================================

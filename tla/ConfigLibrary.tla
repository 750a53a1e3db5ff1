--------------------------- MODULE ConfigLibrary ----------------------------
(***************************************************************************)
(* One verification config: its file, the requests of the review server    *)
(* and the commands that create, edit and delete it, and the rows that     *)
(* passes store under its name (server/library.py, config/schema.py, the   *)
(* handlers of server/app.py and the config commands of cli.py).           *)
(*                                                                         *)
(* A config is a ruler, a roster and metric entries. What a ruler measures *)
(* and what a lead list holds matter only as far as two differ, so both    *)
(* are model values. A request is one thread of the server, or a command,  *)
(* and takes the file system's steps one by one: write-then-rename goes    *)
(* through one spare path that every writer shares.                        *)
(***************************************************************************)
EXTENDS Naturals, FiniteSets

CONSTANTS
  Request,            \* what can be under way at once
  Ruler, Name, Variable, Leads, Metric, Level,
  MaxDay,             \* bound: days on which a member may be retired
  Overlapping,        \* bound: the edits made while another is under way
  Modes,              \* ways of using the library, see MayBegin
  PurgeFaults         \* may a deletion die between the file and the rows?

EditKinds == {"roster", "retire", "metrics"}

ASSUME ConfigLibraryAssumption ==
  /\ MaxDay \in Nat
  /\ Overlapping \subseteq EditKinds
  /\ Modes \subseteq {"serial", "overwrite", "edits", "tools", "free"}
  /\ PurgeFaults \in BOOLEAN

VARIABLES
  mode,               \* one of Modes, never changes
  file, spare,        \* what is at <id>.json and at <id>.json.tmp
  at, op, draft,      \* where a request is, what it is for, and what it writes
  handle,             \* the file a request has open
  measure,            \* the ruler a pass scores with
  rows                \* the rulers that stored rows were computed with

files == <<file, spare>>
vars == <<mode, files, at, op, draft, handle, measure, rows>>

\* At a path there is no file, or one that holds a config, or a torn one.
Missing == [there |-> FALSE, holds |-> {}]
Torn == [there |-> TRUE, holds |-> {}]
Holding(c) == [there |-> TRUE, holds |-> c]
Never == 0            \* active_to is absent

Membership == [variable : Variable, leads : Leads, to : 0..MaxDay]

IsConfig(c) ==
  /\ DOMAIN c = {"ruler", "roster", "metrics"} /\ c.ruler \in Ruler
  /\ c.roster \in [DOMAIN c.roster -> Membership]
  /\ DOMAIN c.roster \subseteq Name /\ DOMAIN c.roster # {}
  /\ c.metrics \in [DOMAIN c.metrics -> SUBSET Level]
  /\ DOMAIN c.metrics \subseteq Metric /\ DOMAIN c.metrics # {}
IsConfigs(C) == Cardinality(C) <= 1 /\ \A c \in C : IsConfig(c)

Readable == file.holds # {}
Stored == CHOOSE c \in file.holds : TRUE

\* Types of the file, the requests and the store.
LibraryTypeOK ==
  /\ mode \in Modes
  /\ \A f \in {file, spare} :
       /\ IsConfigs(f.holds) /\ f.there \in BOOLEAN /\ ~f.there => f = Missing
  /\ at \in [Request -> {"idle", "save", "open", "place", "fill", "rename",
                         "purge", "score"}]
  /\ op \in [Request -> {"none", "create", "edit", "delete", "pass", "tool"}]
  /\ \A r \in Request : IsConfigs(draft[r])
  /\ handle \in [Request -> {"none", "file", "spare", "unlinked"}]
  /\ measure \in [Request -> SUBSET Ruler]
  /\ rows \subseteq Ruler

Init ==
  /\ mode \in Modes
  /\ file = Missing /\ spare = Missing
  /\ at = [r \in Request |-> "idle"] /\ op = [r \in Request |-> "none"]
  /\ draft = [r \in Request |-> {}] /\ handle = [r \in Request |-> "none"]
  /\ measure = [r \in Request |-> {}]
  /\ rows = {}
-----------------------------------------------------------------------------
(***************************************************************************)
(* The rules on configs, each the config it gives.                         *)
(***************************************************************************)
\* Member names and metric items are domains, so a name is on a roster once.
Only(n, m) == [x \in {n} |-> m]
Added(f, n, m) == [x \in {n} \cup DOMAIN f |-> IF x = n THEN m ELSE f[x]]

NewConfigs ==
  {[ruler |-> u, roster |-> Only(n, m), metrics |-> Only(i, levels)] :
     u \in Ruler, n \in Name, m \in Membership, i \in Metric, levels \in SUBSET Level}

\* with_member: only the leads of a member that is there and active change.
WithMember(c, n, m) ==
  IF n \notin DOMAIN c.roster
  THEN {[c EXCEPT !.roster = Added(@, n, m)]}
  ELSE {[c EXCEPT !.roster[n].leads = m.leads] :
          x \in {k \in {n} : c.roster[k].variable = m.variable /\ c.roster[k].to = Never}}

\* with_metric_group: an item that is there is refused.
WithMetric(c, i, levels) ==
  IF i \in DOMAIN c.metrics THEN {}
  ELSE {[c EXCEPT !.metrics = Added(@, i, levels)]}

RetiredSlip(c, n, on) ==
  IF n \notin DOMAIN c.roster THEN {} ELSE {[c EXCEPT !.roster[n].to = on]}

\* retire_member: an earlier last day stands.
Retired(c, n, on) ==
  IF n \in DOMAIN c.roster /\ (c.roster[n].to = Never \/ on < c.roster[n].to)
  THEN {[c EXCEPT !.roster[n].to = on]} ELSE {}

\* config roster retire compares with nothing but the same day.
RetiredByTool(c, n, on) ==
  IF n \in DOMAIN c.roster /\ c.roster[n].to # on
  THEN {[c EXCEPT !.roster[n].to = on]} ELSE {}

MemberEdits(c) == UNION {WithMember(c, n, m) : n \in Name, m \in Membership}

\* POST .../roster, .../retire and .../metrics, after their first reads.
RequestEdits(c, kinds) ==
  (UNION {MemberEdits(c) : k \in kinds \cap {"roster"}})
  \cup (UNION {Retired(c, n, d) : n \in Name, d \in 1..MaxDay, k \in kinds \cap {"retire"}})
  \cup (UNION {WithMetric(c, i, ls) : i \in Metric, ls \in SUBSET Level,
                                      k \in kinds \cap {"metrics"}})

\* nib_verify config roster add and retire.
ToolEdits(c) ==
  MemberEdits(c) \cup (UNION {RetiredByTool(c, n, d) : n \in Name, d \in 1..MaxDay})

AllowsSlip(after, before) == TRUE

\* allows_modification_of: the ruler and the names of the metrics.
Allows(after, before) ==
  /\ after.ruler = before.ruler
  /\ DOMAIN before.metrics \subseteq DOMAIN after.metrics
-----------------------------------------------------------------------------
Idle(r) == at[r] = "idle"
Alone(r) == \A q \in Request \ {r} : Idle(q)

(***************************************************************************)
(* The modes: one request after the other, without and with overwriting    *)
(* creations; edits that overlap each other and passes; one after the      *)
(* other with commands among them; anything at any time. The server does   *)
(* nothing about it: each request is a thread.                             *)
(***************************************************************************)
MayBegin(r, o) ==
  /\ Idle(r)
  /\ o = "tool" => mode \in {"tools", "free"}
  /\ \/ Alone(r)
     \/ mode = "free"
     \/ /\ mode = "edits" /\ o \in {"edit", "pass"}
        /\ \A q \in Request : Idle(q) \/ op[q] \in {"edit", "pass"}

Goes(r, step) ==
  /\ at' = [at EXCEPT ![r] = step]
  /\ UNCHANGED <<mode, op, draft, measure>>

Asks(r, o, step, c) ==
  /\ MayBegin(r, o)
  /\ at' = [at EXCEPT ![r] = step] /\ op' = [op EXCEPT ![r] = o]
  /\ draft' = [draft EXCEPT ![r] = c]
  /\ UNCHANGED <<mode, handle>>

Finishes(r) ==
  /\ at' = [at EXCEPT ![r] = "idle"] /\ op' = [op EXCEPT ![r] = "none"]
  /\ draft' = [draft EXCEPT ![r] = {}] /\ handle' = [handle EXCEPT ![r] = "none"]
  /\ measure' = [measure EXCEPT ![r] = {}]
  /\ UNCHANGED mode

\* POST /api/configs without a file of that name: create writes it.
CreateAsked(r, c) ==
  /\ ~file.there
  /\ Asks(r, "create", "open", {c})
  /\ UNCHANGED <<files, measure, rows>>

OverwriteAskedSlip(r, c) ==  \* a way around the check of save
  /\ file.there /\ mode \in {"overwrite", "free"}
  /\ Asks(r, "create", "open", {c})
  /\ UNCHANGED <<files, measure, rows>>

\* The same with overwrite, over a file: create delegates to save.
OverwriteAsked(r, c) ==
  /\ file.there /\ mode \in {"overwrite", "free"}
  /\ Asks(r, "create", "save", {c})
  /\ UNCHANGED <<files, measure, rows>>

\* set_member, retire_member, add_metrics: get, then the edit of what it read.
EditAsked(r) ==
  /\ Readable
  /\ \E c \in RequestEdits(Stored, IF mode = "edits" THEN Overlapping ELSE EditKinds) :
       Asks(r, "edit", "save", {c})
  /\ UNCHANGED <<files, measure, rows>>

\* save: a second read of the file, the comparison, then _write.
SaveAllowed(r) ==
  Readable /\ \E c \in draft[r] : Allows(c, Stored) /\ c # Stored

SaveAccepts(r) ==
  /\ at[r] = "save" /\ SaveAllowed(r)
  /\ Goes(r, "open")
  /\ UNCHANGED <<files, handle, rows>>

SaveDeclines(r) ==
  /\ at[r] = "save" /\ ~SaveAllowed(r)
  /\ Finishes(r)
  /\ UNCHANGED <<files, rows>>

Opens(r, f) ==
  /\ at' = [at EXCEPT ![r] = "fill"]
  /\ handle' = [handle EXCEPT ![r] = f]
  /\ UNCHANGED <<mode, op, draft, measure, rows>>

SpareOpenedSlip(r) ==  \* the file itself is written
  /\ at[r] = "open"
  /\ file' = Torn /\ Opens(r, "file")
  /\ UNCHANGED spare

\* write_text of the spare path truncates what is there, whoever writes it.
SpareOpened(r) ==
  /\ at[r] = "open"
  /\ spare' = Torn /\ Opens(r, "spare")
  /\ UNCHANGED file

\* A writer that finds what another wrote since may leave a mixture.
Fills(r, f) ==
  {Holding(draft[r])} \cup {x \in {Torn} : f.holds # {}}

Filled(r) ==
  /\ at[r] = "fill"
  /\ file' \in (IF handle[r] = "file" THEN Fills(r, file) ELSE {file})
  /\ spare' \in (IF handle[r] = "spare" THEN Fills(r, spare) ELSE {spare})
  /\ IF op[r] = "tool" THEN Finishes(r) ELSE Goes(r, "rename") /\ UNCHANGED handle
  /\ UNCHANGED rows

\* Who still has the spare file open now writes the config's file.
Renamed(r) ==
  /\ at[r] = "rename" /\ spare.there
  /\ file' = spare /\ spare' = Missing
  /\ at' = [at EXCEPT ![r] = "idle"] /\ op' = [op EXCEPT ![r] = "none"]
  /\ draft' = [draft EXCEPT ![r] = {}]
  /\ handle' = [q \in Request |->
       CASE q = r -> "none"
         [] q # r /\ handle[q] = "spare" -> "file"
         [] q # r /\ handle[q] = "file" -> "unlinked"
         [] OTHER -> handle[q]]
  /\ UNCHANGED <<mode, measure, rows>>

\* Another writer has renamed the spare file: the request answers 500.
RenameFails(r) ==
  /\ at[r] = "rename" /\ ~spare.there
  /\ Finishes(r)
  /\ UNCHANGED <<files, rows>>

\* DELETE: get, unlink, and then delete_group in the store.
DeleteAsked(r) ==
  /\ Readable
  /\ MayBegin(r, "delete")
  /\ file' = Missing
  /\ at' = [at EXCEPT ![r] = "purge"] /\ op' = [op EXCEPT ![r] = "delete"]
  /\ handle' = [q \in Request |-> IF handle[q] = "file" THEN "unlinked" ELSE handle[q]]
  /\ UNCHANGED <<mode, spare, draft, measure, rows>>

PurgedSlip(r) ==  \* another group's rows
  /\ at[r] = "purge"
  /\ Finishes(r)
  /\ UNCHANGED <<files, rows>>

Purged(r) ==
  /\ at[r] = "purge"
  /\ rows' = {}
  /\ Finishes(r)
  /\ UNCHANGED files

\* A pass scores with the config it read at the start.
PassAsked(r) ==
  /\ Readable
  /\ Asks(r, "pass", "score", {})
  /\ measure' = [measure EXCEPT ![r] = {Stored.ruler}]
  /\ UNCHANGED <<files, rows>>

PassCommits(r) ==
  /\ at[r] = "score"
  /\ rows' = rows \cup measure[r]
  /\ Finishes(r)
  /\ UNCHANGED files

\* nib_verify config create --force, roster add, roster retire: dump writes in place.
ToolAsked(r) ==
  /\ \E c \in NewConfigs \cup (IF Readable THEN ToolEdits(Stored) ELSE {}) :
       Asks(r, "tool", "place", {c})
  /\ UNCHANGED <<files, measure, rows>>

PathOpened(r) ==
  /\ at[r] = "place"
  /\ file' = Torn /\ Opens(r, "file")
  /\ UNCHANGED spare

\* The server dies, and every request with it. What it leaves in the spare file
\* is never read: the next writer truncates it.
Dies ==
  /\ \E r \in Request : ~Idle(r)
  /\ PurgeFaults \/ \A r \in Request : at[r] # "purge"
  /\ at' = [r \in Request |-> "idle"] /\ op' = [r \in Request |-> "none"]
  /\ draft' = [r \in Request |-> {}] /\ handle' = [r \in Request |-> "none"]
  /\ measure' = [r \in Request |-> {}]
  /\ spare' = (IF spare.there THEN Torn ELSE Missing)
  /\ UNCHANGED <<mode, file, rows>>

Next ==
  \/ \E r \in Request :
       \/ \E c \in NewConfigs : CreateAsked(r, c) \/ OverwriteAsked(r, c)
       \/ EditAsked(r) \/ SaveAccepts(r) \/ SaveDeclines(r)
       \/ SpareOpened(r) \/ PathOpened(r) \/ Filled(r)
       \/ Renamed(r) \/ RenameFails(r)
       \/ DeleteAsked(r) \/ Purged(r)
       \/ PassAsked(r) \/ PassCommits(r)
       \/ ToolAsked(r)
  \/ Dies

Spec == Init /\ [][Next]_vars
-----------------------------------------------------------------------------
(***************************************************************************)
(* Properties. The modes a property holds in say what it rests on.         *)
(***************************************************************************)
\* A reader never sees half a config, in whatever step a writer has died:
\* _write fills the spare file and renames it.
FileIsWhole == mode \in {"serial", "overwrite"} /\ file.there => Readable

Replaced == Readable /\ Readable' /\ Stored # Stored'

\* The ruler in place is never replaced by another one, although requests
\* check it in one step and write in a later one (ConfigLibrary.save).
SameRuler(c, d) == c.ruler = d.ruler
RulerKept ==
  [][Replaced /\ mode \in {"serial", "overwrite", "edits"} => SameRuler(Stored, Stored')]_vars

\* Rows of a config were all computed with the ruler it has, through deletions
\* and creations under the same name and under passes that outlive an edit.
RowsUnderRuler ==
  mode \in {"serial", "overwrite", "edits"} /\ Readable => rows \subseteq {Stored.ruler}

NamesStay(c, d) == DOMAIN c.metrics \subseteq DOMAIN d.metrics
EntriesStay(c, d) ==
  /\ \A i \in DOMAIN c.metrics : i \in DOMAIN d.metrics /\ d.metrics[i] = c.metrics[i]
  /\ \A n \in DOMAIN c.roster :
       /\ n \in DOMAIN d.roster
       /\ d.roster[n].variable = c.roster[n].variable
       /\ c.roster[n].to # Never => d.roster[n].to \in 1..c.roster[n].to

\* No request drops a metric name, not even by overwriting (_dropped_metrics); and
\* of requests one at a time, what stored numbers are numbers of stays: the levels
\* of a metric, the variable of a member, a retirement only moved to an earlier day.
EditsKept ==
  [][Replaced => /\ mode \in {"serial", "overwrite"} => NamesStay(Stored, Stored')
                 /\ mode = "serial" => EntriesStay(Stored, Stored')]_vars
=============================================================================

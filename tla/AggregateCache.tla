--------------------------- MODULE AggregateCache ---------------------------
(***************************************************************************)
(* The review server's memory of aggregations (_aggregate in server/app.py)*)
(* beside the store that passes write: threads that answer /api/scores and *)
(* /api/chart, and one pass that commits rows and closes its connection.   *)
(*                                                                         *)
(* What the store holds is a version number. The sizes of its two files    *)
(* stand for the stamp: SQLite appends a commit to the log, or writes it   *)
(* over pages the log already has, and the last connection to close moves  *)
(* the log into the main file, which grows by the rows that are new.       *)
(***************************************************************************)
EXTENDS Naturals, Sequences, SequencesExt, FiniteSets, FiniteSetsExt

CONSTANTS
  Asker, Query,
  AGGREGATES_MAX,
  LogPages,         \* commits the log takes before it is written over
  MaxVersion        \* bound: commits to the store

ASSUME AggregateCacheAssumption ==
  /\ AGGREGATES_MAX \in Nat \ {0}
  /\ LogPages \in Nat /\ MaxVersion \in Nat

VARIABLES
  grows,            \* do the files grow with every commit? never changes
  version, size, log, grown,  \* the store: content, main file, log, rows not yet in main
  cache,            \* <<stamp, query, version>>, least recently used first
  asker             \* each thread: where it is, its stamp, its query, its answer

storeFiles == <<grows, version, size, log, grown>>
cacheVars == <<storeFiles, cache, asker>>

NoRequest == [step |-> "idle", query |-> {}, stamp |-> <<0, 0>>, since |-> 0, value |-> 0]

CacheInit ==
  /\ grows \in BOOLEAN
  /\ version = 0 /\ size = 0 /\ log = 0 /\ grown = 0
  /\ cache = <<>>
  /\ asker = [a \in Asker |-> NoRequest]
-----------------------------------------------------------------------------
(***************************************************************************)
(* The store's files.                                                      *)
(***************************************************************************)
Commits(new) ==
  /\ version < MaxVersion /\ version' = version + 1
  /\ grown' = grown + (IF new THEN 1 ELSE 0)
  /\ log' = (IF log < LogPages THEN log + 1 ELSE log)
  /\ UNCHANGED <<grows, size, cache, asker>>

\* With room in the log every commit makes it longer.
RowsCommitted == log < LogPages /\ Commits(TRUE)

\* A forced pass replaces rows by rows of the same size, a few rows fit in a
\* page that is there, and a long pass writes over the log's first pages.
SameSizeCommitted == ~grows /\ \E new \in BOOLEAN : Commits(new)

StoreClosed ==
  /\ log > 0
  /\ log' = 0 /\ size' = size + grown /\ grown' = 0
  /\ UNCHANGED <<grows, version, cache, asker>>
-----------------------------------------------------------------------------
(***************************************************************************)
(* _aggregate(key, build), by the threads of the server.                   *)
(***************************************************************************)
Moves(a, r) == asker' = [asker EXCEPT ![a] = r] /\ UNCHANGED storeFiles
Entries(stamp, q) == {k \in 1..Len(cache) : cache[k][1] = stamp /\ cache[k][2] = q}

\* A request opens the store; what it reads is never older than this.
RequestOpens(a, q) ==
  /\ asker[a].step \in {"idle", "answered", "gone"}
  /\ Moves(a, [NoRequest EXCEPT !.step = "stamp", !.query = {q}, !.since = version])
  /\ UNCHANGED cache

QueryOf(a) == CHOOSE q \in asker[a].query : TRUE

\* The sizes of the two files, before anything else.
Stamped(a) ==
  /\ asker[a].step = "stamp"
  /\ Moves(a, [asker[a] EXCEPT !.step = "look", !.stamp = <<size, log>>])
  /\ UNCHANGED cache

Looked(a) ==
  /\ asker[a].step = "look"
  /\ Moves(a, [asker[a] EXCEPT !.step =
       IF Entries(asker[a].stamp, QueryOf(a)) # {} THEN "touch" ELSE "build"])
  /\ UNCHANGED cache

\* move_to_end and the read; another thread may have dropped the entry since.
Touched(a) ==
  /\ asker[a].step = "touch"
  /\ \E k \in Entries(asker[a].stamp, QueryOf(a)) :
       /\ Moves(a, [asker[a] EXCEPT !.step = "answered", !.value = cache[k][3]])
       /\ cache' = Append(RemoveAt(cache, k), cache[k])

\* KeyError, which the server answers with 404.
TouchFails(a) ==
  /\ asker[a].step = "touch" /\ Entries(asker[a].stamp, QueryOf(a)) = {}
  /\ Moves(a, [asker[a] EXCEPT !.step = "gone"])
  /\ UNCHANGED cache

WithEntry(stamp, q, v) ==
  IF Entries(stamp, q) = {} THEN Append(cache, <<stamp, q, v>>)
  ELSE [k \in 1..Len(cache) |-> IF k \in Entries(stamp, q) THEN <<stamp, q, v>> ELSE cache[k]]

BuiltSlip(a) ==  \* the stamp is taken when the value is kept
  /\ asker[a].step = "build"
  /\ \E v \in asker[a].since..version :
       /\ Moves(a, [asker[a] EXCEPT !.step = "trim", !.value = v])
       /\ cache' = WithEntry(<<size, log>>, QueryOf(a), v)

\* build() reads the store at some moment, and the value is kept under the
\* stamp taken before it.
Built(a) ==
  /\ asker[a].step = "build"
  /\ Moves(a, [asker[a] EXCEPT !.step = "trim", !.value = version])
  /\ cache' = WithEntry(asker[a].stamp, QueryOf(a), version)

Trimmed(a) ==
  /\ asker[a].step = "trim"
  /\ IF Len(cache) > AGGREGATES_MAX
     THEN /\ cache' = Tail(cache)
          /\ UNCHANGED <<asker, storeFiles>>
     ELSE /\ Moves(a, [asker[a] EXCEPT !.step = "answered"])
          /\ UNCHANGED cache

CacheNext ==
  \/ RowsCommitted \/ SameSizeCommitted \/ StoreClosed
  \/ \E a \in Asker :
       \/ \E q \in Query : RequestOpens(a, q)
       \/ Stamped(a) \/ Looked(a) \/ Touched(a) \/ TouchFails(a) \/ Built(a) \/ Trimmed(a)

CacheSpec == CacheInit /\ [][CacheNext]_cacheVars
-----------------------------------------------------------------------------
\* An answer is what the store held at some moment of its request, although
\* commits and other threads come between the stamp, the look and the build.
\* It rests on files that grow with every commit.
AnswerIsCurrent == grows =>
  \A a \in Asker : asker[a].step = "answered" => asker[a].value >= asker[a].since
=============================================================================

------------------------------- MODULE Samples -------------------------------
(***************************************************************************)
(* Sample windows: what the ingestion lists, checks and reads of a SEVIR   *)
(* file (ingestion/samples.py, ingestion/sevir.py) and of a directory of   *)
(* radar mosaics (ingestion/cma_radar.py), and the frames a model of the   *)
(* adapters is given of a window (the nowcastnet adapters and their likes)     *)
(* with the weights it runs on (utils/weights.py).                         *)
(*                                                                         *)
(* Times count cadences: the 5 minutes of SEVIR, the 6 of the radar. The   *)
(* number of context and target frames is made small for a model.          *)
(***************************************************************************)
EXTENDS Integers, Sequences, SequencesExt, FiniteSets, FiniteSetsExt

CONSTANTS Context, Target   \* CONTEXT and TARGET: 6 and 20 frames
Frames == Context + Target
Leads == 1..Target          \* lead_minutes, in cadences

Page(s, offset, limit) == SubSeq(s, offset + 1, Min({offset + limit, Len(s)}))

\* What a listing says of a window and what reading it gives, for one start.
Window(event, start) == [event |-> event, start |-> start, init |-> start + Context - 1]
-----------------------------------------------------------------------------
(***************************************************************************)
(* SEVIR. The processed file declares its frame counts; a row of it has    *)
(* the event and start it is found by, the time its event has and the      *)
(* offsets of its frames from it, and is sound when its frames have their  *)
(* shape and no NaN. A catalog line is of VIL or not, and its grid is      *)
(* usable or not.                                                          *)
(***************************************************************************)
VilLines(catalog, event) == {i \in DOMAIN catalog : catalog[i].vil /\ catalog[i].event = event}

\* read_grid, and grid_from_row for the one line there must be.
Usable(line) == line.usable
HasGrid(catalog, event) ==
  LET lines == VilLines(catalog, event)
  IN Cardinality(lines) = 1 /\ \A i \in lines : Usable(catalog[i])

Rows(file, event, start) ==
  {i \in DOMAIN file.rows : file.rows[i].event = event /\ file.rows[i].start = start}

\* list_samples: a catalog that has an event twice gives no list at all, and a
\* window is ready when its event has a grid.
SevirCatalogRead(catalog) == \A i, j \in DOMAIN catalog :
  catalog[i].vil /\ catalog[j].vil /\ catalog[i].event = catalog[j].event => i = j
ListSevir(file, catalog, offset, limit) ==
  IF ~SevirCatalogRead(catalog) \/ ~file.declared THEN {}
  ELSE {[i \in 1..Len(Page(file.rows, offset, limit)) |->
           LET row == Page(file.rows, offset, limit)[i]
           IN [window |-> Window(row.event, row.start), row |-> offset + i,
               ready  |-> HasGrid(catalog, row.event)]]}

\* check_window, from metadata alone.
CheckSevir(file, catalog, event, start) ==
  Cardinality(Rows(file, event, start)) = 1 /\ HasGrid(catalog, event)

\* read_window: the frames must be where the start says, one cadence apart.
FrameTimes(row) == [k \in 1..Frames |-> row.base + row.offsets[k]]
FramesFit(row) == \A k \in 1..Frames : FrameTimes(row)[k] = row.start + k - 1
ReadSevir(file, catalog, event, start) ==
  LET rows == Rows(file, event, start)
      at == CHOOSE i \in rows : TRUE
      row == file.rows[at]
  IN IF Cardinality(rows) = 1 /\ FramesFit(row) /\ row.sound /\ HasGrid(catalog, event)
     THEN {[window  |-> Window(event, FrameTimes(row)[1]), row |-> at,
            context |-> [k \in 1..Context |-> FrameTimes(row)[k]],
            target  |-> [k \in 1..Target |-> FrameTimes(row)[Context + k]]]}
     ELSE {}
-----------------------------------------------------------------------------
(***************************************************************************)
(* Radar mosaics. A file has its time, its generation, whether the regional*)
(* grid lies inside it and which of the grid's pixels it holds; days have  *)
(* some cadences, and only one month is taken.                             *)
(***************************************************************************)
OldFileSlip(files, month) ==
  LET taken == {f \in files : f.time \in month}
  IN [t \in {f.time : f \in taken} |->
        CHOOSE f \in taken : f.time = t /\ \A g \in taken : g.time = t => f.generation <= g.generation]

\* file_index: the newest generation of each time of the month.
FileIndex(files, month) ==
  LET taken == {f \in files : f.time \in month}
  IN [t \in {f.time : f \in taken} |->
        CHOOSE f \in taken : f.time = t /\ \A g \in taken : g.time = t => g.generation <= f.generation]

DayOf(t, day) == t \div day
WindowTimes(start) == [k \in 1..Frames |-> start + k - 1]

\* list_samples of one day, or of all.
StartsOf(index, day, of) ==
  SetToSortSeq({t \in DOMAIN index : ToSet(WindowTimes(t)) \subseteq DOMAIN index
                                       /\ \A d \in of : DayOf(t, day) = d}, <)
ListCma(index, day, of, offset, limit) ==
  LET starts == StartsOf(index, day, of)
      page == Page(starts, offset, limit)
  IN IF DOMAIN index = {} THEN {}
     ELSE {[total   |-> Len(starts),
            days    |-> {DayOf(t, day) : t \in ToSet(StartsOf(index, day, {}))},
            samples |-> [i \in 1..Len(page) |-> [window |-> Window(DayOf(page[i], day), page[i]),
                                                 row |-> offset + i, ready |-> TRUE]]]}

\* _check and check_window.
CheckCma(index, day, event, start) ==
  DOMAIN index # {} /\ event = DayOf(start, day) /\ ToSet(WindowTimes(start)) \subseteq DOMAIN index

\* read_window: every frame on the regional grid, with no hole in the context.
ReadCma(index, day, event, start) ==
  IF /\ CheckCma(index, day, event, start)
     /\ \A t \in ToSet(WindowTimes(start)) : index[t].covers
     /\ \A k \in 1..Context : index[WindowTimes(start)[k]].whole
  THEN {[window  |-> Window(event, start),
         row     |-> Cardinality({t \in DOMAIN index : t <= start}),
         frames  |-> [k \in 1..Frames |-> index[WindowTimes(start)[k]]],
         context |-> [k \in 1..Context |-> WindowTimes(start)[k]],
         target  |-> [k \in 1..Target |-> WindowTimes(start)[Context + k]]]}
  ELSE {}
-----------------------------------------------------------------------------
(***************************************************************************)
(* Models. _latest: the last frames the model takes, the very last again   *)
(* where there are fewer; the radar's model takes no fewer.                *)
(***************************************************************************)
Wanted == Context - 1       \* _CONTEXT_FRAMES: 5 of 6
Latest(frames) ==
  LET padded == IF Len(frames) >= Wanted THEN frames
                ELSE frames \o [i \in 1..Wanted - Len(frames) |-> Last(frames)]
  IN SubSeq(padded, Len(padded) - Wanted + 1, Len(padded))
PrepareSevir(frames) == IF frames = <<>> THEN {} ELSE {Latest(frames)}
PrepareCma(frames) == IF Len(frames) < Wanted THEN {} ELSE {Latest(frames)}

\* predict: a frame for each lead, of the time the last prepared frame is of.
PredictSevir(prepared) == [l \in Leads |-> prepared[Wanted] + l]
PredictCma(prepared) == IF Len(prepared) = Wanted THEN PredictSevir(prepared) ELSE <<>>

\* ensure_weights: what is at the place, after and beside what is returned. A
\* download gives the pinned file, another one, or fails.
Ensure(pin, at, download) ==
  CASE pin.complete /\ at = {"pinned"} -> [ready |-> TRUE, at |-> at]
    [] pin.complete /\ at # {"pinned"} /\ pin.address /\ download = "pinned" ->
         [ready |-> TRUE, at |-> {"pinned"}]
    [] pin.complete /\ at # {"pinned"} /\ pin.address /\ download = "other" -> [ready |-> FALSE, at |-> {}]
    [] OTHER -> [ready |-> FALSE, at |-> at]

\* _ready: a file that is handed over and is the pinned one is used as it is.
Ready(pin, given, at, download) ==
  IF given = {"pinned"} THEN [ready |-> TRUE, at |-> at] ELSE Ensure(pin, at, download)
-----------------------------------------------------------------------------
\* A window reads as it is listed: its first frame at the start, its context up
\* to the init time, a target frame at init plus each lead, and the model's
\* frames the last ones up to the init time and its forecast at the target's times.
FramesOf(read) ==
  /\ read.context[1] = read.window.start /\ read.context[Context] = read.window.init
  /\ \A l \in Leads : read.target[l] = read.window.init + l
  /\ \A p \in PrepareSevir(read.context) \cup PrepareCma(read.context) :
       /\ \A i \in 1..Wanted : p[i] = read.window.init - (Wanted - i)
       /\ PredictSevir(p) = read.target /\ PredictCma(p) = read.target

\* What SEVIR lists as ready is checked and read as listed, unless the file has
\* it twice or its frames are not what they should be; whatever is read was
\* listed, pages do not overlap and leave nothing out.
SevirAgrees(file, catalog, limit) ==
  LET n == Len(file.rows)
      all == ListSevir(file, catalog, 0, n)
      pages == [p \in 1..n |-> ListSevir(file, catalog, limit * (p - 1), limit)]
      paged == FlattenSeq([p \in 1..n |-> IF pages[p] = {} THEN <<>> ELSE CHOOSE s \in pages[p] : TRUE])
  IN /\ \A listed \in all : paged = listed
     /\ \A listed \in all : \A i \in DOMAIN listed :
          LET w == listed[i].window
              read == ReadSevir(file, catalog, w.event, w.start)
              single == Cardinality(Rows(file, w.event, w.start)) = 1
          IN /\ CheckSevir(file, catalog, w.event, w.start) <=> listed[i].ready /\ single
             /\ listed[i].ready /\ single /\ FramesFit(file.rows[i]) /\ file.rows[i].sound <=> read # {}
             /\ \A r \in read : r.window = w /\ r.row = listed[i].row /\ FramesOf(r)

\* What the radar lists is what it checks, on its day and on no other, and what
\* it reads is as listed, each frame from the newest file of its time.
CmaAgrees(files, month, day, of, limit) ==
  LET index == FileIndex(files, month)
      listing == ListCma(index, day, of, 0, Cardinality(files))
      listed == UNION {ToSet(l.samples) : l \in listing}
  IN /\ \A all \in listing, some \in ListCma(index, day, of, limit, limit) :
          all.total = Len(all.samples) /\ some.samples = Page(all.samples, limit, limit)
     /\ \A start \in month, event \in {DayOf(t, day) : t \in month} :
          /\ CheckCma(index, day, event, start) /\ (of # {} => event \in of)
               <=> \E s \in listed : s.window = Window(event, start)
          /\ \A read \in ReadCma(index, day, event, start) :
               /\ FramesOf(read) /\ \A all \in listing : event \in all.days
               /\ \A k \in 1..Frames, f \in files :
                    f.time = start + k - 1 => f.generation <= read.frames[k].generation

\* A model runs on the weights its pin names, and a failed download leaves none
\* that pass for them.
RunsOnThePin(pin, given, at, download) ==
  LET after == Ready(pin, given, at, download)
  IN /\ after.ready => "pinned" \in given \cup after.at
     /\ after.at = {"pinned"} => after.ready \/ ~pin.complete
     /\ Ready(pin, given, after.at, "fails").ready <=> after.ready
=============================================================================

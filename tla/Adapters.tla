------------------------------ MODULE Adapters ------------------------------
(***************************************************************************)
(* The data adapters: what a request must be (interfaces/data.py,          *)
(* utils/paths.py) and which of the files that lie under the data          *)
(* directory each source reads for it (himawari9, fy4b, gk2a, mtg,         *)
(* cma_radar, sevir and the mlcast stores, under adapters/).               *)
(*                                                                         *)
(* A time counts ticks, and a minute has two of them: some sources name    *)
(* their files to the minute and some to the second. An archive is a set   *)
(* of files; a file that does not bear the name its source looks for is    *)
(* not named. A load gives a set of at most one bundle.                    *)
(***************************************************************************)
EXTENDS Integers, Sequences, SequencesExt, FiniteSets, FiniteSetsExt

Minutes(n) == 2 * n
WholeMinute(t) == t - (t % Minutes(1))
One(S) == CHOOSE e \in S : TRUE
Only(condition, value) == IF condition THEN {value} ELSE {}
-----------------------------------------------------------------------------
Satellites == {"himawari9", "fy4b", "gk2a", "mtg"}
Sources == Satellites \cup {"cma_radar", "sevir", "mlcast"}   \* mlcast stands for the seven

\* native_cadence_minutes, with seven minutes made small enough for a model.
Cadence(source) == IF source = "mlcast" THEN 2 ELSE 5
ContextFrames == 6

\* A requested channel is the one it names and whether it is spelled as declared.
Declared == [id |-> 0, asDeclared |-> TRUE]

\* request_from_mapping: a document with every key, a box of four numbers and a
\* list of channels.
IsRequest(doc) == doc.keys /\ doc.box = "four numbers" /\ doc.list

\* resolve_data_dir on a host that is not Windows.
Resolves(r) ==
  /\ r.dir \notin {"empty", "foreign absolute"}
  /\ r.dir # "absolute" => r.root /\ r.dir \notin {"has a parent step", "leaves by a link"}

\* validate_request, and the two sources that ask for more.
ValidRequest(r) ==
  /\ r.steps >= 1 /\ r.interval >= 1 /\ r.channels # <<>>
  /\ r.bbox.west < r.bbox.east /\ r.bbox.south < r.bbox.north
  /\ r.source \notin Satellites => ToSet(r.channels) \subseteq {Declared}
  /\ Resolves(r)
  /\ r.source = "sevir" => r.interval = Cadence("sevir")
  /\ r.source = "mlcast" => r.interval % Cadence("mlcast") = 0

\* build_requested_times and its likes: the history ends at the initial time.
RequestedTimes(r) == [i \in 1..r.steps |-> r.initial - Minutes(r.interval) * (r.steps - i)]

Named(archive) == {f \in archive : f.named}  \* scan_local_files

\* What a loader gives: a field for each time and channel, or nothing.
Bundle(times, channels, fields(_, _)) ==
  Only(channels # {} /\ \A t \in times, c \in channels : fields(t, c) # {},
       [t \in times |-> [c \in channels |-> One(fields(t, c))]])
-----------------------------------------------------------------------------
(***************************************************************************)
(* The satellites: the files a channel is read from at a time. The region  *)
(* is recorded and nothing is cropped.                                     *)
(***************************************************************************)
\* normalize_channel: the spellings of a channel come to one, and one that the
\* instrument does not have stops the load.
Ids(r) == {c.id : c \in ToSet(r.channels)}
AhiChannels(r) == IF Ids(r) \subseteq 1..16 THEN Ids(r) ELSE {}
AgriChannels(r) == IF Ids(r) \subseteq 1..15 THEN Ids(r) ELSE {}
FciChannels(r) == Ids(r)

\* Himawari-9: all segments of the full disk, or of whatever area there is.
HimawariFiles(files, t, channel) ==
  LET mine == {f \in files : f.satellite = "H09" /\ f.start = WholeMinute(t) /\ f.channel = channel}
      disk == {f \in mine : f.area = "FLDK"}
      used == IF disk # {} THEN disk ELSE mine
      totals == {f.total : f \in used}
  IN Only(Cardinality(totals) = 1 /\ 1..One(totals) \subseteq {f.segment : f \in used}, used)

LoadHimawari(r, archive) ==
  Bundle(ToSet(RequestedTimes(r)), AhiChannels(r),
         LAMBDA t, c : HimawariFiles(Named(archive), t, c))

\* FY-4B: everything that starts then, to the second, with an FDI file in it,
\* and no channel that the decoder does not find there.
Fy4bFiles(files, t) ==
  LET at == {f \in files : f.start = t}
  IN Only(\E f \in at : f.product = "FDI", at)
AgriDecodes(files, channel) == \E f \in files : channel \in f.holds

LoadFy4b(r, archive) ==
  Bundle(ToSet(RequestedTimes(r)), AgriChannels(r),
         LAMBDA t, c : {fs \in Fy4bFiles(Named(archive), t) : AgriDecodes(fs, c)})

\* GK2A: the one file of the time and channel, which must hold the pixels and
\* not say that it is another channel's.
Gk2aFile(files, t, channel) ==
  LET at == {f \in files : f.start = WholeMinute(t) /\ f.channel = channel}
  IN Only(Cardinality(at) = 1, at)

LoadGk2a(r, archive) ==
  Bundle(ToSet(RequestedTimes(r)), Ids(r),
         LAMBDA t, c : {fs \in Gk2aFile(Named(archive), t, c) :
                          \A f \in fs : f.pixels /\ f.says \in {{}, {c}}})

\* MTG: the body chunks of the repeat cycle that begins then.
NominalStart(f, day) == f.start - (f.start % Minutes(day)) + Minutes(Cadence("mtg")) * (f.cycle - 1)
MtgFiles(files, t, day) ==
  LET body == {f \in files : NominalStart(f, day) = WholeMinute(t) /\ f.role = "BODY"}
  IN Only(body # {}, body)
FciDecodes(files, channel) == \E f \in files : channel \in f.holds

LoadMtg(r, archive, day) ==
  Bundle(ToSet(RequestedTimes(r)), FciChannels(r),
         LAMBDA t, c : {fs \in MtgFiles(Named(archive), t, day) : FciDecodes(fs, c)})
-----------------------------------------------------------------------------
(***************************************************************************)
(* CMA radar mosaics. Coordinates count half cells of the grid; a file has *)
(* the coordinates of its rows and columns and the bounds it declares.     *)
(***************************************************************************)
OldestSlip(files, t) ==
  LET at == {f \in files : f.time = t}
  IN {f \in at : \A g \in at : f.generation <= g.generation}

\* _select_latest_generation and load_cma_npz: one of the newest for the time.
Newest(files, t) ==
  LET at == {f \in files : f.time = t}
  IN {f \in at : \A g \in at : g.generation <= f.generation}

Between(axis, from, to) == {i \in DOMAIN axis : axis[i] \in from..to}
Slice(cells) == Min(cells)..Max(cells)

\* _crop_bbox and _crop: half a cell beyond the declared bounds is tolerated.
InDomain(f, box) ==
  /\ box.west >= f.bounds.west - 1 /\ box.east <= f.bounds.east + 1
  /\ box.south >= f.bounds.south - 1 /\ box.north <= f.bounds.north + 1
Crop(f, box) ==
  LET columns == Between(f.longitude, box.west, box.east)
      rows == Between(f.latitude, box.south, box.north)
  IN Only(InDomain(f, box) /\ columns # {} /\ rows # {},
          [file |-> f, rows |-> Slice(rows), columns |-> Slice(columns)])

\* read_cref and the checks of an archive: the file is read and cropped if its
\* values fit its rows and columns.
ReadMosaic(files, t, box) ==
  LET picked == One(Newest(files, t))   \* among equals, what the file system lists first
  IN IF Newest(files, t) # {} /\ picked.sound THEN Crop(picked, box) ELSE {}

\* load_cma_radar: binary files under another name are passed over.
LoadCref(r, files) ==
  IF Len(r.channels) = 1
  THEN Bundle(ToSet(RequestedTimes(r)), {Declared.id},
              LAMBDA t, c : ReadMosaic(Named(files), t, r.bbox))
  ELSE {}

\* load_cma_npz: an archive without its times stops the load.
LoadNpz(r, files) ==
  IF files = Named(files)
  THEN Bundle(ToSet(RequestedTimes(r)), {Declared.id},
              LAMBDA t, c : ReadMosaic(files, t, r.bbox))
  ELSE {}

\* Source.load: archives right under the directory, or else binary files anywhere.
LoadCma(r, archive) ==
  LET packed == {f \in archive : f.packed /\ f.onTop}
  IN IF packed # {} THEN LoadNpz(r, packed) ELSE LoadCref(r, {f \in archive : ~f.packed})
-----------------------------------------------------------------------------
(***************************************************************************)
(* SEVIR windows and the mlcast stores.                                    *)
(***************************************************************************)
\* _match_row: the one window that starts then.
MatchRow(rows, start) ==
  LET matching == {i \in DOMAIN rows : rows[i].start = start}
  IN Only(Cardinality(matching) = 1, One(matching))

\* sevir Source.load: the context of the window that STARTS at the initial time,
\* six frames of it, whatever number of steps was asked for.
LoadSevir(r, file) ==
  LET row == MatchRow(file, r.initial)
  IN IF row = {} \/ ~file[One(row)].shaped THEN {}
     ELSE {[t \in {r.initial + Minutes(Cadence("sevir")) * i : i \in 0..ContextFrames - 1} |->
              [c \in {Declared.id} |-> [row |-> One(row),
                 frame |-> (t - r.initial) \div Minutes(Cadence("sevir")) + 1]]]}

\* spatial_selection: the grid may be rotated, so what lies outside is masked.
InBox(point, box) == point.lon \in box.west..box.east /\ point.lat \in box.south..box.north
Inside(grid, box) == {c \in DOMAIN grid : InBox(grid[c], box)}
Covers(grid, box) ==
  LET lons == {grid[c].lon : c \in DOMAIN grid}
      lats == {grid[c].lat : c \in DOMAIN grid}
  IN /\ box.west >= Min(lons) /\ box.east <= Max(lons)
     /\ box.south >= Min(lats) /\ box.north <= Max(lats)

\* _crop_selected: a cell keeps its value, or none if it is missing or outside.
Cropped(store, t, box) ==
  [c \in DOMAIN store.grid |-> IF c \in Inside(store.grid, box) THEN store.frames[t][c] ELSE {}]

LocateStore(stores) == Only(Cardinality(stores) = 1, One(stores))  \* locate_store

\* MLCastZarrSource.load: all times, and no frame without a value in the box.
LoadStore(r, stores) ==
  LET times == ToSet(RequestedTimes(r))
      frame(store, t) == LET f == Cropped(store, t, r.bbox)
                         IN Only(\E c \in DOMAIN f : f[c] # {}, f)
  IN UNION {IF store.declared /\ times \subseteq DOMAIN store.frames /\ Covers(store.grid, r.bbox)
            THEN Bundle(times, {Declared.id}, LAMBDA t, c : frame(store, t)) ELSE {} :
              store \in LocateStore(stores)}
-----------------------------------------------------------------------------
\* adapters.__main__.run up to the bundle: the request is checked, the directory
\* must be there, and the source loads.
Load(r, exists, archive, day) ==
  IF ~IsRequest(r.doc) \/ ~ValidRequest(r) \/ ~exists THEN {}
  ELSE CASE r.source = "himawari9" -> LoadHimawari(r, archive)
         [] r.source = "fy4b" -> LoadFy4b(r, archive)
         [] r.source = "gk2a" -> LoadGk2a(r, archive)
         [] r.source = "mtg" -> LoadMtg(r, archive, day)
         [] r.source = "cma_radar" -> LoadCma(r, archive)
         [] r.source = "sevir" -> LoadSevir(r, archive)
         [] r.source = "mlcast" -> LoadStore(r, archive)
-----------------------------------------------------------------------------
\* The minute or the moment a file of a satellite was observed at.
ObservedAt(f, t, day) ==
  CASE "cycle" \in DOMAIN f -> NominalStart(f, day) = WholeMinute(t)
    [] "product" \in DOMAIN f -> f.start = t
    [] OTHER -> f.start = WholeMinute(t)

\* A field is of its time and channel: its files were observed then, they hold
\* the channel, and the segments it is decoded from are all there.
OfItsTime(r, field, t, c, day) ==
  CASE r.source \in Satellites ->
         /\ field # {} /\ \A f \in field : ObservedAt(f, t, day)
         /\ r.source \in {"himawari9", "gk2a"} => \A f \in field : f.channel = c
         /\ r.source \in {"fy4b", "mtg"} => \E f \in field : c \in f.holds
         /\ r.source = "himawari9" =>
              /\ \A f \in field : 1..f.total \subseteq {g.segment : g \in field}
              /\ (\E f \in field : f.area = "FLDK") => \A f \in field : f.area = "FLDK"
    [] r.source = "cma_radar" ->
         /\ field.file.time = t
         /\ \A i \in DOMAIN field.file.latitude, j \in DOMAIN field.file.longitude :
              (i \in field.rows /\ j \in field.columns)
                <=> InBox([lon |-> field.file.longitude[j], lat |-> field.file.latitude[i]], r.bbox)
    [] OTHER -> TRUE

\* What is loaded is what was asked for: every time that leads up to the initial
\* time and every channel once, each field of its time; a longer history holds
\* the shorter one; a refused request lacks something at one of its times.
LoadsTheRequest(r, archive, day) ==
  LET loaded == Load(r, TRUE, archive, day)
      shorter == Load([r EXCEPT !.steps = @ - 1], TRUE, archive, day)
  IN /\ \A b \in loaded :
          /\ r.source # "sevir" =>
               /\ Max(DOMAIN b) = r.initial /\ Cardinality(DOMAIN b) = r.steps
               /\ \A t \in DOMAIN b : t # r.initial => t + Minutes(r.interval) \in DOMAIN b
          /\ \A t \in DOMAIN b : \A c \in DOMAIN b[t] : OfItsTime(r, b[t][c], t, c, day)
          /\ \A t \in DOMAIN b : DOMAIN b[t] = Ids(r)
          /\ r.steps > 1 => \E s \in shorter : \A t \in DOMAIN s : b[t] = s[t]
     /\ (loaded = {} /\ r.source # "sevir" /\ IsRequest(r.doc) /\ ValidRequest(r)) =>
          \E t \in ToSet(RequestedTimes(r)) :
            Load([r EXCEPT !.initial = t, !.steps = 1], TRUE, archive, day) = {}

\* A file that arrives or is superseded changes no field of another time: only a
\* newer mosaic of the same time takes an older one's place.
ArrivalsKeep(r, archive, f, day) ==
  LET before == Load(r, TRUE, archive, day)
      after == Load(r, TRUE, archive \cup {f}, day)
      replaced(g) == g.time = f.time /\ g.generation <= f.generation
  IN /\ (r.source \in Satellites /\ \A t \in ToSet(RequestedTimes(r)) : ~ObservedAt(f, t, day)) =>
          before = after
     /\ (r.source = "cma_radar" /\ f.named /\ \A g \in archive : g.packed = f.packed) =>
          \A b \in before, a \in after : \A t \in DOMAIN b :
            \/ b[t] = a[t]
            \/ /\ replaced(b[t][Declared.id].file)
               /\ a[t][Declared.id].file.generation = f.generation

\* A SEVIR request gives the window that starts at its time, frame by frame, and
\* never one of two; an mlcast frame shows the stored values inside the box and
\* nothing outside.
WindowIsIts(r, archive) ==
  \A b \in Load(r, TRUE, archive, 1) :
    CASE r.source = "sevir" ->
           \A t \in DOMAIN b : LET field == b[t][Declared.id] IN
             /\ archive[field.row].start + Minutes(Cadence("sevir")) * (field.frame - 1) = t
             /\ \A i \in DOMAIN archive : archive[i].start = r.initial => i = field.row
      [] r.source = "mlcast" ->
           \A t \in DOMAIN b : LET field == b[t][Declared.id] IN
             \A s \in archive : \A c \in DOMAIN s.grid :
               /\ field[c] # {} => InBox(s.grid[c], r.bbox)
               /\ InBox(s.grid[c], r.bbox) => field[c] = s.frames[t][c]
      [] OTHER -> TRUE
=============================================================================

----------------------------- MODULE MC_Adapters -----------------------------
(* Small archives of each source, and requests of them. *)
EXTENDS Adapters, TLC

DayTicks == 20
World == [west |-> 0, south |-> 0, east |-> 4, north |-> 2]
Asked(source) ==
  [source |-> source, doc |-> [keys |-> TRUE, box |-> "four numbers", list |-> TRUE],
   dir |-> "inside", root |-> TRUE, initial |-> 10, steps |-> 1,
   interval |-> IF source = "mlcast" THEN 4 ELSE 5, channels |-> <<Declared>>, bbox |-> World]
Spelled(id) == [id |-> id, asDeclared |-> FALSE]
Channel(id) == [id |-> id, asDeclared |-> TRUE]
Lists == {<<Channel(1)>>, <<Channel(1), Spelled(1)>>, <<Channel(1), Channel(2)>>, <<Channel(17)>>}
SatelliteRequests(source) ==
  {[Asked(source) EXCEPT !.initial = i, !.steps = n, !.channels = l] :
     i \in {10, 11}, n \in {1, 2}, l \in Lists}

Ahi(satellite, start, channel, area, segment, total) ==
  [named |-> TRUE, satellite |-> satellite, start |-> start, channel |-> channel, area |-> area,
   segment |-> segment, total |-> total]
AhiFiles ==
  {Ahi("H09", 10, 1, "FLDK", 1, 2), Ahi("H09", 10, 1, "FLDK", 2, 2), Ahi("H09", 10, 1, "JP01", 1, 1),
   Ahi("H09", 10, 2, "FLDK", 1, 1), Ahi("H09", 0, 1, "FLDK", 1, 1), Ahi("H09", 0, 1, "FLDK", 3, 3),
   Ahi("H08", 10, 1, "FLDK", 1, 1)}
Agri(start, product, holds) == [named |-> TRUE, start |-> start, product |-> product, holds |-> holds]
AgriFiles ==
  {Agri(10, "FDI", {1}), Agri(10, "FDI", {2}), Agri(10, "GEO", {}), Agri(11, "FDI", {1, 2}),
   Agri(0, "FDI", {1, 2}), Agri(1, "GEO", {})}
Ami(start, channel, pixels, says) ==
  [named |-> TRUE, start |-> start, channel |-> channel, pixels |-> pixels, says |-> says]
AmiFiles ==
  {Ami(10, 1, TRUE, {1}), Ami(10, 1, TRUE, {2}), Ami(10, 2, TRUE, {}), Ami(0, 1, TRUE, {}),
   Ami(0, 2, FALSE, {2}), Ami(0, 1, FALSE, {})}
Fci(start, cycle, role, holds) ==
  [named |-> TRUE, start |-> start, cycle |-> cycle, role |-> role, holds |-> holds]
FciFiles ==
  {Fci(12, 2, "BODY", {1}), Fci(14, 2, "BODY", {2}), Fci(15, 2, "TRAIL", {}), Fci(10, 1, "BODY", {1, 2}),
   Fci(50, 2, "BODY", {1}), Fci(11, 3, "BODY", {1})}

Mosaic(packed, onTop, time, generation, sound) ==
  [named |-> TRUE, packed |-> packed, onTop |-> onTop, time |-> time, generation |-> generation,
   sound |-> sound, longitude |-> <<0, 2, 4>>, latitude |-> <<2, 0>>, bounds |-> World]
Mosaics ==
  {Mosaic(FALSE, TRUE, 10, 1, TRUE), Mosaic(FALSE, FALSE, 10, 2, TRUE), Mosaic(FALSE, TRUE, 0, 1, TRUE),
   Mosaic(FALSE, TRUE, 0, 2, FALSE), Mosaic(TRUE, TRUE, 10, 1, TRUE), Mosaic(TRUE, TRUE, 0, 1, TRUE),
   Mosaic(TRUE, FALSE, 0, 2, TRUE)}
Box(w, s, e, n) == [west |-> w, south |-> s, east |-> e, north |-> n]
Boxes == {World, Box(-1, 0, 2, 1), Box(1, -1, 5, 3), Box(-2, 0, 2, 2), Box(1, 0, 2, 3), Box(3, 0, 4, 1),
          Box(2, 1, 2, 2)}

Row(start, shaped) == [start |-> start, shaped |-> shaped]
Windows == {<<>>} \cup UNION {[1..n -> [start : {0, 10}, shaped : BOOLEAN]] : n \in 1..3}

\* A grid of four cells, upright or turned, and frames with holes.
Turned == {[c \in 1..4 |-> [lon |-> 2 * ((c - 1) \div 2), lat |-> 2 * ((c - 1) % 2)]],
           [c \in 1..4 |-> [lon |-> <<0, 1, 2, 4>>[c], lat |-> <<1, 2, 0, 1>>[c]]]}
Stores ==
  {[declared |-> d, grid |-> g, frames |-> f] :
     d \in {TRUE}, g \in Turned, f \in [{2, 10} -> {[c \in 1..4 |-> {c}], [c \in 1..4 |-> {}],
                                                   [c \in 1..4 |-> IF c > 2 THEN {} ELSE {c}]}]}
  \cup {[declared |-> FALSE, grid |-> One(Turned), frames |-> (10 :> [c \in 1..4 |-> {c}])]}

Case(r, archive, arrivals) == [r |-> r, archive |-> archive, arrivals |-> arrivals]
Loads(source) ==
  CASE source \in Satellites ->
         LET files == CASE source = "himawari9" -> AhiFiles [] source = "fy4b" -> AgriFiles
                        [] source = "gk2a" -> AmiFiles [] OTHER -> FciFiles
             all == files \cup {[One(files) EXCEPT !.named = FALSE]}
         IN {Case(r, a, all) : r \in SatelliteRequests(source), a \in SUBSET all}
    [] source = "cma_radar" ->
         LET all == Mosaics \cup {[m EXCEPT !.named = FALSE] :
                      m \in {Mosaic(FALSE, TRUE, 10, 3, TRUE), Mosaic(TRUE, TRUE, 0, 3, TRUE)}}
         IN {Case([Asked(source) EXCEPT !.steps = n, !.bbox = b, !.channels = l], a, Mosaics) :
               n \in {1, 2}, b \in Boxes, l \in {<<Declared>>, <<Declared, Declared>>},
               a \in {s \in SUBSET all : Cardinality(s) < 5}}
    [] source = "sevir" ->
         {Case([Asked(source) EXCEPT !.steps = n, !.interval = i], w, {}) :
            n \in {1, 3}, i \in {5, 10}, w \in Windows}
    [] source = "mlcast" ->
         {Case([Asked(source) EXCEPT !.steps = n, !.interval = i, !.bbox = b], {s}, {}) :
            n \in {1, 2}, i \in {3, 4}, b \in Boxes, s \in Stores}
         \cup {Case(Asked(source), s, {}) : s \in {t \in SUBSET Stores : Cardinality(t) \in {0, 2}}}
    [] source = "anywhere" ->
         {Case([Asked("fy4b") EXCEPT !.dir = d, !.root = root, !.channels = <<Channel(1)>>], AgriFiles, {}) :
            d \in {"empty", "foreign absolute", "absolute", "inside", "has a parent step",
                   "leaves by a link"}, root \in BOOLEAN}
=============================================================================

----------------------------- MODULE ZarrOutput -----------------------------
(***************************************************************************)
(* The optional output of the data adapters: whether one is asked for and  *)
(* what is written where something may be already (adapters/__main__.py,   *)
(* adapters/satellite_zarr.py, adapters/cma_radar/zarr_io.py).             *)
(*                                                                         *)
(* A bundle has fields by time and channel; a field is an array or not,    *)
(* has a grid, and may know when it was generated. A store is the sequence *)
(* of its times with their channels, and is consolidated when it is done.  *)
(* What is at a path is a set of at most one store. The disk has room for  *)
(* some times; one that it cuts short is not counted as stored.            *)
(***************************************************************************)
EXTENDS Naturals, Sequences, SequencesExt, FiniteSets

Times(bundle) == SetToSortSeq(DOMAIN bundle.fields, <)
ChannelsAt(bundle, t) == DOMAIN bundle.fields[t]

\* zarr_options_from_config and the flags, of which either asks to overwrite.
Options(yaml, flags) ==
  [path      |-> IF flags.path # {} THEN flags.path ELSE IF yaml.enabled THEN yaml.path ELSE {},
   overwrite |-> flags.overwrite \/ (yaml.enabled /\ yaml.path # {} /\ yaml.overwrite)]
\* The mapping form of the option must say where.
OptionsFail(yaml) == yaml.enabled /\ yaml.mapping /\ yaml.path = {}

Outcome(ok, output) == [ok |-> ok, output |-> output]
Consolidated(frames) == {[frames |-> frames, consolidated |-> TRUE]}
Partial(frames) == {[frames |-> frames, consolidated |-> FALSE]}

\* The times are written until the disk is full, which may be before anything of
\* the store is there; the metadata comes last and needs room too.
Written(frames, room) ==
  CASE room < Len(frames) -> {Outcome(FALSE, Partial(SubSeq(frames, 1, room)))}
                             \cup {Outcome(FALSE, {}) : n \in {room} \cap {0}}
    [] room = Len(frames) -> {Outcome(FALSE, Partial(frames)), Outcome(TRUE, Consolidated(frames))}
    [] room > Len(frames) -> {Outcome(TRUE, Consolidated(frames))}
-----------------------------------------------------------------------------
\* _safe_identifier, under which two channels may come to one.
Identifier(channel) == channel.word

\* _field_for_channel and _prepare_channel: a flat array at every time, on the
\* grid of the first.
HasField(bundle, t, c) == c \in ChannelsAt(bundle, t) /\ bundle.fields[t][c].array
Prepares(bundle, c) ==
  \A t \in DOMAIN bundle.fields :
    HasField(bundle, t, c) /\ bundle.fields[t][c].grid = bundle.fields[Times(bundle)[1]][c].grid

\* build_satellite_dataset: the channels of the first time at every time.
Builds(bundle) ==
  /\ Times(bundle) # <<>>
  /\ LET first == ChannelsAt(bundle, Times(bundle)[1]) IN
       /\ first # {}
       /\ \A t \in DOMAIN bundle.fields : ChannelsAt(bundle, t) = first
       /\ \A c, d \in first : Identifier(c) = Identifier(d) => c = d
       /\ \A c \in first : Prepares(bundle, c)

SatelliteFrame(bundle, t) ==
  [time |-> t, variables |-> [i \in {Identifier(c) : c \in ChannelsAt(bundle, t)} |->
     bundle.fields[t][CHOOSE c \in ChannelsAt(bundle, t) : Identifier(c) = i]]]

SatelliteFrames(bundle) ==
  [i \in 1..Len(Times(bundle)) |-> SatelliteFrame(bundle, Times(bundle)[i])]

RemovedFirstSlip(bundle, old, overwrite, room) ==
  IF old # {} /\ ~overwrite THEN {Outcome(FALSE, old)}
  ELSE IF ~Builds(bundle) THEN {Outcome(FALSE, {})}
  ELSE Written(SatelliteFrames(bundle), room)

\* write_satellite_zarr: built, then the old one is removed, then written.
WriteSatellite(bundle, old, overwrite, room) ==
  IF ~Builds(bundle) \/ (old # {} /\ ~overwrite) THEN {Outcome(FALSE, old)}
  ELSE Written(SatelliteFrames(bundle), room)
-----------------------------------------------------------------------------
CREF == [id |-> 0, word |-> 0]

\* _field_from_bundle and _dataset_for_time: what a time of the radar must have.
RadarField(bundle, t) == CREF \in ChannelsAt(bundle, t) /\ bundle.fields[t][CREF].array
RadarDated(bundle, t) == RadarField(bundle, t) /\ bundle.fields[t][CREF].generated
RadarFrame(bundle, t) == [time |-> t, variables |-> [i \in {CREF.word} |-> bundle.fields[t][CREF]]]

\* write_cma_zarr: the old one is removed, then time by time is checked and
\* appended, and the first that fails ends it.
WriteCma(bundle, old, overwrite, room) ==
  LET times == Times(bundle)
      fits(i) == /\ RadarDated(bundle, times[i])
                 /\ bundle.fields[times[i]][CREF].grid = bundle.fields[times[1]][CREF].grid
      good == {n \in 0..Len(times) : \A i \in 1..n : fits(i)}
      last == CHOOSE n \in good : \A m \in good : m <= n
      frames == [i \in 1..last |-> RadarFrame(bundle, times[i])]
  IN IF times = <<>> \/ (old # {} /\ ~overwrite) THEN {Outcome(FALSE, old)}
     ELSE IF last = Len(times) \/ room < last THEN Written(frames, room)
     ELSE {Outcome(FALSE, IF last = 0 THEN {} ELSE Partial(frames))}
-----------------------------------------------------------------------------
\* run: only the radar and the satellites have a writer, and a request for an
\* output of another source fails when its data has been loaded.
Run(bundle, yaml, flags, at, room) ==
  LET options == Options(yaml, flags)
      path == CHOOSE p \in options.path : TRUE
  IN CASE OptionsFail(yaml) -> {<<FALSE, at>>}
       [] ~OptionsFail(yaml) /\ options.path = {} -> {<<TRUE, at>>}
       [] ~OptionsFail(yaml) /\ options.path # {} /\ bundle.source = "other" -> {<<FALSE, at>>}
       [] OTHER ->
            {<<done.ok, [at EXCEPT ![path] = done.output]>> :
               done \in IF bundle.source = "cma_radar"
                        THEN WriteCma(bundle, at[path], options.overwrite, room)
                        ELSE WriteSatellite(bundle, at[path], options.overwrite, room)}
-----------------------------------------------------------------------------
\* A store that says it is done holds every time of the bundle once, in order,
\* and every channel as it was loaded; a run that fails leaves what was there,
\* or a store that does not say it is done, or nothing; nothing is replaced that
\* no option asked to replace, and no other path is touched; a satellite bundle
\* that cannot be stored costs nobody the old store.
StoresTheBundle(bundle, yaml, flags, at, room) ==
  LET path == Options(yaml, flags).path
      whole(store) ==
        /\ [i \in 1..Len(store.frames) |-> store.frames[i].time] = Times(bundle)
        /\ \A i \in 1..Len(store.frames) : LET f == store.frames[i] IN
             \A c \in ChannelsAt(bundle, f.time) :
               f.variables[Identifier(c)] = bundle.fields[f.time][c]
  IN \A result \in Run(bundle, yaml, flags, at, room) :
       /\ \A p \in DOMAIN at :
            /\ p \notin path => result[2][p] = at[p]
            /\ \A store \in result[2][p] :
                 (result[2][p] # at[p] /\ store.consolidated) => (result[1] /\ whole(store))
            /\ (at[p] # {} /\ result[2][p] # at[p]) => flags.overwrite \/ yaml.overwrite
       /\ result[1] => \A p \in path : \E store \in result[2][p] : store.consolidated /\ whole(store)
       /\ (bundle.source = "satellite" /\ ~Builds(bundle)) => result[2] = at
=============================================================================

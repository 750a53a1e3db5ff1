------------------------------ MODULE MC_Access ------------------------------
(* Small providers, and what is asked of them. *)
EXTENDS Providers, TLC

Builds(S) == {s \in S : MockBuilds(s)}
NoSource == [n \in {} |-> {}]
Mocks ==
  Builds([kind : {"mock"}, geographic : {TRUE}, start : {0}, cadence : {1, 2}, horizon : {1, 4},
          names : {<<"obs">>, <<"obs", "sat">>}, models : {<<"model">>},
          sources : {NoSource, "sat" :> [unit |-> {"K"}, missing |-> {Cells}]},
          modelSources : {NoSource, "model" :> "sat", "model" :> "obs"},
          unit : {"dBZ"}, missing : {{}, {1}}, absent : {{}, {2, 4}}, drop : {{}, {2}}, every : 0..2])
Replays ==
  {[kind |-> "replay", geographic |-> TRUE, cadence |-> 1, unit |-> "dBZ", nan |-> nan,
    names |-> <<"obs">>, models |-> <<"model">>, files |-> "obs" :> files, gridded |-> {"obs"},
    runs |-> runs] :
     nan \in SUBSET Cells, files \in {{}, {{}}, {{0, 2, 4}}, {{2, 6}}},
     runs \in {[n \in {} |-> {}], 0 :> [leads |-> <<1, 2>>, arrays |-> {1, 2}]}}
StoredRuns ==
  {[kind |-> "run", geographic |-> geographic, id |-> "obs", cadence |-> 1, unit |-> "dBZ",
    times |-> {0, 2, 4, 6}, init |-> 2, missing |-> missing, forecasts |-> forecasts] :
     geographic \in BOOLEAN, missing \in {{}, {1}},
     forecasts \in {[n \in {} |-> {}], "model" :> <<1, 2>>}}
Faults == {"cadence", "no unit", "unit", "late unit", "time", "holes", "nan", "gap", "nothing",
           "interpolates", "invents", "raises"}
Platforms ==
  {[kind |-> "platform", geographic |-> g, faults |-> f] :
     g \in BOOLEAN, f \in {s \in SUBSET Faults : Cardinality(s) <= 3}}

Providing == Mocks \cup Replays \cup StoredRuns \cup Platforms
Days == {<<0>>, <<8, 0>>, <<2, 1>>}
Requests ==
  {Times(n, from, to) : n \in {"obs", "nix"}, from \in {-3, 0, 1}, to \in {2, 5}}
  \cup {Observation(n, t) : n \in {"obs", "sat"}, t \in -2..6}
  \cup {Leads(m, t) : m \in {"model", "nix"}, t \in -2..4}
  \cup {Prediction(m, t, l) : m \in {"model", "nix"}, t \in 0..2, l \in 0..5}
=============================================================================

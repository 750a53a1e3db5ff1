---------------------------- MODULE MC_ZarrOutput ----------------------------
(* Bundles of two times and outputs asked for. *)
EXTENDS ZarrOutput, TLC

Field(array, grid, generated) == [array |-> array, grid |-> grid, generated |-> generated]
Good == Field(TRUE, 1, TRUE)
Satellite == {Good, Field(TRUE, 2, TRUE), Field(FALSE, 1, TRUE)}
Radar == Satellite \cup {Field(TRUE, 1, FALSE)}
Channel(id, word) == [id |-> id, word |-> word]
Bundles ==
  {[source |-> "satellite", fields |-> (1 :> f) @@ (2 :> g)] :
     f \in UNION {[cs -> Satellite] : cs \in {{CREF}, {CREF, Channel(1, 1)}, {CREF, Channel(2, 0)}}},
     g \in UNION {[cs -> Satellite] : cs \in {{CREF}, {CREF, Channel(1, 1)}}}}
  \cup {[source |-> "cma_radar", fields |-> (1 :> f) @@ (2 :> g)] : f, g \in [{CREF} -> Radar]}
  \cup {[source |-> s, fields |-> f] : s \in {"cma_radar", "satellite", "other"},
                                       f \in {<<>>, 2 :> (CREF :> Good)}}
Old == {[frames |-> <<>>, consolidated |-> TRUE]}
NoYaml == [enabled |-> FALSE, mapping |-> TRUE, path |-> {}, overwrite |-> FALSE]
Yamls ==
  {NoYaml, [NoYaml EXCEPT !.path = {"a"}, !.overwrite = TRUE], [NoYaml EXCEPT !.enabled = TRUE]}
  \cup {[enabled |-> TRUE, mapping |-> TRUE, path |-> {"a"}, overwrite |-> o] : o \in BOOLEAN}
Flags == {[path |-> p, overwrite |-> o] : p \in {{}, {"b"}}, o \in BOOLEAN}
Paths == {("a" :> o) @@ ("b" :> o) : o \in {{}, Old}}
=============================================================================

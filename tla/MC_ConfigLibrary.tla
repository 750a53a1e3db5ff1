-------------------------- MODULE MC_ConfigLibrary --------------------------
(* Small instances of ConfigLibrary. *)
EXTENDS ConfigLibrary, TLC

CONSTANTS a, b

\* Requests are interchangeable, and so are the values of each kind.
MC_Symmetry ==
  Permutations(Request) \cup Permutations(Ruler) \cup Permutations(Name)
  \cup Permutations(Variable) \cup Permutations(Metric)
=============================================================================

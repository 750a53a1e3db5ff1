---------------------------- MODULE MC_Execution ----------------------------
(* Small instances of Execution. *)
EXTENDS Execution, TLC

\* Packages by what they take: one ingestion; ingestion, a model and
\* diagnostics; two sample windows of ingestion and a model.
CONSTANTS plain, single, batch, batchReport

MC_Shape == [p \in Package |->
  CASE p = plain  -> [samples |-> 1, models |-> 0, diagnostics |-> FALSE]
    [] p = single -> [samples |-> 1, models |-> 1, diagnostics |-> TRUE]
    [] p = batch  -> [samples |-> 2, models |-> 1, diagnostics |-> FALSE]
    [] p = batchReport -> [samples |-> 2, models |-> 1, diagnostics |-> TRUE]]

MC_Symmetry == Permutations(Job) \cup Permutations(Op) \cup Permutations(Client)
=============================================================================

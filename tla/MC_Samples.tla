----------------------------- MODULE MC_Samples -----------------------------
(* Small SEVIR files and catalogs, and radar directories over two days. *)
EXTENDS Samples, TLC

Offsets(step, from) == [k \in 1..5 |-> from + step * (k - 1)]
Row(event, start, base, offsets, sound) ==
  [event |-> event, start |-> start, base |-> base, offsets |-> offsets, sound |-> sound]
SomeRows ==
  {Row(1, 0, 0, Offsets(1, 0), TRUE), Row(1, 2, 0, Offsets(1, 2), TRUE), Row(2, 0, 0, Offsets(1, 0), TRUE),
   Row(1, 0, 0, Offsets(1, 1), TRUE), Row(2, 2, 2, Offsets(2, 0), TRUE), Row(2, 2, 2, Offsets(1, 0), FALSE)}
UpTo(n, S) == UNION {[1..k -> S] : k \in 0..n}
SevirFiles == [declared : {TRUE}, rows : UpTo(3, SomeRows)] \cup [declared : {FALSE}, rows : UpTo(1, SomeRows)]
Catalogs == UpTo(2, {[event |-> e, vil |-> v, usable |-> u] :
                       e \in {1, 2}, v \in {TRUE}, u \in BOOLEAN}
                    \cup {[event |-> 1, vil |-> FALSE, usable |-> TRUE]})
Month == 1..8
Mosaic(t, generation, covers, whole) ==
  [time |-> t, generation |-> generation, covers |-> covers, whole |-> whole]
Directories ==
  {{Mosaic(t, 1, TRUE, TRUE) : t \in times} \cup others :
     times \in SUBSET (0..8),
     others \in {{}, {Mosaic(3, 2, TRUE, FALSE)}, {Mosaic(3, 0, TRUE, FALSE), Mosaic(5, 2, FALSE, TRUE)}}}
=============================================================================

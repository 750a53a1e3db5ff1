SPECIFICATION Spec
CONSTANTS
  a = a
  b = b
  Request = {q1, q2}
  Ruler = {r1, r2}
  Name = {a, b}
  Variable = {v1, v2}
  Leads = {l1}
  Metric = {m1, m2}
  Level = {x}
  MaxDay = 2
  Overlapping = {"retire", "metrics"}
  Modes = {"serial", "overwrite", "edits", "tools"}
  PurgeFaults = FALSE
CHECK_DEADLOCK FALSE
SYMMETRY MC_Symmetry
INVARIANT FileIsWhole
INVARIANT RowsUnderRuler
PROPERTY RulerKept
PROPERTY EditsKept

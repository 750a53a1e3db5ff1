SPECIFICATION MC_Spec
CONSTANTS
  Starter = {s1, s2}
  Page = {p1}
  MAX_LINES = 1
  MAX_JOBS = 0
  MaxStarted = 2
  MaxReported = 2
  Asker = {t1, t2}
  Query = {q1, q2}
  AGGREGATES_MAX = 1
  LogPages = 1
  MaxVersion = 2
  Model = {a}
  MaxWindows = 2
  MaxOps = 2
CHECK_DEADLOCK FALSE
INVARIANT LinesInOrder
INVARIANT DoneHasResult
INVARIANT AnswerIsCurrent
INVARIANT RegisteredIsWhole
INVARIANT ReportIsExact
PROPERTY PageStops
PROPERTY RecordStays

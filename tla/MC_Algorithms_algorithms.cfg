SPECIFICATION MC_Spec
CONSTANTS
  Day = 2
  u1 = u1
  u2 = u2
  n1 = n1
  n2 = n2
  d1 = d1
  d2 = d2
  m1 = m1
  m2 = m2
  prof = prof
CHECK_DEADLOCK FALSE
INVARIANT PairsFitRuler
INVARIANT PlanIsExecuted
INVARIANT AnswerIsTheSelection
INVARIANT ViewsShowAnswer
INVARIANT HoleStaysHole
INVARIANT ScoresAgree
INVARIANT RemoteIsDirect
INVARIANT ListedIsServed
INVARIANT ChecklistDecides
INVARIANT LoadFits
INVARIANT OutputFits
INVARIANT FilesAgree

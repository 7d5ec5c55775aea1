\* Three withdrawals on two cards, one row per tick, two passes at once.
SPECIFICATION FairSchedulerSpec
CONSTANTS
  c1 = c1
  c2 = c2
  h1 = h1
  h2 = h2
  h3 = h3
  s1 = s1
  s2 = s2
  Nothing = Nothing
  Withdrawals = {h1, h2, h3}
  Card <- MCCard
  Slots = {s1, s2}
  Batch = 1
INVARIANTS
  BacklogTypeOK
  CoveredByPasses
PROPERTY
  EveryOpenRowIsExamined
CHECK_DEADLOCK FALSE

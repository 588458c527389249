SPECIFICATION CoordinatorFairSpec
CONSTANTS
  f1 = f1
  f2 = f2
  home = home
  away = away
  Fixtures = {f1}
  Names = {home}
  Winners = {home, away}
  PartOf = {}
  Odds = {20}
  NoResult = NoResult
  Thresholds <- DefaultThresholds
  MaxMoves = 2
  Hybrid = TRUE
  MaxFaults = 1
  CoordinatorCalls = 3
  CoordinatorSteps = 2
  Entries <- BothSides
INVARIANT ScoreMatchesLog
INVARIANT StatusFollowsScore
CHECK_DEADLOCK FALSE
PROPERTY EventuallySettled

SPECIFICATION Spec
CONSTANTS
  f1 = f1
  home = home
  away = away
  Fixtures = {f1}
  Names = {home}
  Winners = {home, away}
  PartOf = {}
  Odds = {20, 24}
  NoResult = NoResult
  Thresholds <- DefaultThresholds
  MaxMoves = 2
  Hybrid = FALSE
  MaxFaults = 2
  MaxToolCalls = 3
  MaxSteps = 3
  CoordinatorCalls = 2
  CoordinatorSteps = 1
  Entries = {}
ACTION_CONSTRAINT OwnStepsFirst
INVARIANT MovesRecordedOnce
INVARIANT OvershootBounded
INVARIANT OneSideWins
PROPERTY ImplementsBettingBook
CHECK_DEADLOCK FALSE

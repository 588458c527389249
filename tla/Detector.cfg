SPECIFICATION DetectorFairSpec
CONSTANTS
  f1 = f1
  f2 = f2
  home = home
  away = away
  Fixtures = {f1}
  Names = {home}
  Prices = {20, 24}
  Scripts <- DefaultScripts
  MaxToolRounds = 2
  MaxShown = 4
  MaxBuckets = 1
  MaxFaults = 3
INVARIANT LoggedOnceUnlessTorn
INVARIANT MovesDoNotOverlap
PROPERTY CatchesUp
CHECK_DEADLOCK FALSE

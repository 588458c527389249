SPECIFICATION LoopFairSpec
CONSTANTS
  f1 = f1
  f2 = f2
  home = home
  Fixtures = {f1, f2}
  Outcomes = {home}
  Prices = {200, 220}
  TriggerPct = 5
  RetriggerInterval = 2
  MaxShown = 3
  MaxTime = 2
  MaxFaults = 1
CONSTRAINT QuietSecond
INVARIANT OneRoundPerHour
INVARIANT MovesTriggerOnce
PROPERTY NoFixtureStarves
CHECK_DEADLOCK FALSE

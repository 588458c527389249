\* One round, one intent under two verifications, one fixture replayed twice, a
\* fault and a crash.
SPECIFICATION Spec
CONSTANTS
  r1 = r1
  r2 = r2
  p1 = p1
  p2 = p2
  v1 = v1
  v2 = v2
  f1 = f1
  f2 = f2
  Rounds = {r1}
  Fixtures = {f1}
  Replays = 2
  Histories <- SomeHistories
  TriggerPct = 5
  Refs = {p1}
  Verifiers = {v1, v2}
  MaxFaults = 1
  MaxCrashes = 1
ACTION_CONSTRAINT HolderFirst
SYMMETRY VerifiersAlike
INVARIANTS
  RunsHoldTogether
  ReplaysDoNotMix
  PairsSplit
  ShownIntentsAreWatched
PROPERTIES
  KeepsLedgerPromise
CHECK_DEADLOCK FALSE

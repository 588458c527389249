SPECIFICATION DecisionFairSpec
CONSTANTS
  Blocks <- SomeBlocks
  Snapshots <- SomeSnapshots
  Moves <- SomeMoves
  Distributions <- SomeDistributions
  Caps = {0, 1}
  ProposeTurns = 6
  ReactTurns = 3
  MaxRounds = 2
  MaxFaults = 2
INVARIANT NoFakePass
INVARIANT DebateFollowsRules
INVARIANT StakesAreSound
PROPERTY RoundIsDecided
CHECK_DEADLOCK FALSE

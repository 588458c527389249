SPECIFICATION Spec
CONSTANTS
  r1 = r1
  r2 = r2
  s1 = s1
  s2 = s2
  s3 = s3
  s4 = s4
  Rounds = {r1, r2}
  Sessions = {s1, s2, s3}
  NoSession = NoSession
  NoWager = NoWager
  ConfiguredSession = NoSession
  ConsoleChoices = {TRUE}
  TrackChoices = {"settlement"}
  GateRefs = {"wellShaped"}
  MaxSteps = 2
  MaxFaults = 1
SYMMETRY Symmetry
CONSTRAINT NotOver
ACTION_CONSTRAINT ChatterAtOnce
INVARIANT VerifiedIsOwn
INVARIANT SettlementIsBacked
INVARIANT HandoffUsesVerifiedWager
INVARIANT OneSessionPerRound
INVARIANT DelegationAnswered
PROPERTY ImplementsWagerGate

SPECIFICATION DeskFairSpec
CONSTANTS
  r1 = r1
  r2 = r2
  s1 = s1
  s2 = s2
  s3 = s3
  s4 = s4
  Rounds = {r1, r2}
  Sessions = {s1}
  NoSession = NoSession
  NoWager = NoWager
  ConfiguredSession = s1
  ConsoleChoices = {TRUE, FALSE}
  TrackChoices = {"settlement", "trading", "fan"}
  GateRefs = {"none", "wellShaped", "malformed"}
  MaxSteps = 2
  MaxFaults = 1
CONSTRAINT OtherStaysQuiet
INVARIANT TypeOK
INVARIANT FailClosedGate
INVARIANT VerdictsAnswerRequests
PROPERTY RoundEnds
PROPERTY StaleSessionHeals

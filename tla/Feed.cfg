\* One task and its two streams, started, stopped or replaced at any point; two
\* connections, opens or writes may fail.
SPECIFICATION FairSpec
CONSTANTS
  c1 = c1
  c2 = c2
  Callers = {c1}
  MaxTasks = 1
  MaxFaults = 2
  Kind <- Kinds
  Fixtureless <- NoFixture
INVARIANTS
  EmittedWasRecorded
  ResumesWithoutGaps
PROPERTIES
  EveryEventArrives
CHECK_DEADLOCK FALSE

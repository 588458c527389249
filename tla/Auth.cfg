\* Two wallets, two names; three challenges against a cap of two, four commands on
\* the store and two crashes.
SPECIFICATION Spec
CONSTANTS
  k1 = k1
  k2 = k2
  n1 = n1
  n2 = n2
  None = None
  Session = Session
  Keys = {k1, k2}
  Names = {n1, n2}
  MaxPending = 2
  MaxNonces = 3
  MaxCommands = 4
  MaxCrashes = 2
INVARIANTS
  NonceUsedOnce
  AnsweredIsSafe
PROPERTIES
  ImplementsRememberedWallet
CHECK_DEADLOCK FALSE

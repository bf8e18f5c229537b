CONSTANTS
  NumVMs = 2
  MaxOps = 5
  MaxFlight = 2
SPECIFICATION Spec
INVARIANTS IndicesFit OwnEntry NoZombie
PROPERTIES NamedByDialog
CHECK_DEADLOCK FALSE

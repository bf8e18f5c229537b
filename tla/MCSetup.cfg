SPECIFICATION KeepsOpening
CONSTANTS
  Clients = {1, 2}
  MaxFaults = 3
INVARIANTS OpenMeansUp PoolSurvives
PROPERTIES NetworkComesUp

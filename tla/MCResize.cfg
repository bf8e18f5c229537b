SPECIFICATION Spec
CONSTANTS
  Clients = {1}
  GB = 4
  Word = 32
  Sizes = {1, 2, 3, 5, 7, 8, 9, 11}
  InitialGB = 2
INVARIANTS FilesystemFits GrownMeansGrown
PROPERTIES NeverShrinks

SPECIFICATION Spec
CONSTANTS
  c1 = c1
  c2 = c2
  web = web
  db = db
  Calls = {c1, c2}
  VMs = {web, db}
  NoVM = NoVM
  Asks <- MCAsks
  MaxBirths = 2
SYMMETRY Names
INVARIANTS ManagersClosed AnswerWasTrue ListIsFair AdaptersAgree KindAnswered

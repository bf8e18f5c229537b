SPECIFICATION Spec
CONSTANTS
  v1 = v1
  v2 = v2
  c1 = c1
  c2 = c2
  p1 = p1
  p2 = p2
  p3 = p3
  base = base
  u1 = u1
  u2 = u2
  u3 = u3
  u4 = u4
  None = None
  VMs = {v1}
  Pools = {p1, p2}
  PoolArgs = {p1, p2}
  Names <- MCNames
  Images <- MCImages
  MaxTarget = 2
  Uuids = {u1, u2, u3}
  Clients = {c1, c2}
  Ops = {"add_disk", "migrate", "delete_image", "create_noclone", "delete_noclone"}
  VolName <- MCVolName
  MaxFaults = 0
SYMMETRY Symmetry
INVARIANTS TargetsUnique
PROPERTIES ImagesSurvive

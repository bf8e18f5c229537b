SPECIFICATION Spec
CONSTANTS
  v1 = v1
  v2 = v2
  c1 = c1
  c2 = c2
  p1 = p1
  p2 = p2
  p3 = p3
  base = base
  u1 = u1
  u2 = u2
  u3 = u3
  u4 = u4
  None = None
  VMs = {v1}
  Pools = {p1, p2}
  PoolArgs = {p1, p2}
  Names <- MCNames
  Images <- MCImages
  MaxTarget = 1
  Uuids = {u1, u2}
  Clients = {c1}
  Ops = {"create", "migrate"}
  VolName <- MCVolName
  MaxFaults = 0
SYMMETRY Symmetry
PROPERTIES MigrateRestartsVM

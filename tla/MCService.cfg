\* One client, two VMs, two addresses that DHCP moves between them, disks cloned
\* and booted in place: the options of a create but extra_disk, whose failure
\* is that of size.
SPECIFICATION Spec
CONSTANTS
  Clients = {c1}
  VMs = {web, db}
  IPs = {a1, a2}
  MaxClones = 1
  Options = {"noclone", "size", "inventory", "playbook", "bad_playbook"}
  c1 = c1
  web = web
  db = db
  a1 = a1
  a2 = a2
INVARIANTS CreateAuthFits CreatedMeansDone

SPECIFICATION Spec
CONSTANTS
  c1 = c1
  c2 = c2
  br0 = br0
  br1 = br1
  eth0 = eth0
  eth1 = eth1
  Creators = {c1, c2}
  Names = {br0, br1}
  NICs = {eth0, eth1}
  Settings = {"dhcp"}
  None = None
  Torn = Torn
  MaxFaults = 2
SYMMETRY Symmetry
INVARIANTS CreatedIsUp RunningIsWritten

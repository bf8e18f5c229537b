CONSTANTS
  Networks = {"default", "isolated"}
  NICs = {"eth0"}
  Bridges = {"br0", "br1"}
  Texts = {"", "eno1"}
SPECIFICATION FormSpec
INVARIANTS FormTypeOK FocusVisible SubmittedFits

SPECIFICATION Spec
CONSTANTS
  Mac = {c1, c2}
  StartIP = 1
  EndIP = 3
  TopIP = 4
  LeaseTime = 2
  MaxTime = 4
  MaxRestarts = 0
  MaxReplies = 2
INVARIANTS
  FreeAddressIsOffered
SYMMETRY Symmetry

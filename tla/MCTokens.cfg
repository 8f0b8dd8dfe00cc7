SPECIFICATION Spec
CONSTANTS
  Mac = {m1}
  NoMac = NoMac
  Worker = {w1, w2}
  TTL = 2
  MaxTime = 3
  MaxRequests = 4
  MaxTokens = 4
INVARIANTS
  IInv
  OneFilePerToken
PROPERTIES
  BootNeverRepeats
  RotationNeverRepeats
SYMMETRY Symmetry

SPECIFICATION FairSpec
CONSTANTS
  Path = {1, 2}
  Content = {a, b}
  NoContent = NoContent
  MaxEdits = 2
  MaxFaults = 1
INVARIANTS
  IdleIsAnnounced
PROPERTIES
  ImplementsVersions
  ConvergesToDisk
CHECK_DEADLOCK FALSE

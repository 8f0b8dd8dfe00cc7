SPECIFICATION PxeFairSpec
CONSTANTS
  Environment <- Environments
  Host <- Hosts
  Unset = Unset
  Bad = Bad
  V6 = V6
  Byte <- Bytes
  Half = 1048576
  Second = 8
  MaxPort = 2
  DefaultPort = 2
  MaxWait = 60
  InitialDelay = 1
  MaxDelay = 10
  MaxEvents = 2
INVARIANTS
  DhcpIsUsable
  InterfaceIsOurs
  FallbacksAsGiven
  ReadyMeansBound
  FallbackInOrder
PROPERTIES
  FailureStopsStack
  SignalStopsStack

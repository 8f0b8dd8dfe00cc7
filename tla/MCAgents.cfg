SPECIFICATION FairSpec
CONSTANTS
  Consumer = {"facts"}
  RhelMachine = {r1}
  WindowsMachine = {n1}
  Machine = {r1, n1}
  NoMachine = NoMachine
  Snapshot = {"done", "plain"}
  NoSnapshot = NoSnapshot
  Worker = {w1, w2}
  NoWorker = NoWorker
  MaxFacts = 6
  MaxScripts = 2
  MaxFaults = 1
INVARIANTS
  MarkerMeansStored
  DoneAgainHasCause
PROPERTIES
  DoneGetsStored

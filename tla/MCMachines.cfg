SPECIFICATION Spec
CONSTANTS
  Machine = {m1, m2}
  NoMachine = NoMachine
  FinishStatus = {"aborted", "running"}
  MaxRuns = 2
  Mac = {a, b}
  Serial = {s}
  NoMac = NoMac
  Worker = {w1, w2}
  RunsColumns <- QueriedColumns
  PerMachine = 1
  MaxUpserts = 2
  MaxFaults = 1
SYMMETRY Symmetry
INVARIANTS
  AnnouncedIsStored
  ListedWasTrue
CHECK_DEADLOCK FALSE

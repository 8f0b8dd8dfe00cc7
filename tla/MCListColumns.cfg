SPECIFICATION Spec
CONSTANTS
  Machine = {m1, m2}
  NoMachine = NoMachine
  FinishStatus = {"failed"}
  MaxRuns = 1
  Mac = {a}
  Serial = {s}
  NoMac = NoMac
  Worker = {w1}
  RunsColumns <- MigratedColumns
  PerMachine = 1
  MaxUpserts = 1
  MaxFaults = 0
SYMMETRY Symmetry
INVARIANTS
  ListIsAnswered
CHECK_DEADLOCK FALSE

SPECIFICATION FairSpec
CONSTANTS
  Consumer = {"machines", "facts", "started", "finished"}
  Machine = {m1, m2}
  NoMachine = NoMachine
  FinishStatus = {"running", "failed"}
  Worker = {w1}
  MaxRequests = 3
  MaxFaults = 1
  MaxRuns = 4
INVARIANTS
  IInv
  OneOpenOrchestratorRun
  ActiveIsOwnRun
  HandledEnrollmentHasRun
  EventsTruthful
PROPERTIES
  ImplementsRuns
  EnrollmentGetsRun

SPECIFICATION FairSpec
CONSTANTS
  Consumer = {"facts"}
  Machine = {m1, m2}
  NoMachine = NoMachine
  Snapshot <- Snapshots
  NoSnapshot = NoSnapshot
  Nil = Nil
  k1 = k1
  v1 = v1
  n1 = n1
  Numeric = {n1}
  Worker = {w1, w2}
  MaxFacts = 2
  MaxFaults = 2
INVARIANTS
  AuditExplains
  HandledFactIsAudited
  DuplicatesAreRetries
PROPERTIES
  FactIsAudited

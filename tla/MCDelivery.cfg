CONSTANTS
  a = a
  b = b
  c = c
  f1 = f1
  f2 = f2
  Main = Main
  Tasks = {a, b, c}
  Finalizers = {f1, f2}
  Modes = {"DryRun", "LocalCommitOnly"}
  MaxFaults = 1
  Silent = {c}
  Overlapping = FALSE
SPECIFICATION FairSpec
INVARIANTS DeliveryInv CommitsAreApproved CommitIsComplete
PROPERTIES ApprovedIsDelivered ImplementsDeliveryLife
\* Every task may have its verdict and its record, and nothing is left to do.
CHECK_DEADLOCK FALSE

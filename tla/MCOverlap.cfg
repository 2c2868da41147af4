CONSTANTS
  a = a
  b = b
  c = c
  f1 = f1
  f2 = f2
  Main = Main
  Tasks = {a, b}
  Finalizers = {f1, f2}
  Modes = {"LocalCommitOnly"}
  MaxFaults = 0
  Silent = {}
  Overlapping = TRUE
SPECIFICATION Spec
INVARIANTS CommitsOnTheirBranch
\* Every task may have its verdict and its record, and nothing is left to do.
CHECK_DEADLOCK FALSE

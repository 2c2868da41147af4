CONSTANTS
  r1 = r1
  d1 = d1
  w1 = w1
  w2 = w2
  s1 = s1
  s2 = s2
  NoTask = NoTask
  Requested = {}
  Discovered = {d1}
  Workers = {w1, w2}
  Slots = {s1}
  MaxFaults = 2
  GitHubBacked = FALSE
  IntakeLocalOnly = FALSE
  Handler <- HandlerFix
SPECIFICATION Spec
INVARIANTS ReexecutionIsBounded SafetyInv ReexecutionInv
PROPERTIES VerdictIsFinal ImplementsTaskLife

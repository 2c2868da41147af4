CONSTANTS
  r1 = r1
  d1 = d1
  w1 = w1
  w2 = w2
  s1 = s1
  s2 = s2
  NoTask = NoTask
  Requested = {}
  Discovered = {d1}
  Workers = {w1}
  Slots = {s1}
  MaxFaults = 0
  GitHubBacked = TRUE
  IntakeLocalOnly = FALSE
  Handler <- HandlerFix
SPECIFICATION Spec
INVARIANTS PartialIntakeIsPreserved

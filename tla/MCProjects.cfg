CONSTANTS
  c1 = c1
  c2 = c2
  s1 = s1
  s2 = s2
  Characters <- MCCharacters
  Lowercase <- MCLowercase
  ClockText <- MCClock
  Numbers <- MCNumbers
  ProjectModes <- MCModes
  NamedTaskTypes <- MCTypes
  Categories = {c1, c2}
  OldCategories = {c1}
  Slots = {s1, s2}
  Repos <- MCRepos
  NewRepos <- MCNewRepos
  Names <- MCNames
  Registrations <- MCRegistrations
  TaskTexts <- MCTaskTexts
  Requests <- MCRequests
  Channel <- MCChannel
  Env <- MCEnv
  LocalOnly = TRUE
  MaxCommands = 4
  WorkerEnv <- MCWorkerEnv
SYMMETRY SlotSymmetry
SPECIFICATION Spec
INVARIANTS RegistryInv OrderArrivesWhole RunNamesAgree RunsAreDistinct ResultsAreFound
  RegistryKeepsPromises
\* The bound on the commands given ends every behaviour.
CHECK_DEADLOCK FALSE

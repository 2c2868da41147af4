CONSTANTS
  dev = dev
  bug = bug
  tests = tests
  plan = plan
  review = review
  torn = torn
  main = main
  Main = main
  Tasks <- MCTasks
  Order <- MCOrder
  MaxAttempts = 2
  Registry <- MCRegistry
  LegacyRuntime = "mock"
  HelperConfig <- MCHelperConfig
  MaxFaults = 1
SPECIFICATION FairSpec
INVARIANTS SubmitInv WorkedOnce AttemptInv CompleteMeansChecked RecordKeepsUp ReadOnlyLeavesNoTrace
PROPERTIES ImplementsAgent AttemptEnds
\* Both attempts end.
CHECK_DEADLOCK FALSE

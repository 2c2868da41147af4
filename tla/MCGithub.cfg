CONSTANTS
  Setups <- MCSetups
  MaxCommands = 3
  MaxFaults = 2
SPECIFICATION Spec
INVARIANTS SyncInv SyncFollowsPlan ValidationPredicts
PROPERTIES IntakeSaysWhatItDid
\* The commands end.
CHECK_DEADLOCK FALSE

SPECIFICATION UpdaterSpec
CONSTANTS
  Polls <- MCPolls
  MaxCrashes <- MCMaxCrashes
CHECK_DEADLOCK FALSE
INVARIANTS
  
  SuccessMeansRunning
  FailureLeavesOld
PROPERTY UpdaterReturns

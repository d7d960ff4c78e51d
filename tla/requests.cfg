SPECIFICATION Spec
CONSTANTS
  MaxProgress = 2
INVARIANTS
  SuccessMeansDone
  RefusalChangesNothing
  StatusShowsItsAnswer

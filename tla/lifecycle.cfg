SPECIFICATION Spec
CONSTANTS
  MaxSaves <- MCMaxSaves
  Malformed <- MCMalformed
INVARIANTS
  ReloadFindsPending
  AckedReloadApplies
  PidFileTracksDaemon
PROPERTIES
  ImplementsReloadService
  ReloadCompletes
  ScmStopEnds
  SignalEndsUnreloaded

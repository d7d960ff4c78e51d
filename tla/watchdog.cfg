SPECIFICATION WatchdogSpec
CONSTANTS
  Timeout <- MCTimeout
  Grace <- MCGrace
  MaxAge <- MCMaxAge
INVARIANTS
  TeardownBounded
  FirstTeardownGetsTimeout
PROPERTIES
  HungTeardownEnds

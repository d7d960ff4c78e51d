SPECIFICATION Spec
CONSTANT Peers <- MCPeers
INVARIANTS
  NothingDangles
  DestroyedOnce
  QuietBeforeDestroy
  PeerListsExclusive
  PeersSurviveStop

SPECIFICATION Spec
CONSTANT Peers <- MCPeers
INVARIANT PeersSurviveFailedStart

------------------------- MODULE MCServerResources -------------------------
(* Every choice of transports, and two peers to add and remove. *)
EXTENDS ServerResources

MCPeers == {"p", "q"}
=============================================================================

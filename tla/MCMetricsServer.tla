--------------------------- MODULE MCMetricsServer ---------------------------
(* Two workers, three nodes and a table of two entries: a node reports again *)
(* while another registers, the table fills, and a third node is refused.   *)
EXTENDS MetricsServer
=============================================================================

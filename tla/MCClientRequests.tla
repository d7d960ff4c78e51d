-------------------------- MODULE MCClientRequests --------------------------
(* Every command once, against a daemon that is up or not when it starts. *)
EXTENDS ClientRequests
=============================================================================

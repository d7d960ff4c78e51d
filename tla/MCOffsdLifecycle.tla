-------------------------- MODULE MCOffsdLifecycle --------------------------
(* Small instances of OffsdLifecycle: three saves of the pending config, the *)
(* second of which may be one that config_pending_load rejects.              *)
EXTENDS OffsdLifecycle

MCMaxSaves == 3
MCMalformed == {2}
MCWellFormed == {}
=============================================================================

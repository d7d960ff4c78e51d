------------------------------ MODULE MCUpdater ------------------------------
(* Three polls per wait loop, so that the service can change between them, and *)
(* two crashes of the daemon.                                                  *)
EXTENDS Updater

MCPolls == 3
MCMaxCrashes == 2
=============================================================================

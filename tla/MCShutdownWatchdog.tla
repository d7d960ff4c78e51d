------------------------- MODULE MCShutdownWatchdog -------------------------
(* The watchdog's timeout as four ticks and its grace sleep as one: enough   *)
(* for a reload to re-arm it in every phase of its sleep.                    *)
EXTENDS ShutdownWatchdog

MCTimeout == 4
MCGrace == 1
MCMaxAge == 7
=============================================================================
